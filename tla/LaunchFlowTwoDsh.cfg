SPECIFICATION Spec
CONSTANTS
  Worker = {w1}
  System = "windows"
  SingleInstance = {FALSE}
  MaxDsh = 2
  MaxAsk = 2
INVARIANT NeverTwoDsh
