SPECIFICATION Spec
CONSTANTS
  Worker = {w1}
  System = "macos"
  SingleInstance = {FALSE}
  MaxDsh = 1
  MaxAsk = 0
INVARIANT NoOrphan
