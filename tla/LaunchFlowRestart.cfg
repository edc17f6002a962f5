SPECIFICATION ObedientSpec
CONSTANTS
  Worker = {w1}
  System = "linux"
  SingleInstance = {FALSE}
  MaxDsh = 1
  MaxAsk = 1
PROPERTY RestartServed
