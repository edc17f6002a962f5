SPECIFICATION FairSpec
CONSTANTS
  Browser = {TRUE, FALSE}
  CloseToTray = {TRUE, FALSE}
  MaxAsk = 2
  MaxAskWebView = 1
INVARIANTS
  TypeOK
  RestoreExclusive
  ShowUndisturbed
  NotStranded
  KeepAliveStopped
PROPERTIES
  Debounced
  LossNoticed
