SPECIFICATION FairSpec
CONSTANTS
  Stream = {stdout, stderr}
  MaxLine = 2
INVARIANTS
  TypeOK
  NoLostWakeup
  CodeBeforeEnd
  IInv
PROPERTY ImplementsLineStream
