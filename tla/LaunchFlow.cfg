SPECIFICATION FairSpec
CONSTANTS
  Worker = {w1, w2}
  System = "linux"
  SingleInstance <- MCSingleInstance
  MaxDsh = 2
  MaxAsk = 1
INVARIANTS
  TypeOK
  GateExclusive
  DshTracked
  DshExclusion
  UrlHonest
  IInv
PROPERTIES
  GateReleased
  ShutdownCompletes
  BannerResolves
  CrashPageLeft
