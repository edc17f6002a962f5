----------------------------- MODULE MCPipeline -----------------------------
(***************************************************************************)
(* Pipeline with two published versions, one a candidate of the other, and *)
(* one configuration of each kind.                                         *)
(***************************************************************************)
EXTENDS Pipeline

Dsh(pre) == FullVersion(<<0, 1, 0>>, pre)

Rc6  == Dsh(<<Str(3), Num(6)>>)
Rc10 == Dsh(<<Str(3), Num(10)>>)
Rel  == Dsh(<<>>)

MCVersions == {Rc10, Rel}

Dot(mode, version, auto, manager, owned) ==
  [mode |-> mode, version |-> version, auto |-> auto, pm |-> manager, nodes |-> owned]

MCConfigs == {Dot("private", NoVersion, TRUE, "nub", {}),
              Dot("private", NoVersion, FALSE, "bun", {"old"}),
              Dot("hybrid", NoVersion, TRUE, "npm", {}),
              Dot("hybrid", Rc10, TRUE, "pnpm", {}),
              Dot("hybrid", DistTag, FALSE, "npm", {}),
              Dot("global", NoVersion, TRUE, "npm", {})}

\* 1.0.0-1 < alpha < alpha.1 < alpha.2 < alpha.beta < beta < rc.9 < rc.10 < 1.0.0
One(pre) == FullVersion(<<1, 0, 0>>, pre)
Alpha == Str(1)
Beta  == Str(2)
Rc    == Str(3)
MCLadder == <<Rc6, Rc10, Rel, One(<<Num(1)>>), One(<<Alpha>>), One(<<Alpha, Num(1)>>),
              One(<<Alpha, Num(2)>>), One(<<Alpha, Beta>>), One(<<Beta>>),
              One(<<Rc, Num(9)>>), One(<<Rc, Num(10)>>), One(<<>>)>>

=============================================================================
