------------------------------- MODULE Semver -------------------------------
(***************************************************************************)
(* The order of dsh's versions (FullVersion of src/version.rs): a triple   *)
(* and a list of pre-release identifiers.  An identifier is a number or a  *)
(* text; a text is its place in the ASCII order.                           *)
(***************************************************************************)
EXTENDS Integers, Sequences

Num(n) == [kind |-> "num", n |-> n]
Str(n) == [kind |-> "str", n |-> n]

FullVersion(core, pre) == [core |-> core, pre |-> pre]

FullVersions == [core : Nat \X Nat \X Nat, pre : Seq([kind : {"num", "str"}, n : Nat])]

TripleLess(a, b) ==
  \/ a[1] < b[1]
  \/ a[1] = b[1] /\ a[2] < b[2]
  \/ a[1] = b[1] /\ a[2] = b[2] /\ a[3] < b[3]

IdLess(x, y) == \/ x.kind = "num" /\ y.kind = "str"
                \/ x.kind = y.kind /\ x.n < y.n

\* The first identifier that differs decides; a list is above its prefixes.
ListLess(a, b) ==
  \E i \in 1 .. Len(b) :
    /\ \A j \in 1 .. i - 1 : j <= Len(a) /\ a[j] = b[j]
    /\ i > Len(a) \/ IdLess(a[i], b[i])

\* Fault: a release, whose list is empty, counts as a prefix of its pre-releases.
PreLessPlain(a, b) == ListLess(a, b)

\* A version without pre-release is above the same version with one.
PreLess(a, b) == a # <<>> /\ (b = <<>> \/ ListLess(a, b))

Less(v, w) ==
  \/ TripleLess(v.core, w.core)
  \/ v.core = w.core /\ PreLess(v.pre, w.pre)

=============================================================================
