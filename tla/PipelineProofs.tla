---------------------------- MODULE PipelineProofs ----------------------------
(***************************************************************************)
(* Pipeline: types, the nub on the PATH, the dsh that runs and what an     *)
(* install replaces, for any versions, checks and configurations and any   *)
(* number of moves of the world.                                           *)
(***************************************************************************)
EXTENDS Pipeline, FiniteSetTheorems, SequenceTheorems, WellFoundedInduction, TLAPS

(***************************************************************************)
(* The order of the versions.                                              *)
(***************************************************************************)

\* The identifiers of a pre-release.
Idents == [kind : {"num", "str"}, n : Nat]

\* ListLess is asymmetric: where the two lists first differ, one order decides.
LEMMA ListLessAsym ==
  ASSUME NEW a \in Seq(Idents), NEW b \in Seq(Idents), ListLess(a, b), ListLess(b, a)
  PROVE  FALSE
<1>1. PICK i \in 1 .. Len(b) : /\ \A k \in 1 .. i - 1 : k <= Len(a) /\ a[k] = b[k]
                               /\ i > Len(a) \/ IdLess(a[i], b[i])
  BY DEF ListLess
<1>2. PICK j \in 1 .. Len(a) : /\ \A k \in 1 .. j - 1 : k <= Len(b) /\ b[k] = a[k]
                               /\ j > Len(b) \/ IdLess(b[j], a[j])
  BY DEF ListLess
<1>3. \A k \in 1 .. Len(a) : a[k] \in Idents
  OBVIOUS
<1>4. \A k \in 1 .. Len(b) : b[k] \in Idents
  OBVIOUS
<1>5. \A x \in Idents : ~IdLess(x, x)
  BY DEF IdLess, Idents
<1>6. \A x, y \in Idents : ~(IdLess(x, y) /\ IdLess(y, x))
  BY DEF IdLess, Idents
<1>7. CASE i < j
  BY <1>1, <1>2, <1>3, <1>5, <1>7
<1>8. CASE j < i
  BY <1>1, <1>2, <1>4, <1>5, <1>8
<1>9. CASE i = j
  BY <1>1, <1>2, <1>3, <1>4, <1>6, <1>9
<1> QED BY <1>7, <1>8, <1>9

\* The order of the versions is asymmetric.
LEMMA LessAsym ==
  ASSUME NEW v \in FullVersions, NEW w \in FullVersions, Less(v, w), Less(w, v)
  PROVE  FALSE
<1>1. ~(TripleLess(v.core, w.core) /\ TripleLess(w.core, v.core))
  BY DEF TripleLess, FullVersions
<1>2. v.core = w.core => ~TripleLess(v.core, w.core) /\ ~TripleLess(w.core, v.core)
  BY DEF TripleLess, FullVersions
<1>3. v.core = w.core /\ PreLess(v.pre, w.pre) /\ PreLess(w.pre, v.pre)
  BY <1>1, <1>2 DEF Less
<1>4. v.pre \in Seq(Idents) /\ w.pre \in Seq(Idents)
  BY DEF FullVersions, Idents
<1>5. ListLess(v.pre, w.pre) /\ ListLess(w.pre, v.pre)
  BY <1>3 DEF PreLess
<1> QED BY <1>4, <1>5, ListLessAsym


\* A set of naturals that has an element has a least one.
LEMMA LeastOf ==
  ASSUME NEW D \in SUBSET Nat, NEW d \in D
  PROVE  \E i \in D : \A j \in D : i <= j
<1> DEFINE Below == {0 .. x : x \in {y \in D : y <= d}}
<1> DEFINE R == StrictSubsetOrdering(0 .. d)
<1>1. IsWellFoundedOn(R, FiniteSubsetsOf(0 .. d))
  BY FS_StrictSubsetOrderingWellFounded
<1>2. FiniteSubsetsOf(0 .. d) = SUBSET (0 .. d)
  <2>1. d \in Int
    OBVIOUS
  <2>2. IsFiniteSet(0 .. d)
    BY <2>1, FS_Interval
  <2> QED BY <2>2, FS_FiniteSubsetsOfFinite
<1>3. Below \subseteq SUBSET (0 .. d)
  <2> SUFFICES ASSUME NEW x \in Nat, x <= d PROVE 0 .. x \subseteq 0 .. d
    OBVIOUS
  <2> QED OBVIOUS
<1>4. 0 .. d \in Below
  <2>1. d \in {y \in D : y <= d}
    OBVIOUS
  <2> QED BY <2>1
<1>5. \E B \in Below : \A C \in Below : ~(<<C, B>> \in R)
  <2>1. Below \subseteq FiniteSubsetsOf(0 .. d) /\ Below # {}
    BY <1>2, <1>3, <1>4
  <2> HIDE DEF Below, R
  <2> QED BY <1>1, <2>1, WFMin
<1>6. PICK B \in Below : \A C \in Below : ~(<<C, B>> \in R)
  BY <1>5
<1>7. PICK x \in D : x <= d /\ B = 0 .. x
  BY <1>6
<1>8. ASSUME NEW j \in D PROVE x <= j
  <2> SUFFICES ASSUME j < x PROVE FALSE
    OBVIOUS
  <2>1. 0 .. j \in Below
    <3>1. j \in {y \in D : y <= d}
      BY <1>7
    <3> QED BY <3>1
  <2>2. 0 .. j \subseteq 0 .. x /\ 0 .. j # 0 .. x
    <3>1. x \in 0 .. x /\ x \notin 0 .. j
      OBVIOUS
    <3> QED BY <3>1
  <2>3. 0 .. j \in SUBSET (0 .. d) /\ 0 .. x \in SUBSET (0 .. d)
    BY <1>7
  <2>4. <<0 .. j, B>> \in R
    BY <1>7, <2>2, <2>3 DEF StrictSubsetOrdering
  <2> QED BY <1>6, <2>1, <2>4
<1> QED BY <1>8

\* Two identifiers that differ are ordered, and the order is transitive.
LEMMA IdOrder ==
  /\ \A x \in Idents : ~IdLess(x, x)
  /\ \A x, y \in Idents : x # y => IdLess(x, y) \/ IdLess(y, x)
  /\ \A x, y, z \in Idents : IdLess(x, y) /\ IdLess(y, z) => IdLess(x, z)
  BY DEF IdLess, Idents

\* ListLess is transitive: the earlier of the two places that decide decides.
LEMMA ListLessTrans ==
  ASSUME NEW a \in Seq(Idents), NEW b \in Seq(Idents), NEW c \in Seq(Idents),
         ListLess(a, b), ListLess(b, c)
  PROVE  ListLess(a, c)
<1>1. PICK i \in 1 .. Len(b) : /\ \A k \in 1 .. i - 1 : k <= Len(a) /\ a[k] = b[k]
                               /\ i > Len(a) \/ IdLess(a[i], b[i])
  BY DEF ListLess
<1>2. PICK j \in 1 .. Len(c) : /\ \A k \in 1 .. j - 1 : k <= Len(b) /\ b[k] = c[k]
                               /\ j > Len(b) \/ IdLess(b[j], c[j])
  BY DEF ListLess
<1>3. /\ \A k \in 1 .. Len(a) : a[k] \in Idents
      /\ \A k \in 1 .. Len(b) : b[k] \in Idents
      /\ \A k \in 1 .. Len(c) : c[k] \in Idents
      /\ Len(a) \in Nat /\ Len(b) \in Nat /\ Len(c) \in Nat
  OBVIOUS
<1>4. CASE i < j
  <2>1. i \in 1 .. Len(c) /\ b[i] = c[i]
    BY <1>2, <1>4
  <2>2. \A k \in 1 .. i - 1 : k <= Len(a) /\ a[k] = c[k]
    BY <1>1, <1>2, <1>4
  <2>3. i > Len(a) \/ IdLess(a[i], c[i])
    BY <1>1, <2>1
  <2> QED BY <2>1, <2>2, <2>3 DEF ListLess
<1>5. CASE j < i
  <2>1. j <= Len(a) /\ a[j] = b[j]
    BY <1>1, <1>5
  <2>2. \A k \in 1 .. j - 1 : k <= Len(a) /\ a[k] = c[k]
    BY <1>1, <1>2, <1>5
  <2>3. IdLess(a[j], c[j])
    BY <1>2, <1>3, <1>5, <2>1
  <2> QED BY <2>2, <2>3 DEF ListLess
<1>6. CASE i = j
  <2>1. IdLess(b[i], c[i])
    BY <1>2, <1>3, <1>6
  <2>2. \A k \in 1 .. i - 1 : k <= Len(a) /\ a[k] = c[k]
    BY <1>1, <1>2, <1>6
  <2>3. i > Len(a) \/ IdLess(a[i], c[i])
    <3>1. i <= Len(a) => a[i] \in Idents /\ b[i] \in Idents /\ c[i] \in Idents
      BY <1>3, <1>6
    <3> QED BY <1>1, <2>1, <3>1, IdOrder
  <2> QED BY <1>6, <2>2, <2>3 DEF ListLess
<1> QED BY <1>4, <1>5, <1>6

\* Two lists that differ are ordered by the first place where they do.
LEMMA ListLessTotal ==
  ASSUME NEW a \in Seq(Idents), NEW b \in Seq(Idents), a # b
  PROVE  ListLess(a, b) \/ ListLess(b, a)
<1> DEFINE Same(k) == k <= Len(a) /\ k <= Len(b) /\ a[k] = b[k]
<1> DEFINE D == {k \in Nat : k >= 1 /\ (k <= Len(a) \/ k <= Len(b)) /\ ~Same(k)}
<1>1. Len(a) \in Nat /\ Len(b) \in Nat
  OBVIOUS
<1>2. D # {}
  <2> SUFFICES ASSUME D = {} PROVE FALSE
    OBVIOUS
  <2>1. \A k \in Nat : k >= 1 /\ (k <= Len(a) \/ k <= Len(b)) => Same(k)
    OBVIOUS
  <2>2. Len(a) <= Len(b)
    BY <1>1, <2>1
  <2>3. Len(b) <= Len(a)
    BY <1>1, <2>1
  <2>4. Len(a) = Len(b)
    BY <1>1, <2>2, <2>3
  <2>5. \A k \in 1 .. Len(a) : a[k] = b[k]
    BY <1>1, <2>1
  <2> QED BY <2>4, <2>5, SeqEqual
<1>3. PICK d \in D : TRUE
  BY <1>2
<1>4. D \in SUBSET Nat
  OBVIOUS
<1>5. \E i \in D : \A j \in D : i <= j
  <2> HIDE DEF D
  <2> QED BY <1>3, <1>4, LeastOf
<1>6. PICK i \in D : \A j \in D : i <= j
  BY <1>5
<1>7. i \in Nat /\ i >= 1 /\ (i <= Len(a) \/ i <= Len(b)) /\ ~Same(i)
  BY <1>6
<1>8. \A k \in 1 .. i - 1 : Same(k)
  BY <1>1, <1>6, <1>7
<1>9. CASE i > Len(a)
  <2>1. i \in 1 .. Len(b)
    BY <1>1, <1>7, <1>9
  <2> QED BY <1>8, <1>9, <2>1 DEF ListLess
<1>10. CASE i > Len(b)
  <2>1. i \in 1 .. Len(a)
    BY <1>1, <1>7, <1>10
  <2> QED BY <1>8, <1>10, <2>1 DEF ListLess
<1>11. CASE i <= Len(a) /\ i <= Len(b)
  <2>1. i \in 1 .. Len(a) /\ i \in 1 .. Len(b)
    BY <1>1, <1>7, <1>11
  <2>2. a[i] \in Idents /\ b[i] \in Idents /\ a[i] # b[i]
    BY <1>7, <2>1
  <2>3. IdLess(a[i], b[i]) \/ IdLess(b[i], a[i])
    BY <2>2, IdOrder
  <2> QED BY <1>8, <2>1, <2>3 DEF ListLess
<1> QED BY <1>1, <1>7, <1>9, <1>10, <1>11

\* The versions of dsh are in a strict total order, whatever their pre-releases
\* (FullVersion::cmp of src/version.rs): none is below itself, the order is
\* transitive, and of two that differ one is below the other.  The test
\* ordering_follows_semver looks at one ladder of them.
THEOREM VersionsOrdered ==
  /\ \A v \in FullVersions : ~Less(v, v)
  /\ \A u, v, w \in FullVersions : Less(u, v) /\ Less(v, w) => Less(u, w)
  /\ \A v, w \in FullVersions : v # w => Less(v, w) \/ Less(w, v)
<1>1. ASSUME NEW v \in FullVersions PROVE ~Less(v, v)
  BY LessAsym
<1>2. ASSUME NEW u \in FullVersions, NEW v \in FullVersions, NEW w \in FullVersions,
             Less(u, v), Less(v, w)
      PROVE  Less(u, w)
  <2>1. u.pre \in Seq(Idents) /\ v.pre \in Seq(Idents) /\ w.pre \in Seq(Idents)
    BY DEF FullVersions, Idents
  <2>2. u.core \in Nat \X Nat \X Nat /\ v.core \in Nat \X Nat \X Nat
        /\ w.core \in Nat \X Nat \X Nat
    BY DEF FullVersions
  <2>3. TripleLess(u.core, v.core) /\ TripleLess(v.core, w.core)
        => TripleLess(u.core, w.core)
    BY <2>2 DEF TripleLess
  <2>4. PreLess(u.pre, v.pre) /\ PreLess(v.pre, w.pre) => PreLess(u.pre, w.pre)
    BY <2>1, ListLessTrans DEF PreLess
  <2> QED BY <1>2, <2>3, <2>4 DEF Less
<1>3. ASSUME NEW v \in FullVersions, NEW w \in FullVersions, v # w
      PROVE  Less(v, w) \/ Less(w, v)
  <2>1. v.pre \in Seq(Idents) /\ w.pre \in Seq(Idents)
    BY DEF FullVersions, Idents
  <2>2. v.core # w.core => TripleLess(v.core, w.core) \/ TripleLess(w.core, v.core)
    BY DEF TripleLess, FullVersions
  <2>3. v.core = w.core => v.pre # w.pre
    BY <1>3 DEF FullVersions
  <2>4. v.pre # w.pre => PreLess(v.pre, w.pre) \/ PreLess(w.pre, v.pre)
    BY <2>1, ListLessTotal DEF PreLess
  <2> QED BY <2>2, <2>3, <2>4 DEF Less
<1> QED BY <1>1, <1>2, <1>3

\* The rules of semver 11.4 are the order's: a release is above its candidates,
\* the first identifier that differs decides whatever follows, numbers by value
\* and below texts, and a list is below each that goes on after it
\* (FullVersion::cmp and pre_cmp of src/version.rs).  With VersionsOrdered no
\* other order satisfies them.
THEOREM SemverRules ==
  ASSUME NEW core \in Nat \X Nat \X Nat, NEW p \in Seq(Idents),
         NEW s \in Seq(Idents), NEW t \in Seq(Idents),
         NEW x \in Idents, NEW y \in Idents
  PROVE  /\ p # <<>> => Less(FullVersion(core, p), FullVersion(core, <<>>))
         /\ (x.kind = y.kind /\ x.n < y.n) \/ (x.kind = "num" /\ y.kind = "str")
              => Less(FullVersion(core, (p \o <<x>>) \o s),
                      FullVersion(core, (p \o <<y>>) \o t))
         /\ p # <<>> => Less(FullVersion(core, p), FullVersion(core, (p \o <<x>>) \o s))
<1> DEFINE u == (p \o <<x>>) \o s
<1> DEFINE v == (p \o <<y>>) \o t
<1>1. /\ u \in Seq(Idents) /\ v \in Seq(Idents)
      /\ Len(u) = Len(p) + 1 + Len(s) /\ Len(v) = Len(p) + 1 + Len(t)
      /\ u[Len(p) + 1] = x /\ v[Len(p) + 1] = y
      /\ \A i \in 1 .. Len(p) : u[i] = p[i] /\ v[i] = p[i]
      /\ Len(p) \in Nat /\ Len(s) \in Nat /\ Len(t) \in Nat
  OBVIOUS
<1>2. u # <<>> /\ v # <<>>
  BY <1>1
<1>3. ASSUME IdLess(x, y) PROVE ListLess(u, v)
  <2>1. Len(p) + 1 \in 1 .. Len(v)
    BY <1>1
  <2>2. \A j \in 1 .. (Len(p) + 1) - 1 : j <= Len(u) /\ u[j] = v[j]
    BY <1>1
  <2> HIDE DEF u, v
  <2> QED BY <1>1, <1>3, <2>1, <2>2 DEF ListLess
<1>4. ListLess(p, u)
  <2>1. Len(p) + 1 \in 1 .. Len(u)
    BY <1>1
  <2>2. \A j \in 1 .. (Len(p) + 1) - 1 : j <= Len(p) /\ p[j] = u[j]
    BY <1>1
  <2>3. Len(p) + 1 > Len(p)
    BY <1>1
  <2> HIDE DEF u, v
  <2> QED BY <2>1, <2>2, <2>3 DEF ListLess
<1> HIDE DEF u, v
<1>5. p # <<>> => Less(FullVersion(core, p), FullVersion(core, <<>>))
  BY DEF Less, FullVersion, PreLess
<1>6. IdLess(x, y) => Less(FullVersion(core, u), FullVersion(core, v))
  BY <1>2, <1>3 DEF Less, FullVersion, PreLess
<1>7. p # <<>> => Less(FullVersion(core, p), FullVersion(core, u))
  BY <1>4 DEF Less, FullVersion, PreLess
<1> QED BY <1>5, <1>6, <1>7 DEF IdLess, u, v

\* A ladder of versions whose neighbours are in order is in order throughout, at
\* every state: the run has only the steps of its ladder to say, and every such
\* ladder is sorted by Less (FullVersion::cmp) as its places are.
THEOREM LadderOrdered ==
  ASSUME Ladder \in Seq(FullVersions),
         \A i \in 1 .. Len(Ladder) - 1 : Less(Ladder[i], Ladder[i + 1])
  PROVE  Spec => []SemverOrder
<1> DEFINE Up(i, j) == Less(Ladder[i], Ladder[j])
<1>1. /\ DOMAIN Ladder = 1 .. Len(Ladder) /\ Len(Ladder) \in Nat
      /\ \A i \in 1 .. Len(Ladder) : Ladder[i] \in FullVersions
  OBVIOUS
<1>2. ASSUME NEW i \in 1 .. Len(Ladder), NEW j \in 1 .. Len(Ladder), i < j PROVE Up(i, j)
  <2> DEFINE Bad == {k \in Nat : i < k /\ k <= Len(Ladder) /\ ~Up(i, k)}
  <2> SUFFICES ASSUME ~Up(i, j) PROVE FALSE
    OBVIOUS
  <2>1. j \in Bad /\ Bad \in SUBSET Nat
    BY <1>1, <1>2
  <2>2. \E k \in Bad : \A l \in Bad : k <= l
    <3> HIDE DEF Bad
    <3> QED BY <2>1, LeastOf
  <2>3. PICK k \in Bad : \A l \in Bad : k <= l
    BY <2>2
  <2>4. k \in Nat /\ i < k /\ k <= Len(Ladder) /\ ~Up(i, k)
    BY <2>3
  <2>5. k - 1 \in 1 .. Len(Ladder) - 1 /\ i <= k - 1 /\ k = (k - 1) + 1
    BY <1>1, <2>4
  <2>6. Up(k - 1, k)
    BY <2>5
  <2>7. i = k - 1 \/ Up(i, k - 1)
    <3>1. k - 1 \notin Bad
      BY <2>3, <2>4
    <3> QED BY <1>1, <2>5, <3>1
  <2>8. Ladder[i] \in FullVersions /\ Ladder[k - 1] \in FullVersions /\ Ladder[k] \in FullVersions
    BY <1>1, <2>4, <2>5
  <2> QED BY <2>4, <2>6, <2>7, <2>8, VersionsOrdered
<1>3. \A i, j \in DOMAIN Ladder : Up(i, j) <=> i < j
  <2> SUFFICES ASSUME NEW i \in DOMAIN Ladder, NEW j \in DOMAIN Ladder PROVE Up(i, j) <=> i < j
    OBVIOUS
  <2>1. CASE i < j
    BY <1>1, <1>2, <2>1
  <2>2. CASE i = j
    BY <1>1, <2>2, VersionsOrdered
  <2>3. CASE j < i
    <3>1. Up(j, i)
      BY <1>1, <1>2, <2>3
    <3> QED BY <1>1, <2>3, <3>1, LessAsym
  <2> QED BY <1>1, <2>1, <2>2, <2>3
<1>4. SemverOrder
  BY <1>3 DEF SemverOrder
<1> QED BY <1>4, PTL
(***************************************************************************)
(* Types.                                                                  *)
(***************************************************************************)

\* The tools keep their types.
LEMMA ToolsTyped == ToolTypeOK /\ CacheTypeOK /\ Tools => ToolTypeOK'
<1> SUFFICES ASSUME ToolTypeOK, CacheTypeOK, Tools PROVE ToolTypeOK'
  OBVIOUS
<1> USE DEF ToolTypeOK, ToolAt, GoTool, Ages, Cached, NoTools, cacheOfTools
<1>1. CASE ProbeTools  BY <1>1, SMTT(40) DEF ProbeTools, Satisfies
<1>2. CASE EnsureNub  BY <1>2 DEF EnsureNub, NubCached
<1>3. CASE FetchNub
  <2>1. /\ UNCHANGED <<nub, bun, pnpm, nodes, onPath>>
        /\ tool' \in {"nubShims", "node"}
        /\ failed' = failed \/ failed' = failed \cup {"nub"}
    BY <1>3 DEF FetchNub, FailInstall
  <2>2. failed' \subseteq Cached
    BY <2>1
  <2>3. nodes' \in [user : SUBSET Ages, cache : BOOLEAN]
    BY <2>1
  <2> QED BY <2>1, <2>2, <2>3
<1>4. CASE CopyShims  BY <1>4 DEF CopyShims, FailInstall
<1>5. CASE CopyNub  BY <1>5 DEF CopyNub, FailInstall
<1>6. CASE MarkNub  BY <1>6 DEF MarkNub, FailInstall
<1>7. CASE EnsureNode
  BY <1>7, SMTT(40) DEF EnsureNode, NubProvides, ProvisionNode, Satisfies, FindNode
<1>8. CASE InstallNode
  <2>1. nodes' \in [user : SUBSET Ages, cache : BOOLEAN]
    <3>1. nodes \in [user : SUBSET Ages, cache : BOOLEAN]
      OBVIOUS
    <3>2. NodeByFnm \in [user : SUBSET Ages, cache : BOOLEAN]
      BY <3>1 DEF NodeByFnm
    <3>3. nodes.user \cup {"recent"} \in SUBSET Ages
      BY <3>1
    <3>4. NodeByNvm \in [user : SUBSET Ages, cache : BOOLEAN]
      BY <3>1, <3>3 DEF NodeByNvm
    <3> QED BY <1>8, <3>2, <3>4 DEF InstallNode
  <2>2. FindNode(nodes') \subseteq Ages
    BY <2>1 DEF FindNode
  <2>3. onPath' = onPath \/ \E age \in Ages : onPath' = [onPath EXCEPT !.node = age]
    BY <1>8, <2>2 DEF InstallNode
  <2>4. /\ UNCHANGED <<nub, bun, pnpm, failed>>
        /\ tool' \in {"bun", "failed"}
    BY <1>8 DEF InstallNode
  <2>5. failed' \subseteq Cached
    BY <2>4
  <2>6. onPath' \in [node : Ages \cup {"none"}, nub : {"none", "ambient", "cache"},
                     bun : {"none", "ambient", "cache"},
                     pnpm : {"none", "ambient", "cache"}]
    BY <2>3
  <2> QED BY <2>1, <2>4, <2>5, <2>6
<1>9. CASE EnsureBun  BY <1>9 DEF EnsureBun
<1>10. CASE FetchBun  BY <1>10 DEF FetchBun
<1>11. CASE CopyBun  BY <1>11 DEF CopyBun, BunInstalled
<1>12. CASE ScriptBun  BY <1>12 DEF ScriptBun, BunInstalled, FailInstall
<1>13. CASE EnsurePnpm  BY <1>13 DEF EnsurePnpm
<1>14. CASE InstallPnpm  BY <1>14 DEF InstallPnpm
<1> QED
  BY <1>1, <1>2, <1>3, <1>4, <1>5, <1>6, <1>7, <1>8, <1>9, <1>10, <1>11, <1>12,
     <1>13, <1>14 DEF Tools

\* A launch, the checks and the world keep the types of the cache.
LEMMA LaunchTyped == CacheTypeOK /\ (Launch \/ Begin) => CacheTypeOK'
<1> SUFFICES ASSUME CacheTypeOK, Launch \/ Begin PROVE CacheTypeOK'
  OBVIOUS
<1> USE VersionsAssumption, ConfigsAssumption
    DEF CacheTypeOK, At, Go, Maybe, Modes, diskVars, checkVars, ghostVars, NoCopy,
        NotRunning, NoStatus
<1>1. CASE Begin  BY <1>1 DEF Begin
<1>2. CASE Query  BY <1>2 DEF Query, Targets, WantsLatest
<1>3. CASE Choose
  <2>1. \A p : Probe(p) \in Maybe
    BY DEF Probe
  <2>2. \A c : PickGlobal(c) \in {"none", "global"}
    BY DEF PickGlobal
  <2>3. NoVersion \in Maybe
    OBVIOUS
  <2>4. probed' \in Maybe /\ program' \in {"none", "global", "cache"}
    BY <1>3, <2>1, <2>2, <2>3 DEF Choose
  <2> QED BY <1>3, <2>4 DEF Choose
<1>4. CASE Verify  BY <1>4 DEF Verify
<1>5. CASE Decide
  <2>1. InstallSpec(cache) \subseteq Versions
    BY DEF InstallSpec
  <2> QED BY <1>5, <2>1 DEF Decide
<1>6. CASE InstallStarts
  <2>1. UNCHANGED <<registry, global, config, target, program, probed, had, goal,
                    running, ctx, status, recent, check, moves, touched, hollow>>
    BY <1>6 DEF InstallStarts
  <2>2. at = "install" /\ at' \in {"installing", "failed"}
    BY <1>6 DEF InstallStarts
  <2>3. cache' \in [version : Maybe, entry : BOOLEAN]
    <3>1. cache \in [version : Maybe, entry : BOOLEAN]
      OBVIOUS
    <3>2. {cache.version, goal, NoVersion} \subseteq Maybe
      BY <3>1
    <3>3. \A v \in Maybe : [version |-> v, entry |-> FALSE] \in [version : Maybe, entry : BOOLEAN]
      OBVIOUS
    <3> QED BY <1>6, <3>1, <3>2, <3>3 DEF InstallStarts
  <2>4. target' \in Maybe \cup {DistTag} /\ {probed', goal'} \subseteq Maybe
    BY <2>1
  <2>5. {ctx', recent', touched', hollow'} \subseteq BOOLEAN
    BY <2>1
  <2>6. at' \in {"install", "installing"} => goal' \in Versions
    BY <2>1, <2>2
  <2> QED BY <2>1, <2>2, <2>3, <2>4, <2>5, <2>6
<1>7. CASE InstallEnds
  <2>1. at = "installing" /\ at' \in {"forget", "failed"}
    BY <1>7 DEF InstallEnds
  <2>2. cache' \in [version : Maybe, entry : BOOLEAN]
    <3>1. \/ \E there \in BOOLEAN : cache' = [version |-> goal, entry |-> there]
          \/ cache' = cache
      BY <1>7 DEF InstallEnds
    <3>2. goal \in Maybe /\ cache \in [version : Maybe, entry : BOOLEAN]
      OBVIOUS
    <3>3. \A there \in BOOLEAN :
            [version |-> goal, entry |-> there] \in [version : Maybe, entry : BOOLEAN]
      BY <3>2
    <3> QED BY <3>1, <3>2, <3>3, Zenon
  <2>3. hollow' \in BOOLEAN
    BY <1>7 DEF InstallEnds
  <2>4. UNCHANGED <<registry, global, config, target, program, probed, had, goal,
                    running, ctx, status, recent, check, moves, touched>>
    BY <1>7 DEF InstallEnds
  <2>5. target' \in Maybe \cup {DistTag} /\ {probed', goal'} \subseteq Maybe
    BY <2>4
  <2>6. {ctx', recent', touched', hollow'} \subseteq BOOLEAN
    BY <2>3, <2>4
  <2> QED BY <2>1, <2>2, <2>4, <2>5, <2>6
<1>8. CASE Forget
  <2>1. /\ at' = "spawn" /\ had' = NoCopy /\ goal' = NoVersion
        /\ status' = NoStatus /\ recent' = FALSE
    BY <1>8 DEF Forget, Invalidate
  <2>2. UNCHANGED <<registry, global, cache, config, target, program, probed,
                    running, ctx, check, moves, touched, hollow>>
    BY <1>8 DEF Forget
  <2>3. {cache', had'} \subseteq [version : Maybe, entry : BOOLEAN]
    BY <2>1, <2>2
  <2>4. target' \in Maybe \cup {DistTag} /\ {probed', goal'} \subseteq Maybe
    BY <2>1, <2>2
  <2>5. status' \in [latest : Maybe, available : BOOLEAN]
    BY <2>1
  <2>6. {ctx', recent', touched', hollow'} \subseteq BOOLEAN
    BY <2>1, <2>2
  <2> QED BY <2>1, <2>2, <2>3, <2>4, <2>5, <2>6
<1>9. CASE SpawnDsh  BY <1>9 DEF SpawnDsh
<1>10. CASE DshEnds  BY <1>10 DEF DshEnds
<1> QED
  BY <1>1, <1>2, <1>3, <1>4, <1>5, <1>6, <1>7, <1>8, <1>9, <1>10 DEF Launch

\* Nor does a check, the world or the end of the process.
LEMMA AroundTyped == CacheTypeOK /\ (Around \/ Checking \/ Killed) => CacheTypeOK'
<1> SUFFICES ASSUME CacheTypeOK, Around \/ Checking \/ Killed PROVE CacheTypeOK'
  OBVIOUS
<1> DEFINE CheckType == [at : {"idle", "current", "store"}, latest : Maybe,
                         current : Maybe]
<1> USE VersionsAssumption, BoundAssumption DEF launchVars, diskVars, checkVars, ghostVars
<1>1. CASE DistTagMoves  BY <1>1 DEF CacheTypeOK, DistTagMoves, Move
<1>2. CASE UserChangesGlobal
  <2>1. touched' \in BOOLEAN
    BY <1>2 DEF UserChangesGlobal
  <2>2. global' \in [version : Maybe, ok : BOOLEAN] /\ moves' \in 0 .. MaxMoves
    BY <1>2 DEF UserChangesGlobal, Move, CacheTypeOK
  <2>3. UNCHANGED <<registry, cache, launchVars, checkVars, hollow>>
    BY <1>2 DEF UserChangesGlobal
  <2> QED BY <2>1, <2>2, <2>3 DEF CacheTypeOK
<1>3. CASE UserClearsCache
  <2>1. touched' \in BOOLEAN
    BY <1>3 DEF UserClearsCache
  <2>2. cache' = NoCopy /\ moves' \in 0 .. MaxMoves
    BY <1>3 DEF UserClearsCache, Move, CacheTypeOK
  <2>3. UNCHANGED <<registry, global, launchVars, checkVars, hollow>>
    BY <1>3 DEF UserClearsCache
  <2>4. cache' \in [version : Maybe, entry : BOOLEAN]
    BY <2>2 DEF NoCopy, Maybe
  <2> QED BY <2>1, <2>2, <2>3, <2>4 DEF CacheTypeOK
<1>4. CASE Expire  BY <1>4 DEF CacheTypeOK, Expire
<1>5. ASSUME NEW t \in Checks, CheckQueries(t) PROVE CacheTypeOK'
  <2>1. check' \in [Checks -> CheckType]
    BY <1>5 DEF CacheTypeOK, CheckQueries, Maybe
  <2>2. UNCHANGED <<diskVars, launchVars, ctx, status, recent, ghostVars>>
    BY <1>5 DEF CheckQueries
  <2> QED BY <2>1, <2>2 DEF CacheTypeOK
<1>6. ASSUME NEW t \in Checks, CheckReads(t) PROVE CacheTypeOK'
  <2>1. \A p : Probe(p) \in Maybe
    BY DEF Probe, CacheTypeOK, Maybe
  <2>2. \A ahead \in BOOLEAN : Current(ahead) \subseteq Maybe
    BY <2>1 DEF Current, CacheTypeOK, Maybe
  <2>3. PICK v \in Maybe :
          check' = [check EXCEPT ![t].at = "store", ![t].current = v]
    BY <1>6, <2>2 DEF CheckReads
  <2>4. check' \in [Checks -> CheckType]
    BY <2>3 DEF CacheTypeOK
  <2>5. UNCHANGED <<diskVars, launchVars, ctx, status, recent, ghostVars>>
    BY <1>6 DEF CheckReads
  <2> QED BY <2>4, <2>5 DEF CacheTypeOK
<1>7. ASSUME NEW t \in Checks, CheckStores(t) PROVE CacheTypeOK'
  <2>1. check[t] \in CheckType
    BY DEF CacheTypeOK
  <2>2. PICK b \in BOOLEAN : status' = [latest |-> check[t].latest, available |-> b]
    <3>1. (check[t].current # NoVersion /\ Less(check[t].current, check[t].latest))
            \in BOOLEAN
      OBVIOUS
    <3> QED BY <1>7, <3>1, Zenon DEF CheckStores
  <2>3. status' \in [latest : Maybe, available : BOOLEAN]
    BY <2>1, <2>2
  <2>4. check' \in [Checks -> CheckType]
    BY <1>7 DEF CheckStores, CacheTypeOK, IdleCheck, Maybe
  <2>5. /\ UNCHANGED <<diskVars, launchVars, ctx, ghostVars>>
        /\ recent' = TRUE
    BY <1>7 DEF CheckStores
  <2> QED BY <2>3, <2>4, <2>5 DEF CacheTypeOK
<1>8. CASE Killed
  <2>1. check' \in [Checks -> CheckType]
    BY <1>8 DEF Killed, IdleCheck, Maybe
  <2>2. /\ at' = "idle" /\ running' = NotRunning
        /\ target' = NoVersion /\ program' = "none" /\ probed' = NoVersion
        /\ had' = NoCopy /\ goal' = NoVersion
        /\ ctx' = FALSE /\ status' = NoStatus /\ recent' = FALSE
        /\ UNCHANGED <<diskVars, config, touched, hollow>>
        /\ moves' \in 0 .. MaxMoves
    BY <1>8 DEF Killed, Move, CacheTypeOK
  <2>3. NoVersion \in Maybe
    BY DEF Maybe
  <2>4. status' \in [latest : Maybe, available : BOOLEAN]
    BY <2>2, <2>3 DEF NoStatus
  <2>5. had' \in [version : Maybe, entry : BOOLEAN]
    BY <2>2, <2>3 DEF NoCopy
  <2>6. running' \in [from : {"none", "global", "cache"}, version : Maybe]
    BY <2>2, <2>3 DEF NotRunning
  <2> QED BY <2>1, <2>2, <2>3, <2>4, <2>5, <2>6 DEF CacheTypeOK
<1> QED
  BY <1>1, <1>2, <1>3, <1>4, <1>5, <1>6, <1>7, <1>8 DEF Around, Checking

\* What a step of the pipeline is to the cache.
LEMMA CacheStep ==
  [Next]_vars => \/ Launch \/ Begin \/ Around \/ Checking \/ Killed
                 \/ UNCHANGED cacheVars
  BY DEF Next, vars, RunTools, RunPrepare, RunLaunch, RunAround, RunKilled

\* The same for the tools.
LEMMA ToolStep ==
  [Next]_vars => \/ Tools \/ ToolsOff \/ ToolsKilled
                 \/ UNCHANGED toolVars
  BY DEF Next, vars, RunTools, RunPrepare, RunLaunch, RunAround, RunKilled

\* The types hold at first.
LEMMA InitTyped == Init => TypeOK
<1> SUFFICES ASSUME Init PROVE TypeOK
  OBVIOUS
<1>1. CacheTypeOK
  <2>1. /\ cache \in [version : Maybe, entry : BOOLEAN]
        /\ had \in [version : Maybe, entry : BOOLEAN]
    <3>1. NoCopy \in [version : Maybe, entry : BOOLEAN]
      BY DEF NoCopy, Maybe
    <3>2. [version : Versions, entry : {TRUE}] \subseteq [version : Maybe, entry : BOOLEAN]
      BY DEF Maybe
    <3>3. cache \in {NoCopy} \cup [version : Versions, entry : {TRUE}] /\ had = NoCopy
      BY DEF Init, CacheInit
    <3> QED BY <3>1, <3>2, <3>3
  <2>2. global \in [version : Maybe, ok : BOOLEAN]
    <3>1. NoDsh \in [version : Maybe, ok : BOOLEAN]
      BY DEF NoDsh, Maybe
    <3>2. [version : Versions, ok : {TRUE}] \subseteq [version : Maybe, ok : BOOLEAN]
      BY DEF Maybe
    <3>3. global \in {NoDsh} \cup [version : Versions, ok : {TRUE}]
      BY DEF Init, CacheInit
    <3> QED BY <3>1, <3>2, <3>3
  <2>3. running \in [from : {"none", "global", "cache"}, version : Maybe]
    BY DEF Init, CacheInit, NotRunning, Maybe
  <2>4. status \in [latest : Maybe, available : BOOLEAN]
    BY DEF Init, CacheInit, NoStatus, Maybe
  <2>5. check \in [Checks -> [at : {"idle", "current", "store"}, latest : Maybe,
                              current : Maybe]]
    BY DEF Init, CacheInit, IdleCheck, Maybe
  <2>6. target \in Maybe \cup {DistTag} /\ {probed, goal} \subseteq Maybe
    BY DEF Init, CacheInit, Maybe
  <2>7. /\ registry \in Versions /\ config \in Configs /\ at = "idle"
        /\ program = "none" /\ ctx = FALSE /\ recent = FALSE /\ touched = FALSE
        /\ hollow = FALSE
        /\ moves \in 0 .. MaxMoves
    BY BoundAssumption DEF Init, CacheInit
  <2> QED BY <2>1, <2>2, <2>3, <2>4, <2>5, <2>6, <2>7 DEF CacheTypeOK
<1>2. ToolTypeOK
  <2>1. config.nodes \in SUBSET Ages
    BY ConfigsAssumption DEF Init, CacheInit
  <2>2. nodes \in [user : SUBSET Ages, cache : BOOLEAN]
    BY <2>1 DEF Init, ToolInit
  <2>3. nub \in [bin : {"none", "shim", "partial", "native"}, marker : BOOLEAN]
    BY DEF Init, ToolInit
  <2>4. onPath \in [node : Ages \cup {"none"}, nub : {"none", "ambient", "cache"},
                    bun : {"none", "ambient", "cache"},
                    pnpm : {"none", "ambient", "cache"}]
    BY DEF Init, ToolInit, NoTools
  <2>5. /\ tool = "off" /\ bun = "none" /\ pnpm = FALSE
        /\ failed = {}
    BY DEF Init, ToolInit
  <2> QED BY <2>2, <2>3, <2>4, <2>5 DEF ToolTypeOK
<1> QED BY <1>1, <1>2 DEF TypeOK

\* No step breaks them.
LEMMA NextTyped == TypeOK /\ [Next]_vars => TypeOK'
<1> SUFFICES ASSUME TypeOK, [Next]_vars PROVE TypeOK'
  OBVIOUS
<1>1. CacheTypeOK'
  <2>1. CASE UNCHANGED cacheVars
    BY <2>1 DEF TypeOK, CacheTypeOK, cacheVars, diskVars, launchVars, checkVars, ghostVars
  <2> QED BY <2>1, CacheStep, LaunchTyped, AroundTyped DEF TypeOK
<1>2. ToolTypeOK'
  <2>1. CASE UNCHANGED toolVars
    BY <2>1 DEF TypeOK, ToolTypeOK, toolVars
  <2>2. CASE ToolsOff \/ ToolsKilled
    BY <2>2 DEF TypeOK, ToolTypeOK, ToolsOff, ToolsKilled, NoTools, cacheOfTools, Ages
  <2> QED BY <2>1, <2>2, ToolStep, ToolsTyped DEF TypeOK
<1> QED BY <1>1, <1>2 DEF TypeOK

\* The variables of the launch, the checks and the toolchain keep their types.
THEOREM PipelineTyped == Spec => []TypeOK
  BY InitTyped, NextTyped, PTL DEF Spec

(***************************************************************************)
(* The tools.                                                              *)
(***************************************************************************)

\* The places of runtime_env::run before nub is settled.
BeforeNub == {"off", "nub", "nubFetch", "nubShims", "nubCopy", "nubMark"}

\* The marker is written last: whoever reads it reads of a binary.  An install begins
\* without the marker, so what a kill leaves behind has none either.
NubInv ==
  /\ nub.marker => nub.bin = "native"
  /\ tool \in {"nubFetch", "nubShims", "nubCopy"} => ~nub.marker
  /\ tool = "nubMark" => nub.bin = "native"
  /\ tool \in BeforeNub => onPath.nub = "none"
  /\ NubIsNative

\* Nothing is installed when a launcher starts.
LEMMA InitTool == Init => NubInv
  BY DEF Init, ToolInit, NubInv, NubIsNative, NoTools, BeforeNub

\* No step of the toolchain breaks the invariant about nub.
LEMMA NubKept == ToolTypeOK /\ NubInv /\ Tools => NubInv'
<1> SUFFICES ASSUME ToolTypeOK, NubInv, Tools PROVE NubInv'
  OBVIOUS
<1> USE DEF ToolTypeOK, NubInv, NubIsNative, BeforeNub, ToolAt, GoTool, cacheOfTools
<1>1. CASE ProbeTools  BY <1>1 DEF ProbeTools, NoTools
<1>2. CASE EnsureNub  BY <1>2 DEF EnsureNub, NubCached
<1>3. CASE FetchNub  BY <1>3 DEF FetchNub
<1>4. CASE CopyShims  BY <1>4 DEF CopyShims
<1>5. CASE CopyNub  BY <1>5 DEF CopyNub
<1>6. CASE MarkNub  BY <1>6 DEF MarkNub
<1>7. CASE EnsureNode  BY <1>7 DEF EnsureNode, ProvisionNode
<1>8. CASE InstallNode  BY <1>8 DEF InstallNode
<1>9. CASE EnsureBun  BY <1>9 DEF EnsureBun
<1>10. CASE FetchBun  BY <1>10 DEF FetchBun
<1>11. CASE CopyBun  BY <1>11 DEF CopyBun, BunInstalled
<1>12. CASE ScriptBun  BY <1>12 DEF ScriptBun, BunInstalled
<1>13. CASE EnsurePnpm  BY <1>13 DEF EnsurePnpm
<1>14. CASE InstallPnpm  BY <1>14 DEF InstallPnpm
<1> QED
  BY <1>1, <1>2, <1>3, <1>4, <1>5, <1>6, <1>7, <1>8, <1>9, <1>10, <1>11, <1>12,
     <1>13, <1>14 DEF Tools

\* Nor any step of the pipeline.
LEMMA NextTool == TypeOK /\ NubInv /\ [Next]_vars => NubInv'
<1> SUFFICES ASSUME TypeOK, NubInv, [Next]_vars PROVE NubInv'
  OBVIOUS
<1>1. CASE Tools
  BY <1>1, NubKept DEF TypeOK
<1>2. CASE ToolsOff \/ ToolsKilled
  BY <1>2 DEF ToolsOff, ToolsKilled, NubInv, NubIsNative, NoTools, BeforeNub, cacheOfTools
<1>3. CASE UNCHANGED toolVars
  BY <1>3 DEF toolVars, NubInv, NubIsNative
<1> QED BY <1>1, <1>2, <1>3, ToolStep

\* The nub of the cache that is put on the PATH is the native binary, whatever kills
\* came before.
THEOREM NubNative == Spec => []NubIsNative
<1>1. NubInv => NubIsNative
  BY DEF NubInv
<1> QED BY <1>1, PipelineTyped, InitTool, NextTool, PTL DEF Spec

(***************************************************************************)
(* The dsh that a launch runs.                                             *)
(***************************************************************************)

\* What the configuration and the query allow the launch to have chosen.
Choice ==
  /\ program \in {"none", "global"}
  /\ config.mode = "private" => program = "none"
  /\ at \in {"decide", "install", "installing", "forget"} => program = "none"
  /\ at \notin {"idle", "query"} =>
       IF WantsLatest THEN target \in Maybe /\ (~config.auto => target = NoVersion)
                      ELSE target = config.version
  /\ at \in {"verify", "spawn"} /\ program = "global" =>
       config.mode = "global" \/ GlobalServes(probed)

\* What it read of the user's dsh, if it was read in time, is still so, as long as the
\* user leaves it alone.
Fresh ==
  ~touched /\ at \in {"verify", "spawn"} /\ program = "global" =>
    /\ probed \in {Probe("global"), NoVersion}
    /\ at = "spawn" => global.ok

\* What an install is to put in the place of what was there.
Wanted ==
  at \in {"install", "installing"} =>
    /\ target \in Versions => goal = target
    /\ WantsLatest /\ had.entry /\ had.version # NoVersion => ~Less(goal, had.version)

\* The copy in the cache will do.
Serves ==
  /\ cache.entry
  /\ target \in Versions /\ cache.version # target =>
       WantsLatest /\ ~Less(cache.version, target)

\* After the install, unless it left nothing, and where none was needed.
Served ==
  ~touched /\ ~hollow /\ (at = "forget" \/ (at = "spawn" /\ program = "none")) => Serves

\* An install that left nothing is the last of its launch.
Hollow ==
  ~touched /\ hollow =>
    /\ at \notin {"query", "choose", "verify", "decide", "install", "installing"}
    /\ at \in {"forget", "spawn"} => program = "none" /\ ~cache.entry

CacheInv == Choice /\ Fresh /\ Wanted /\ Served /\ Hollow /\ Honoured

\* So is the launch, which has chosen nothing.
LEMMA InitCache == Init => CacheInv
  BY DEF Init, CacheInit, CacheInv, Choice, Fresh, Wanted, Served, Hollow, Honoured

\* No published version is older than itself, and none is a tag.
LEMMA NotOlder == \A v \in Versions : ~Less(v, v) /\ v # NoVersion /\ v # DistTag
  BY VersionsAssumption, DistTagAssumption, LessAsym DEF Maybe

\* An install that Decide begins over a copy that can run replaces it by no older
\* version.
LEMMA DecideWants ==
  ASSUME CacheTypeOK, Choice, NeedsInstall(cache), at = "decide", NEW g \in InstallSpec(cache)
  PROVE  /\ target \in Versions => g = target
         /\ WantsLatest /\ cache.entry /\ cache.version # NoVersion => ~Less(g, cache.version)
<1>1. target \in Versions => g = target
  BY NotOlder DEF InstallSpec
<1>2. ASSUME WantsLatest, cache.version # NoVersion, cache.entry
      PROVE  ~Less(g, cache.version)
  <2>1. Less(cache.version, target) /\ target # NoVersion
    BY <1>2 DEF NeedsInstall
  <2>2. target # DistTag
    <3>1. target \in Maybe
      BY <1>2 DEF Choice
    <3> QED BY <3>1, DistTagAssumption
  <2>3. target \in Versions
    BY <2>1, <2>2 DEF CacheTypeOK, Maybe
  <2>4. cache.version \in FullVersions /\ target \in FullVersions
    BY <1>2, <2>3, VersionsAssumption DEF CacheTypeOK, Maybe
  <2> QED BY <1>1, <2>1, <2>3, <2>4, LessAsym
<1> QED BY <1>1, <1>2

\* What SpawnDsh runs is what the configuration asks for.
LEMMA SpawnHonours ==
  ASSUME CacheTypeOK, Choice, Fresh, Served, Hollow, SpawnDsh
  PROVE  Honoured'
<1> SUFFICES ASSUME at' = "running", ~touched
             PROVE  /\ running'.from = "cache" => program = "none"
                    /\ config.mode = "private" => running'.from = "cache"
                    /\ running'.from = "global" => probed \in {running'.version, NoVersion}
                    /\ ~WantsLatest /\ Readable /\ config.mode # "global" =>
                         running'.version = config.version
                    /\ target \in Versions
                         /\ (config.mode # "global" \/ running'.from = "cache")
                         => ~Less(running'.version, target)
  BY DEF SpawnDsh, Honoured, ghostVars, diskVars, WantsLatest, Readable
<1>1. at = "spawn" /\ config.version \in Maybe \cup {DistTag}
  BY ConfigsAssumption DEF SpawnDsh, At, CacheTypeOK
<1>2. ~WantsLatest /\ Readable => target = config.version /\ target \in Versions
  BY <1>1 DEF Choice, WantsLatest, Readable, Maybe
<1>3. CASE program = "none"
  <2>1. running' = [from |-> "cache", version |-> cache.version] /\ cache.entry
    BY <1>3 DEF SpawnDsh, Go
  <2>2. Serves
    BY <1>1, <1>3, <2>1 DEF Served, Hollow
  <2> QED BY <1>2, <1>3, <2>1, <2>2, NotOlder DEF Serves
<1>4. CASE program = "global"
  <2>1. running' = [from |-> "global", version |-> global.version]
    BY <1>4 DEF SpawnDsh, Go
  <2>2. probed \in {global.version, NoVersion}
    BY <1>1, <1>4 DEF Fresh, Probe
  <2>3. config.mode # "private"
    BY <1>4 DEF Choice
  <2>4. config.mode # "global" => GlobalServes(probed)
    BY <1>1, <1>4 DEF Choice
  <2>5. ~WantsLatest /\ Readable /\ config.mode # "global" =>
          probed = config.version /\ probed # NoVersion
    BY <2>4 DEF GlobalServes
  <2>6. WantsLatest /\ config.mode # "global" /\ target \in Versions =>
          probed # NoVersion /\ ~Less(probed, target)
    BY <1>1, <2>4, NotOlder DEF GlobalServes, Choice
  <2>7. ~WantsLatest /\ ~Readable => target \notin Versions
    BY <1>1, NotOlder DEF Choice, Readable
  <2> QED BY <1>2, <1>4, <2>1, <2>2, <2>3, <2>5, <2>6, <2>7, NotOlder
<1> QED BY <1>3, <1>4 DEF Choice

\* No step of a launch breaks the invariant.
LEMMA LaunchKept == CacheTypeOK /\ CacheInv /\ (Launch \/ Begin) => CacheInv'
<1> SUFFICES ASSUME CacheTypeOK, CacheInv, Launch \/ Begin PROVE CacheInv'
  OBVIOUS
<1> USE DEF CacheInv, Choice, Fresh, Wanted, Served, Hollow, At, Go, diskVars,
            checkVars, ghostVars, Readable
<1>1. CASE Begin
  BY <1>1 DEF Begin, Honoured
<1>2. CASE Query
  BY <1>2 DEF Query, Targets, WantsLatest, Honoured, CacheTypeOK, Maybe
<1>3. CASE Choose
  <2>1. PICK p \in {"none", "global"}, read \in Maybe :
          /\ read \in {Probe(p), NoVersion}
          /\ probed' = read
          /\ program' = IF config.mode # "private" /\ p # "none"
                          /\ (config.mode = "global" \/ GlobalServes(read))
                        THEN p ELSE "none"
    <3>1. \A p : Probe(p) \in Maybe /\ NoVersion \in Maybe
      BY DEF Probe, CacheTypeOK, Maybe
    <3> QED BY <1>3, <3>1 DEF Choose, PickGlobal
  <2>2. at = "choose" /\ at' \in {"verify", "failed"}
    BY <1>3 DEF Choose
  <2>3. UNCHANGED <<registry, global, cache, config, target, had, goal, running,
                    ctx, status, recent, check, moves, touched, hollow>>
    BY <1>3 DEF Choose
  <2>4. WantsLatest' = WantsLatest /\ \A q, v : /\ Probe(q)' = Probe(q)
                                              /\ GlobalServes(v)' = GlobalServes(v)
    BY <2>3 DEF WantsLatest, Probe, GlobalServes
  <2>5. Choice'
    BY <2>1, <2>2, <2>3, <2>4
  <2>6. Fresh' /\ Wanted' /\ Served' /\ Hollow' /\ Honoured'
    BY <2>1, <2>2, <2>3, <2>4 DEF Honoured
  <2> QED BY <2>5, <2>6
<1>4. CASE Verify
  BY <1>4 DEF Verify, Runs, Probe, WantsLatest, GlobalServes, Honoured
<1>5. CASE Decide
  <2>1. UNCHANGED <<registry, global, cache, config, target, program, probed, running,
                    ctx, status, recent, check, moves, touched, hollow>>
    BY <1>5 DEF Decide
  <2>2. at = "decide" /\ program = "none" /\ at' \in {"install", "spawn"}
    BY <1>5 DEF Decide
  <2>3. WantsLatest' = WantsLatest
    BY <2>1 DEF WantsLatest
  <2>4. Choice' /\ Fresh' /\ Hollow' /\ Honoured'
    BY <2>1, <2>2, <2>3 DEF Honoured
  <2>5. Wanted'
    BY <1>5, <2>1, <2>2, <2>3, DecideWants DEF Decide
  <2>6. Served'
    BY <1>5, <2>1, <2>2, <2>3, NotOlder DEF Decide, NeedsInstall, Serves
  <2> QED BY <2>4, <2>5, <2>6
<1>6. CASE InstallStarts
  BY <1>6 DEF InstallStarts, WantsLatest, Honoured
<1>7. CASE InstallEnds
  <2>1. at = "installing" /\ UNCHANGED <<registry, global, config, target, program, probed,
                                         had, goal, running, checkVars, moves, touched>>
    BY <1>7 DEF InstallEnds
  <2>2. \/ at' = "failed" /\ hollow' = hollow
        \/ at' = "forget" /\ cache'.version = goal /\ (cache'.entry <=> ~hollow')
    <3>1. CASE at' = "forget"
      <4>1. PICK there \in BOOLEAN :
              cache' = [version |-> goal, entry |-> there] /\ hollow' = ~there
        BY <1>7, <3>1 DEF InstallEnds
      <4>2. CASE there
        BY <3>1, <4>1, <4>2
      <4>3. CASE ~there
        BY <3>1, <4>1, <4>3
      <4> QED BY <4>2, <4>3
    <3>2. CASE at' # "forget"
      BY <1>7, <3>2 DEF InstallEnds
    <3> QED BY <3>1, <3>2
  <2>3. WantsLatest' = WantsLatest
    BY <2>1 DEF WantsLatest
  <2>4. Choice' /\ Fresh' /\ Wanted' /\ Hollow' /\ Honoured'
    BY <2>1, <2>2, <2>3 DEF Honoured
  <2>5. Served'
    BY <2>1, <2>2, <2>3 DEF Serves
  <2> QED BY <2>4, <2>5
<1>8. CASE Forget
  BY <1>8 DEF Forget, Invalidate, NoStatus, WantsLatest, Serves, Honoured
<1>9. CASE SpawnDsh
  <2>1. at = "spawn" /\ at' \in {"running", "failed"}
    BY <1>9 DEF SpawnDsh
  <2>2. UNCHANGED <<registry, global, cache, config, target, program, probed, had, goal,
                    ctx, status, recent, check, moves, touched, hollow>>
    BY <1>9 DEF SpawnDsh
  <2>3. Choice' /\ Fresh' /\ Wanted' /\ Served' /\ Hollow'
    BY <2>1, <2>2 DEF WantsLatest
  <2> QED BY <1>9, <2>3, SpawnHonours
<1>10. CASE DshEnds
  BY <1>10 DEF DshEnds, Honoured
<1> QED
  BY <1>1, <1>2, <1>3, <1>4, <1>5, <1>6, <1>7, <1>8, <1>9, <1>10 DEF Launch

\* The invariant speaks of nothing that a check or the registry changes; what
\* the user changes during a launch it excuses.
LEMMA AroundKept == CacheTypeOK /\ CacheInv /\ (Around \/ Checking \/ Killed) => CacheInv'
<1> SUFFICES ASSUME CacheTypeOK, CacheInv, Around \/ Checking \/ Killed PROVE CacheInv'
  OBVIOUS
<1> USE DEF CacheInv, Readable, launchVars, diskVars, checkVars, ghostVars
<1>1. ASSUME UNCHANGED <<launchVars, cache, global, touched, hollow>>
      PROVE  Choice' /\ Fresh' /\ Wanted' /\ Served' /\ Hollow' /\ Honoured'
  <2>1. WantsLatest' = WantsLatest /\ \A q, v : /\ Probe(q)' = Probe(q)
                                              /\ GlobalServes(v)' = GlobalServes(v)
    BY <1>1 DEF WantsLatest, Probe, GlobalServes
  <2> QED BY <1>1, <2>1 DEF Choice, Fresh, Wanted, Served, Serves, Hollow, Honoured
<1>2. ASSUME UNCHANGED <<launchVars, hollow>>, touched' = (touched \/ at # "idle")
      PROVE  Choice' /\ Fresh' /\ Wanted' /\ Served' /\ Hollow' /\ Honoured'
  <2>1. WantsLatest' = WantsLatest /\ \A v : GlobalServes(v)' = GlobalServes(v)
    BY <1>2 DEF WantsLatest, GlobalServes
  <2>2. Choice' /\ Wanted'
    BY <1>2, <2>1 DEF Choice, Wanted
  <2>3. CASE at = "idle"
    BY <1>2, <2>2, <2>3 DEF Fresh, Served, Hollow, Honoured
  <2>4. CASE at # "idle"
    BY <1>2, <2>2, <2>4 DEF Fresh, Served, Hollow, Honoured
  <2> QED BY <2>3, <2>4
<1>4. CASE DistTagMoves  BY <1>1, <1>4 DEF DistTagMoves
<1>5. CASE UserChangesGlobal  BY <1>2, <1>5 DEF UserChangesGlobal
<1>6. CASE UserClearsCache  BY <1>2, <1>6 DEF UserClearsCache
<1>7. CASE Expire  BY <1>1, <1>7 DEF Expire
<1>8. ASSUME NEW t \in Checks, CheckQueries(t) \/ CheckReads(t) PROVE CacheInv'
  BY <1>1, <1>8 DEF CheckQueries, CheckReads
<1>9. ASSUME NEW t \in Checks, CheckStores(t) PROVE CacheInv'
  BY <1>1, <1>9 DEF CheckStores
<1>10. CASE Killed
  <2>1. /\ at' = "idle" /\ program' = "none"
        /\ UNCHANGED <<config, touched, hollow>>
    BY <1>10 DEF Killed
  <2> QED BY <2>1 DEF Choice, Fresh, Wanted, Served, Hollow, Honoured
<1> QED
  BY <1>4, <1>5, <1>6, <1>7, <1>8, <1>9, <1>10 DEF Around, Checking

\* No step of the pipeline does.
LEMMA NextCache == TypeOK /\ CacheInv /\ [Next]_vars => CacheInv'
<1> SUFFICES ASSUME TypeOK, CacheInv, [Next]_vars PROVE CacheInv'
  OBVIOUS
<1>1. CASE UNCHANGED cacheVars
  <2>1. WantsLatest' = WantsLatest /\ \A q, v : /\ Probe(q)' = Probe(q)
                                              /\ GlobalServes(v)' = GlobalServes(v)
    BY <1>1 DEF cacheVars, diskVars, launchVars, WantsLatest, Readable,
                      Probe, GlobalServes
  <2> QED
    BY <1>1, <2>1 DEF cacheVars, diskVars, launchVars, checkVars, ghostVars, CacheInv,
                      Choice, Fresh, Wanted, Served, Serves, Hollow, Honoured, Readable
<1> QED BY <1>1, CacheStep, LaunchKept, AroundKept DEF TypeOK

\* What is true of a launch in every state.
THEOREM CacheHolds == Spec => []CacheInv
  BY PipelineTyped, InitCache, NextCache, PTL DEF Spec

\* The dsh that runs is the one the configuration asks for: see Honoured.
THEOREM DshHonoured == Spec => []Honoured
<1>1. CacheInv => Honoured
  BY DEF CacheInv
<1> QED BY <1>1, CacheHolds, PTL

\* An install that was interrupted is repaired before the spawn: see EntryThere.
THEOREM EntryIsThere == Spec => []EntryThere
<1>1. CacheInv => EntryThere
  BY DEF CacheInv, Served, Serves, EntryThere
<1> QED BY <1>1, CacheHolds, PTL

\* Only InstallEnds goes from the install to the end of it, with the version wanted.
LEMMA EndsWithGoal ==
  ASSUME [Next]_vars, at = "installing", at' = "forget"
  PROVE  InstallEnds /\ cache'.version = goal
<1> USE DEF At, Go, launchVars, diskVars, cacheVars
<1>1. ~(Around \/ Checking \/ Killed \/ Begin)
  BY DEF Around, DistTagMoves, UserChangesGlobal, UserClearsCache, Expire, Checking,
         CheckQueries, CheckReads, CheckStores, Killed, Begin
<1>2. InstallEnds
  BY <1>1, CacheStep DEF Launch, Query, Choose, Verify, Decide, InstallStarts, Forget,
                         SpawnDsh, DshEnds
<1> QED BY <1>2 DEF InstallEnds

\* Unless the version is pinned, no install replaces a copy that can run by an older
\* one: see IntactKept.
THEOREM NoDowngrade == Spec => IntactKept
<1>1. CacheInv /\ [Next]_vars =>
        [Installed /\ WantsLatest /\ had.entry /\ had.version # NoVersion
           => ~Less(cache'.version, had.version)]_cacheVars
  BY EndsWithGoal DEF CacheInv, Wanted, Installed, At
<1> QED BY <1>1, CacheHolds, PTL DEF Spec, IntactKept

=============================================================================
