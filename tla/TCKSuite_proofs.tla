--------------------------- MODULE TCKSuite_proofs ---------------------------
(***************************************************************************)
(* Proofs about the TCK suite, for any kits, any arguments and any number  *)
(* of failing system calls.                                                *)
(***************************************************************************)
EXTENDS TCKSuite, KitArgs_proofs

-----------------------------------------------------------------------------
(* Registration.  mcp_merge runs a registration script twice and stops; a  *)
(* sandbox starts any number of times.  That two runs are enough is proved *)
(* here, for every deterministic script and every set of configs: what the *)
(* subtest compares makes the config a fixed point of the script.          *)

(* What has been seen of the script: before the second run, the config is  *)
(* the one the first run left; after it, the script takes that one to the  *)
(* present one; and once the two are equal, it leaves the config alone.    *)
Fixed(c) == c \in DOMAIN does /\ does[c] = c
FixedPoint ==
    /\ merge = "again" => first = config
    /\ merge = "compare" => first \in DOMAIN does /\ does[first] = config
    /\ merge = "passed" => Fixed(config) /\ config \in Siblings \cap Gateways

LEMMA RunIsRecorded ==
    ASSUME RunScript
    PROVE  /\ config \in DOMAIN does' /\ does'[config] = config'
           /\ config \in DOMAIN does => config' = does[config]
BY DEF RunScript

LEMMA FixedPointInit == InitMerge => FixedPoint
BY DEF InitMerge, FixedPoint

LEMMA FixedPointStep ==
    ASSUME FixedPoint, [Merge \/ Restart]_mcp
    PROVE  FixedPoint'
<1>1. CASE BeginMerge
  BY <1>1 DEF BeginMerge, FixedPoint
<1>2. CASE SeedConfig
  BY <1>2 DEF SeedConfig, FixedPoint
<1>3. CASE Register
  BY <1>3 DEF Register, FixedPoint
<1>4. CASE RegisterAgain
  <2>1. merge = "again" /\ merge' = "compare" /\ first' = first /\ RunScript
    BY <1>4 DEF RegisterAgain
  <2>2. first' = config
    BY <2>1 DEF FixedPoint
  <2>3. first' \in DOMAIN does' /\ does'[first'] = config'
    BY <2>1, <2>2, RunIsRecorded
  <2> QED
    BY <2>1, <2>3 DEF FixedPoint
<1>5. CASE Compare
  <2>1. merge = "compare" /\ UNCHANGED <<config, does, first>>
    BY <1>5 DEF Compare
  <2>2. merge' = "passed" => config = first /\ config \in Siblings \cap Gateways
    BY <1>5 DEF Compare
  <2>3. merge' \in {"passed", "failed"}
    BY <1>5 DEF Compare
  <2>4. merge' = "passed" => Fixed(config)
    BY <2>1, <2>2 DEF FixedPoint, Fixed
  <2> QED
    BY <2>1, <2>2, <2>3, <2>4 DEF FixedPoint, Fixed
<1>6. CASE GiveUp
  BY <1>6 DEF GiveUp, FixedPoint
<1>7. CASE Restart
  <2>1. merge = "passed" /\ merge' = "passed" /\ RunScript
    BY <1>7 DEF Restart
  <2>2. Fixed(config) /\ config \in Siblings \cap Gateways
    BY <2>1 DEF FixedPoint
  <2>3. config' = config /\ does'[config] = config' /\ config \in DOMAIN does'
    BY <2>1, <2>2, RunIsRecorded DEF Fixed
  <2> QED
    BY <2>1, <2>2, <2>3 DEF FixedPoint, Fixed
<1>8. CASE UNCHANGED mcp
  BY <1>8 DEF mcp, merging, FixedPoint, Fixed
<1> QED
  BY <1>1, <1>2, <1>3, <1>4, <1>5, <1>6, <1>7, <1>8 DEF Merge

(* A kit that passed mcp_merge keeps the user's server and the gateway on  *)
(* every later start, however many there are (tck/mcp.go: replaying the    *)
(* registration must converge on the same config).                         *)
THEOREM TwoRunsAreEnough == Registering => []SiblingsSurvive
<1>1. FixedPoint => SiblingsSurvive
  BY DEF FixedPoint, SiblingsSurvive
<1> QED
  BY <1>1, FixedPointInit, FixedPointStep, PTL DEF Registering

-----------------------------------------------------------------------------
(* The suite.                                                              *)

(* The suite follows the load and the pure tests; what they are asked of   *)
(* does not change.                                                        *)
AfterPure == {"start", "inject", "init", "install", "env", "files", "tmpfs", "merge",
              "cleanup", "ended"}
AfterStart == AfterPure \ {"start", "ended"}
Tried == failed \cap {"load", "run"} = {}
Told(i) == PureTests[i] \in failed <=> ~Holds(PureTests[i])

SuiteInv ==
    /\ suite \in {"load", "pure"} \cup AfterPure
    /\ suite = "load" => at = 1 /\ failed = {}
    /\ suite = "pure" =>
          /\ at \in 1 .. 7 /\ Tried
          /\ \A i \in 1 .. 7 : IF i < at THEN Told(i) ELSE PureTests[i] \notin failed
    /\ suite \in AfterPure /\ Tried => \A i \in 1 .. 7 : Told(i)
    /\ suite \in {"load", "pure", "start"} => box = "none"
    /\ suite \in AfterStart => box = "up" \/ (box = "none" /\ "container" \in failed)
    /\ suite = "ended" =>
          /\ Tried => box # "none" \/ "container" \in failed
          /\ box # "up" \/ "cleanup" \in failed

LEMMA Tests ==
    /\ DOMAIN PureTests = 1 .. 7 /\ Len(PureTests) = 7
    /\ PureTests[1] = "validation" /\ PureTests[2] = "network_policy"
    /\ PureTests[3] = "credential_policy" /\ PureTests[4] = "environment_policy"
    /\ PureTests[5] = "commands_validation" /\ PureTests[6] = "oauth_policy"
    /\ PureTests[7] = "mcp_registration"
BY DEF PureTests

LEMMA TestsDiffer ==
    /\ \A i, j \in 1 .. 7 : PureTests[i] = PureTests[j] => i = j
    /\ \A i \in 1 .. 7 : PureTests[i] \notin {"load", "run", "container", "install_execution",
           "environment_variables", "files", "tmpfs_mounts", "mcp_merge", "cleanup"}
<1>1. \A i \in 1 .. 7 : i \in {1, 2, 3, 4, 5, 6, 7}
  OBVIOUS
<1> QED BY <1>1, Tests

LEMMA FactsStay ==
    ASSUME [SuiteNext]_vars
    PROVE  UNCHANGED <<facts, script, want>>
BY DEF SuiteNext, vars, testing, mcp, Kept, LoadKit, NewSuite, RunPureTest, StartContainer,
       InjectFile, WriteInitFile, InstallExecution, AssertEnvVars, AssertFiles, AssertTmpfs,
       RunMerge, CleanupContainer, StartAgain, Merge, Restart

LEMMA HoldsStay ==
    ASSUME [SuiteNext]_vars, NEW test
    PROVE  Holds(test)' = Holds(test)
BY FactsStay DEF Holds, Registers, Present, Assigned

LEMMA SuiteInvInit == SuiteInit => SuiteInv
BY DEF SuiteInit, SuiteInv, AfterPure, AfterStart

LEMMA SuiteInvStep ==
    ASSUME SuiteInv, [SuiteNext]_vars
    PROVE  SuiteInv'
<1> USE DEF SuiteInv, AfterPure, AfterStart, Tried, Told, Goto, Fails
<1>1. \A i \in 1 .. 7 : Holds(PureTests[i])' = Holds(PureTests[i])
  BY HoldsStay
<1>2. CASE UNCHANGED testing
  BY <1>1, <1>2 DEF testing
<1>3. CASE NewSuite
  BY <1>1, <1>3 DEF NewSuite
<1>4. CASE RunPureTest
  BY <1>1, <1>4, Tests, TestsDiffer DEF RunPureTest
<1>5. CASE StartContainer
  BY <1>1, <1>5, TestsDiffer DEF StartContainer
<1>6. CASE InjectFile
  BY <1>1, <1>6, TestsDiffer DEF InjectFile
<1>7. CASE WriteInitFile
  BY <1>1, <1>7, TestsDiffer DEF WriteInitFile
<1>8. CASE InstallExecution
  BY <1>1, <1>8, TestsDiffer DEF InstallExecution
<1>9. CASE AssertEnvVars \/ AssertFiles \/ AssertTmpfs
  BY <1>1, <1>9, TestsDiffer DEF AssertEnvVars, AssertFiles, AssertTmpfs
<1>10. CASE RunMerge
  BY <1>1, <1>10, TestsDiffer DEF RunMerge
<1>11. CASE CleanupContainer
  BY <1>1, <1>11, TestsDiffer DEF CleanupContainer
<1> QED
  BY <1>2, <1>3, <1>4, <1>5, <1>6, <1>7, <1>8, <1>9, <1>10, <1>11
  DEF SuiteNext, vars, LoadKit, StartAgain

(* SuiteInv is an invariant.                                               *)
LEMMA SuiteFacts == Testing => []SuiteInv
BY SuiteInvInit, SuiteInvStep, PTL DEF Testing

(* A kit that fails one of the tests without a container is told of the    *)
(* others, and the container is tried (RunAll's subtests, tck/suite.go).   *)
THEOREM FailuresStaySeparate == Testing => []FailuresAreSeparate
<1>1. SuiteInv => FailuresAreSeparate
  BY Tests DEF SuiteInv, AfterPure, Tried, Told, FailuresAreSeparate
<1> QED
  BY <1>1, SuiteFacts, PTL

(* A registration that passes has no key that tck.yaml forbids, whichever  *)
(* the syntax of its config file (assertMCPRegistration and validate,      *)
(* tck/mcp.go): the last pure test held, and the format it went by is that *)
(* of the file.                                                            *)
THEOREM ForbiddenStayChecked == Testing => []ForbiddenAreChecked
<1>1. ASSUME SuiteInv
      PROVE  ForbiddenAreChecked
  <2> SUFFICES ASSUME suite = "ended", failed = {}, script # Absent, want # Absent,
                      want.path # Absent, Extension[want.path] \in {script.syntax} \ {Absent}
               PROVE  script.keys \cap want.forbidden = {}
    BY DEF ForbiddenAreChecked
  <2>1. Holds("mcp_registration")
    BY <1>1, Tests DEF SuiteInv, AfterPure, Tried, Told
  <2>2. Registers
    BY <2>1, Zenon DEF Holds
  <2>3. \A key \in want.forbidden : ~Present(key, format(want))
    BY <2>2 DEF Registers
  <2>4. format(want) = script.syntax
    BY <2>2 DEF Registers, validate
  <2> QED
    BY <2>3, <2>4 DEF Present
<1> QED
  BY <1>1, SuiteFacts, PTL
-----------------------------------------------------------------------------
(* A tree has files only in directories; what was staged of the kit's      *)
(* directories is a directory, so that it can be widened and emptied.      *)
Shaped(tree) ==
    /\ DOMAIN tree = Paths
    /\ ~IsKind(tree, Spec, "dir")
    /\ \A p \in Paths :
          /\ IsKind(tree, p, "dir") => tree[p] \in Dirs
          /\ IsKind(tree, p, "file") => "kind" \in DOMAIN tree[p]
          /\ tree[p] # None => \A d \in Ancestors[p] : IsKind(tree, d, "dir")

(* The directories among the first n entries of Order are staged.          *)
DirsStaged(n) ==
    \A i \in 1 .. n : IsKind(kit, Order[i], "dir") => IsKind(staging, Order[i], "dir")

StagingInv ==
    /\ Shaped(kit) /\ Shaped(staging)
    /\ \A p \in Paths : staging[p] # None => p = Spec \/ kit[p] # None
    /\ from \in {"kit", "staging"}
    /\ from = "kit" => staging = Empty
    /\ pc = "done" => staging = Empty
    /\ pc \in {"rename", "expand"} => from = "kit" /\ next = 1
    /\ pc \in {"copy", "write", "chmod", "narrow"} => from = "staging"
    /\ pc \in {"copy", "write"} => next \in 1 .. Len(Order) /\ DirsStaged(next - 1)
    /\ pc \in {"chmod", "narrow"} => next \in 0 .. Len(Order) /\ DirsStaged(Len(Order))

LEMMA Walked ==
    /\ Spec \in Paths /\ Len(Order) \in Nat \ {0} /\ DOMAIN Order = 1 .. Len(Order)
    /\ \A i \in 1 .. Len(Order) : Order[i] \in Paths
    /\ \A p \in Paths : Ancestors[p] \subseteq Paths
    /\ \A i \in 1 .. Len(Order) : \A d \in Ancestors[Order[i]] : \E j \in 1 .. i - 1 : Order[j] = d
    /\ Ancestors[Spec] = {} /\ \A p \in Paths : Spec \notin Ancestors[p]
<1>1. Spec \in Paths /\ Order \in Seq(Paths) /\ Paths = {Order[i] : i \in DOMAIN Order}
  BY StagedKitAssumption
<1>2. Len(Order) \in Nat /\ DOMAIN Order = 1 .. Len(Order)
  BY <1>1
<1>3. Len(Order) # 0
  BY <1>1, <1>2
<1> QED
  BY <1>1, <1>2, <1>3, StagedKitAssumption

LEMMA DirsAreNodes == None \notin Dirs
BY Walked, NoneIsNothing DEF Nodes

LEMMA EmptyShaped == Shaped(Empty)
BY Walked DEF Shaped, Empty, IsKind

LEMMA StagingInvInit == SuiteInit => StagingInv
<1> SUFFICES ASSUME SuiteInit PROVE StagingInv
  OBVIOUS
<1>1. /\ call \in Calls /\ kit = call.tree /\ staging = Empty
      /\ pc \in {"rename", "expand"} /\ next = 1 /\ from = "kit"
  BY DEF SuiteInit, Init
<1>2. /\ IsTree(kit) /\ ~IsKind(kit, Spec, "dir")
      /\ \A p \in Paths : kit[p] # None => \A d \in Ancestors[p] : IsKind(kit, d, "dir")
  BY <1>1, KitsHaveSpecs DEF Real, IsKind
<1>3. \A p \in Paths : kit[p] = None \/ kit[p] \in Nodes(p)
  BY <1>2 DEF IsTree
<1>4. \A p \in Paths : IsKind(kit, p, "dir") => kit[p] \in Dirs
  BY <1>3 DEF IsKind, Nodes
<1>5. \A p \in Paths : IsKind(kit, p, "file") => "kind" \in DOMAIN kit[p]
  BY <1>3 DEF IsKind, Nodes, Dirs
<1>6. Shaped(kit)
  BY <1>2, <1>4, <1>5 DEF Shaped, IsTree
<1> QED
  BY <1>1, <1>6, EmptyShaped DEF StagingInv, Empty

(* What a path is recreated as.                                            *)
LEMMA StagedShape ==
    ASSUME Shaped(kit), NEW p \in Paths
    PROVE  /\ IsKind(kit, p, "dir") =>
                 Staged(p) \in Dirs /\ Staged(p) # None /\ Staged(p).kind = "dir"
           /\ Staged(p) # None /\ Staged(p).kind = "dir" => p # Spec /\ IsKind(kit, p, "dir")
           /\ Staged(p) # None /\ Staged(p).kind = "file" => "kind" \in DOMAIN Staged(p)
           /\ Staged(p) # None => p = Spec \/ kit[p] # None
<1>1. CASE p = Spec
  BY <1>1 DEF Staged, StagedSpec, Shaped
<1>2. CASE p # Spec /\ IsKind(kit, p, "dir")
  <2>1. kit[p] \in Dirs /\ Staged(p) = [kit[p] EXCEPT !.mode = "rw"]
    BY <1>2 DEF Shaped, Staged
  <2>2. Staged(p) \in Dirs /\ Staged(p).kind = "dir"
    BY <2>1 DEF Dirs, Modes
  <2> QED
    BY <1>2, <2>2, DirsAreNodes DEF IsKind
<1>3. CASE p # Spec /\ ~IsKind(kit, p, "dir") /\ p \in Expandable
  <2>1. Staged(p) = [kit[p] EXCEPT !.text = FileContent(p)] /\ IsKind(kit, p, "file")
    BY <1>3 DEF Staged, Expandable
  <2>2. "kind" \in DOMAIN kit[p] /\ kit[p].kind = "file" /\ kit[p] # None
    BY <2>1 DEF Shaped, IsKind
  <2>3. Staged(p).kind = "file" /\ "kind" \in DOMAIN Staged(p)
    BY <2>1, <2>2
  <2> QED
    BY <1>3, <2>2, <2>3
<1>4. CASE p # Spec /\ ~IsKind(kit, p, "dir") /\ p \notin Expandable
  <2>1. Staged(p) \in {None, kit[p]}
    BY <1>4 DEF Staged
  <2> QED
    BY <1>4, <2>1 DEF Shaped, IsKind
<1> QED
  BY <1>1, <1>2, <1>3, <1>4

LEMMA WriteStep ==
    ASSUME StagingInv, WriteEntry
    PROVE  StagingInv'
<1> DEFINE p == Order[next]
<1>1. /\ pc \in {"copy", "write"} /\ from = "staging" /\ kit' = kit /\ from' = from
      /\ next \in 1 .. Len(Order) /\ p \in Paths /\ DirsStaged(next - 1)
  BY Walked DEF StagingInv, WriteEntry
<1>2. CASE UNCHANGED <<staging, next>> /\ pc' = "remove"
  BY <1>1, <1>2 DEF StagingInv, Shaped, IsKind
<1>3. CASE /\ staging' = [staging EXCEPT ![p] = Staged(p)]
           /\ next' = IF next = Len(Order) THEN next ELSE next + 1
           /\ pc' = IF next = Len(Order) THEN IF pc = "copy" THEN "chmod" ELSE "narrow" ELSE pc
  <2>1. /\ DOMAIN staging = Paths /\ DOMAIN staging' = Paths
        /\ staging'[p] = Staged(p)
        /\ \A q \in Paths \ {p} : staging'[q] = staging[q]
    BY <1>1, <1>3 DEF StagingInv, Shaped
  <2>2. Shaped(kit)
    BY DEF StagingInv
  <2>3. \A q \in Paths : staging'[q] # None => q = Spec \/ kit[q] # None
    BY <1>1, <2>1, <2>2, StagedShape DEF StagingInv
  <2>4. \A q \in Paths : IsKind(kit, q, "dir") /\ IsKind(staging, q, "dir") =>
                            IsKind(staging', q, "dir")
    BY <1>1, <2>1, <2>2, StagedShape DEF IsKind
  <2>5. IsKind(kit, p, "dir") => IsKind(staging', p, "dir")
    BY <1>1, <2>1, <2>2, StagedShape DEF IsKind
  <2>6. \A i \in 1 .. next : IsKind(kit, Order[i], "dir") => IsKind(staging', Order[i], "dir")
    <3> TAKE i \in 1 .. next
    <3>1. CASE i = next
      BY <2>5, <3>1
    <3>2. CASE i # next
      <4>1. i \in 1 .. next - 1 /\ Order[i] \in Paths
        BY <1>1, <3>2, Walked
      <4> QED
        BY <1>1, <2>4, <4>1 DEF DirsStaged
    <3> QED
      BY <3>1, <3>2
  <2>7. \A q \in Paths : IsKind(staging', q, "dir") => staging'[q] \in Dirs
    BY <1>1, <2>1, <2>2, StagedShape DEF IsKind, StagingInv, Shaped
  <2>8. \A q \in Paths : IsKind(staging', q, "file") => "kind" \in DOMAIN staging'[q]
    BY <1>1, <2>1, <2>2, StagedShape DEF IsKind, StagingInv, Shaped
  <2>9. ~IsKind(staging', Spec, "dir")
    BY <1>1, <2>1, <2>2, StagedShape, Walked DEF IsKind, StagingInv, Shaped
  <2>10. ASSUME NEW q \in Paths, staging'[q] # None, NEW d \in Ancestors[q]
         PROVE  IsKind(staging', d, "dir")
    <3>1. d \in Paths /\ q # Spec
      BY Walked
    <3>2. kit[q] # None
      BY <2>3, <2>10, <3>1
    <3>3. IsKind(kit, d, "dir")
      BY <2>2, <3>2 DEF Shaped
    <3>4. CASE q = p
      <4>1. PICK j \in 1 .. next - 1 : Order[j] = d
        BY <1>1, <3>4, Walked
      <4> QED
        BY <1>1, <2>6, <3>3, <4>1
    <3>5. CASE q # p
      <4>1. IsKind(staging, d, "dir")
        BY <2>1, <2>10, <3>5 DEF StagingInv, Shaped
      <4> QED
        BY <2>4, <3>1, <3>3, <4>1
    <3> QED
      BY <3>4, <3>5
  <2>11. Shaped(staging')
    BY <2>1, <2>7, <2>8, <2>9, <2>10 DEF Shaped
  <2>12. Shaped(kit')
    BY <1>1, <2>2
  <2>13. pc' \in {"copy", "write"} => next' \in 1 .. Len(Order) /\ DirsStaged(next - 1)'
    <3> SUFFICES ASSUME pc' \in {"copy", "write"}
                 PROVE  next' \in 1 .. Len(Order) /\ DirsStaged(next - 1)'
      OBVIOUS
    <3>1. next # Len(Order) /\ next' = next + 1
      BY <1>1, <1>3
    <3> QED
      BY <1>1, <2>6, <3>1, Walked DEF DirsStaged, IsKind
  <2>14. pc' \in {"chmod", "narrow"} => next' \in 0 .. Len(Order) /\ DirsStaged(Len(Order))'
    <3> SUFFICES ASSUME pc' \in {"chmod", "narrow"}
                 PROVE  next' \in 0 .. Len(Order) /\ DirsStaged(Len(Order))'
      OBVIOUS
    <3>1. next = Len(Order) /\ next' = next
      BY <1>1, <1>3
    <3> QED
      BY <1>1, <2>6, <3>1, Walked DEF DirsStaged, IsKind
  <2>15. pc' \in {"copy", "write", "chmod", "narrow"}
    BY <1>1, <1>3
  <2> QED
    BY <1>1, <2>3, <2>11, <2>12, <2>13, <2>14, <2>15 DEF StagingInv
<1> QED
  BY <1>1, <1>2, <1>3 DEF WriteEntry, Return

LEMMA NarrowStep ==
    ASSUME StagingInv, NarrowEntry
    PROVE  StagingInv'
<1> DEFINE p == Order[next]
<1>1. /\ pc \in {"chmod", "narrow"} /\ from = "staging" /\ kit' = kit /\ from' = from
      /\ next \in 1 .. Len(Order) /\ p \in Paths /\ DirsStaged(Len(Order))
  <2>1. /\ pc \in {"chmod", "narrow"} /\ next > 0 /\ kit' = kit /\ from' = from
    BY DEF NarrowEntry
  <2>2. next \in 1 .. Len(Order) /\ from = "staging" /\ DirsStaged(Len(Order))
    BY <2>1, Walked DEF StagingInv
  <2> QED
    BY <2>1, <2>2, Walked
<1>2. CASE UNCHANGED <<staging, next>> /\ pc' = "remove"
  BY <1>1, <1>2 DEF StagingInv, Shaped, IsKind
<1>3. CASE /\ staging' = IF IsKind(kit, p, "dir")
                          THEN [staging EXCEPT ![p].mode = kit[p].mode] ELSE staging
           /\ next' = next - 1
           /\ pc' = IF next = 1 /\ pc = "narrow" THEN "load" ELSE pc
  <2>1. DOMAIN staging' = Paths /\ \A q \in Paths \ {p} : staging'[q] = staging[q]
    BY <1>1, <1>3 DEF StagingInv, Shaped
  <2>2. CASE IsKind(kit, p, "dir")
    <3>1. staging[p] \in Dirs /\ staging[p] # None /\ kit[p] \in Dirs /\ p # Spec
      BY <1>1, <2>2 DEF DirsStaged, StagingInv, Shaped, IsKind
    <3>2. staging'[p] = [staging[p] EXCEPT !.mode = kit[p].mode]
      BY <1>1, <1>3, <2>2 DEF StagingInv, Shaped
    <3>3. staging'[p] \in Dirs /\ staging'[p].kind = "dir"
      BY <3>1, <3>2 DEF Dirs
    <3>4. staging'[p] # None
      BY <3>3, DirsAreNodes
    <3>5. \A q \in Paths :
             /\ staging'[q] # None <=> staging[q] # None
             /\ IsKind(staging', q, "dir") <=> IsKind(staging, q, "dir")
             /\ IsKind(staging', q, "dir") => staging'[q] \in Dirs
             /\ IsKind(staging', q, "file") => "kind" \in DOMAIN staging'[q]
      <4> TAKE q \in Paths
      <4>1. CASE q = p
        BY <2>2, <3>1, <3>3, <3>4, <4>1, <1>1 DEF IsKind, DirsStaged, Dirs
      <4>2. CASE q # p
        BY <2>1, <4>2 DEF IsKind, StagingInv, Shaped
      <4> QED
        BY <4>1, <4>2
    <3>6. ASSUME NEW q \in Paths, staging'[q] # None, NEW d \in Ancestors[q]
          PROVE  IsKind(staging', d, "dir")
      <4>1. d \in Paths /\ IsKind(staging, d, "dir")
        BY <3>5, <3>6, Walked DEF StagingInv, Shaped
      <4> QED
        BY <3>5, <4>1
    <3>7. ~IsKind(staging', Spec, "dir")
      BY <3>5, Walked DEF StagingInv, Shaped
    <3>8. Shaped(staging') /\ Shaped(kit')
      BY <1>1, <2>1, <3>5, <3>6, <3>7 DEF StagingInv, Shaped
    <3>9. \A i \in 1 .. Len(Order) :
              IsKind(kit, Order[i], "dir") => IsKind(staging', Order[i], "dir")
      <4> TAKE i \in 1 .. Len(Order)
      <4>1. Order[i] \in Paths
        BY Walked
      <4> QED
        BY <1>1, <3>5, <4>1 DEF DirsStaged
    <3>10. DirsStaged(Len(Order))'
      BY <1>1, <3>9 DEF DirsStaged, IsKind
    <3>11. \A q \in Paths : staging'[q] # None => q = Spec \/ kit'[q] # None
      BY <1>1, <3>5 DEF StagingInv
    <3>12. next' \in 0 .. Len(Order) /\ pc' \in {"chmod", "narrow", "load"} /\ from' = "staging"
      BY <1>1, <1>3, Walked
    <3> QED
      BY <3>8, <3>10, <3>11, <3>12 DEF StagingInv
  <2>3. CASE ~IsKind(kit, p, "dir")
    <3>1. staging' = staging /\ next' \in 0 .. Len(Order)
      BY <1>1, <1>3, <2>3, Walked
    <3>2. DirsStaged(Len(Order))' /\ Shaped(kit') /\ Shaped(staging')
      BY <1>1, <3>1 DEF DirsStaged, StagingInv
    <3> QED
      BY <1>1, <1>3, <3>1, <3>2 DEF StagingInv
  <2> QED
    BY <2>2, <2>3
<1> QED
  BY <1>1, <1>2, <1>3 DEF NarrowEntry, Return

(* removeStaging: a tree of writable directories is removed to the last    *)
(* path.                                                                   *)
LEMMA WidenedIsRemoved ==
    ASSUME Shaped(staging)
    PROVE  RemoveAll(Widen(staging)) = Empty
<1> DEFINE W == Widen(staging)
<1>1. \A q \in Paths : W[q] = IF IsKind(staging, q, "dir")
                               THEN [staging[q] EXCEPT !.mode = "rw"] ELSE staging[q]
  BY DEF Widen
<1>2. ASSUME NEW q \in Paths, W[q] # None
      PROVE  MayWriteIn(W, q)
  <2>1. staging[q] # None
    BY <1>1, <1>2 DEF IsKind
  <2>2. ASSUME NEW d \in Ancestors[q]
        PROVE  W[d].mode = "rw"
    <3>1. d \in Paths /\ IsKind(staging, d, "dir") /\ staging[d] \in Dirs
      BY <2>1, Walked DEF Shaped
    <3>2. W[d] = [staging[d] EXCEPT !.mode = "rw"]
      BY <1>1, <3>1
    <3> QED
      BY <3>1, <3>2 DEF Dirs
  <2> QED
    BY <2>2 DEF MayWriteIn
<1>3. \A p \in Paths : ~Stuck(W, p)
  BY <1>2 DEF Stuck
<1> QED
  BY <1>3 DEF RemoveAll, Empty

LEMMA StagingInvStep ==
    ASSUME StagingInv, [SuiteNext]_vars
    PROVE  StagingInv'
<1>1. CASE UNCHANGED <<kit, staging, from, pc, next>>
  <2>1. Shaped(kit)' /\ Shaped(staging)' /\ (\A n \in Int : DirsStaged(n)' <=> DirsStaged(n))
    BY <1>1 DEF StagingInv, DirsStaged
  <2> QED
    BY <1>1, <2>1, Walked DEF StagingInv, DirsStaged
<1>2. CASE RenameSpec \/ ExpandKit
  <2>1. /\ pc \in {"rename", "expand"} /\ next = 1 /\ from = "kit" /\ staging = Empty
        /\ UNCHANGED <<kit, staging, next>>
        /\ \/ pc' = "done" /\ from' = from
           \/ pc' = "load" /\ from' = from
           \/ pc' \in {"copy", "write"} /\ from' = "staging"
    BY <1>2 DEF StagingInv, RenameSpec, ExpandKit, Return
  <2>2. DirsStaged(0)'
    BY DEF DirsStaged
  <2>3. next' - 1 = 0 /\ next' \in 1 .. Len(Order)
    BY <2>1, Walked
  <2>4. Shaped(kit') /\ Shaped(staging')
    BY <2>1 DEF StagingInv
  <2> QED
    BY <2>1, <2>2, <2>3, <2>4 DEF StagingInv
<1>3. CASE OpenCopy
  <2>1. /\ kit' = staging /\ staging' = Empty /\ pc' = "expand" /\ next' = 1 /\ from' = "kit"
    BY <1>3 DEF OpenCopy
  <2>2. Shaped(kit') /\ Shaped(staging')
    BY <2>1, EmptyShaped DEF StagingInv
  <2> QED
    BY <2>1, <2>2 DEF StagingInv, Empty
<1>4. CASE OpenFromDirectory \/ Materialize
  <2>1. /\ pc \in {"load", "materialize"} /\ UNCHANGED <<kit, staging, from, next>>
        /\ \/ pc' = "remove" /\ from = "staging"
           \/ pc' = "done" /\ from # "staging"
           \/ pc' \in {"load", "materialize"}
    BY <1>4 DEF OpenFromDirectory, Materialize, Return
  <2>2. Shaped(kit') /\ Shaped(staging')
    BY <2>1 DEF StagingInv
  <2> QED
    BY <2>1, <2>2 DEF StagingInv
<1>5. CASE RemoveStaging
  <2>1. staging' = Empty /\ pc' = "done" /\ UNCHANGED <<kit, from>>
    BY <1>5, WidenedIsRemoved DEF RemoveStaging, StagingInv
  <2>2. Shaped(kit') /\ Shaped(staging')
    BY <2>1, EmptyShaped DEF StagingInv
  <2> QED
    BY <2>1, <2>2 DEF StagingInv, Empty
<1>6. \/ WriteEntry \/ NarrowEntry \/ RenameSpec \/ ExpandKit \/ OpenCopy \/ OpenFromDirectory
      \/ Materialize \/ RemoveStaging \/ UNCHANGED <<kit, staging, from, pc, next>>
  BY DEF SuiteNext, LoadKit, Load, vars, loading, StillLoaded, NewSuite, RunPureTest,
         StartContainer, InjectFile, WriteInitFile, InstallExecution, AssertEnvVars,
         AssertFiles, AssertTmpfs, RunMerge, CleanupContainer, StartAgain
<1> QED
  BY <1>1, <1>2, <1>3, <1>4, <1>5, <1>6, WriteStep, NarrowStep

(* Wherever the load of a kit failed, whatever the modes of its            *)
(* directories: the staging tree is gone when openKitArtifact or           *)
(* copyKitRenamed returns; and the container of a run that is over is      *)
(* removed, or its removal was reported (startContainer, tck/suite.go).    *)
THEOREM NothingIsLeft == Testing => []NothingOutlives
<1>1. Testing => []StagingInv
  BY StagingInvInit, StagingInvStep, PTL DEF Testing
<1>2. StagingInv /\ SuiteInv => NothingOutlives
  BY DEF StagingInv, SuiteInv, NothingOutlives, StagingRemoved
<1> QED
  BY <1>1, <1>2, SuiteFacts, PTL

(* mcp_merge is run by the suite as MCPRegistration has it, and what was   *)
(* proved of that holds of a kit that went through the whole TCK: the      *)
(* server the user added survives every start (RunMCPMergeTests).          *)
THEOREM SuiteRegisters == Testing => Registering /\ []SiblingsSurvive
<1>1. SuiteInit => InitMerge
  BY DEF SuiteInit
<1>2. [SuiteNext]_vars => [Merge \/ Restart]_mcp
  BY DEF SuiteNext, vars, testing, Kept, LoadKit, NewSuite, RunPureTest, StartContainer,
         InjectFile, WriteInitFile, InstallExecution, AssertEnvVars, AssertFiles, AssertTmpfs,
         RunMerge, CleanupContainer, StartAgain
<1>3. Testing => Registering
  BY <1>1, <1>2, PTL DEF Testing, Registering
<1> QED
  BY <1>3, TwoRunsAreEnough, PTL

-----------------------------------------------------------------------------
(* The load.  LoadInv ties the trees a load writes to the author's: what   *)
(* the copy and the staging tree hold so far is what Copied and Expanded   *)
(* say of the entries of Order before next, and what is gathered from the  *)
(* tree loaded is what that tree has.                                      *)

(* What the copy has at a path, and what the staging tree has: Staged once *)
(* the directories have their own modes again.                             *)
Copied(p) ==
    IF p = Spec
    THEN [kind |-> "file", mode |-> call.tree[Real(call.tree, Spec)].mode,
          text |-> renamedSpec(Document(call.tree), NewName)]
    ELSE IF IsKind(call.tree, p, "other") THEN None ELSE call.tree[p]

Expanded(p) ==
    IF p = Spec
    THEN [kind |-> "file", mode |-> kit[Real(kit, Spec)].mode,
          text |-> expandSpecDocument(Document(kit), Values)]
    ELSE IF p \in Expandable THEN [kit[p] EXCEPT !.text = scanArgs(kit[p].text, Values).out]
    ELSE IF IsKind(kit, p, "other") THEN None ELSE kit[p]

Goal(p) == IF pc \in {"copy", "chmod"} THEN Copied(p) ELSE Expanded(p)

(* What a kit is: a tree of directories with a spec to read, in which no   *)
(* link leads to another.                                                  *)
IsKit(tree) ==
    /\ IsTree(tree)
    /\ Real(tree, Spec) \in Specs /\ IsKind(tree, Real(tree, Spec), "file")
    /\ \A p \in Paths : tree[p] # None => \A d \in Ancestors[p] : IsKind(tree, d, "dir")
    /\ \A p \in Paths : IsKind(tree, p, "link") /\ tree[p].to # None =>
          ~IsKind(tree, tree[p].to, "link")

(* The kit opened is the author's until copyKitRenamed has made its copy,  *)
(* and then that one.                                                      *)
Opened == pc \in {"expand", "write", "narrow", "load", "materialize"} \/ result = "artifact"
Origin ==
    /\ call \in Calls /\ IsKit(kit)
    /\ pc \in {"rename", "copy", "chmod"} => call.copied /\ kit = call.tree
    /\ pc \in {"copy", "chmod"} => Renamable(Document(kit))
    /\ Opened /\ ~call.copied => kit = call.tree
    /\ Opened /\ call.copied =>
          Renamable(Document(call.tree)) /\ \A p \in Paths : kit[p] = Copied(p)

(* What has been written is what is to be, and what has been narrowed has  *)
(* its own mode; a tree that is loaded has all of that.                    *)
Progress ==
    /\ staging = [p \in Paths |-> staging[p]]
    /\ pc \in {"copy", "write"} =>
          \A i \in 1 .. next - 1 : staging[Order[i]] = Staged(Order[i])
    /\ pc \in {"chmod", "narrow"} =>
          /\ \A p \in Paths : staging[p] = Staged(p) \/ staging[p] = Goal(p)
          /\ \A i \in next + 1 .. Len(Order) : staging[Order[i]] = Goal(Order[i])
    /\ pc \in {"load", "materialize"} /\ from = "staging" =>
          staging = [p \in Paths |-> Expanded(p)]
    /\ pc \in {"write", "narrow", "load", "materialize"} \/ result = "artifact" => Accepted
    /\ pc = "load" \/ result = "artifact" => (from = "kit" => ~Substitutes)

(* The tree the artifact was found in, which may be gone.                  *)
Tree == IF from = "kit" THEN kit ELSE [p \in Paths |-> Expanded(p)]

(* What was found in it: where each file is, and what it holds once every  *)
(* one has been read.                                                      *)
Found ==
    /\ read = Document(Tree)
    /\ DOMAIN files = Listed(Tree) /\ \A p \in Listed(Tree) : Resolves(Tree, p)
    /\ \A p \in DOMAIN files :
          /\ files[p].at = Real(Tree, p) /\ files[p].mode = FileAt(Tree, p).mode
          /\ result = "none" \/ from = "kit" => files[p].text = None
          /\ result # "none" /\ from = "staging" =>
                /\ IsKind(Tree, files[p].at, "file")
                /\ files[p].text = Tree[files[p].at].text
Gathered ==
    /\ result = "none" <=> pc \notin {"remove", "done"}
    /\ pc \notin {"materialize", "remove", "done"} => pending = {}
    /\ pc = "materialize" => from = "staging"
    /\ pc = "materialize" \/ result = "artifact" => Found
    /\ pc = "materialize" => \A p \in pending : IsKind(staging, files[p].at, "file")

LoadInv == TypeOK /\ Origin /\ Progress /\ Gathered

(* Of a sound kit nothing is refused.                                      *)
SoundLoads == Sound /\ faults = 0 => result # "error"
-----------------------------------------------------------------------------
(* What nodes and documents are made of.                                   *)
LEMMA NodeFields ==
    ASSUME NEW p \in Paths, NEW n \in Nodes(p)
    PROVE  /\ n # None
           /\ n.kind \in {"dir", "file", "link", "other"}
           /\ n.kind = "dir" => n \in Dirs /\ n.mode \in Modes
           /\ n.kind = "file" =>
                 /\ n.mode \in Modes /\ n.text \in (IF p \in Specs THEN Documents ELSE Text)
                 /\ n = [kind |-> "file", mode |-> n.mode, text |-> n.text]
           /\ n.kind = "link" => n.to \in Paths \cup {None}
<1>1. n # None
  BY NoneIsNothing
<1>2. CASE n \in Dirs
  BY <1>1, <1>2 DEF Dirs
<1>3. CASE n \in [kind : {"file"}, mode : Modes, text : IF p \in Specs THEN Documents ELSE Text]
  BY <1>1, <1>3
<1>4. CASE n \in [kind : {"link"}, to : Paths \cup {None}, abs : BOOLEAN]
  BY <1>1, <1>4
<1>5. CASE n = [kind |-> "other"]
  BY <1>1, <1>5
<1> QED
  BY <1>2, <1>3, <1>4, <1>5 DEF Nodes

LEMMA FileNode ==
    ASSUME NEW p \in Paths, NEW m \in Modes, NEW text \in IF p \in Specs THEN Documents ELSE Text
    PROVE  [kind |-> "file", mode |-> m, text |-> text] \in Nodes(p)
BY DEF Nodes

LEMMA KitNodes ==
    ASSUME NEW tree, IsTree(tree), NEW p \in Paths
    PROVE  /\ tree[p] # None => tree[p] \in Nodes(p)
           /\ \A kind : IsKind(tree, p, kind) => tree[p] \in Nodes(p) /\ tree[p].kind = kind
           /\ tree[p] # None => \E kind \in {"dir", "file", "link", "other"} : IsKind(tree, p, kind)
BY NodeFields DEF IsTree, IsKind

LEMMA SpecIsRead ==
    ASSUME NEW tree, IsKit(tree)
    PROVE  /\ Document(tree) \in Documents /\ tree[Real(tree, Spec)].mode \in Modes
           /\ Real(tree, Spec) \in Paths
<1>1. Real(tree, Spec) \in Specs /\ Real(tree, Spec) \in Paths
  BY StagedKitAssumption DEF IsKit
<1>2. tree[Real(tree, Spec)] \in Nodes(Real(tree, Spec)) /\ tree[Real(tree, Spec)].kind = "file"
  BY <1>1, KitNodes DEF IsKit
<1> QED
  BY <1>1, <1>2, NodeFields DEF Document

LEMMA EntryFields ==
    ASSUME NEW doc \in Documents
    PROVE  /\ Len(doc) \in Nat /\ DOMAIN doc = 1 .. Len(doc)
           /\ \A i \in DOMAIN doc :
                 /\ doc[i] \in [key : Text, value : Text, alias : BOOLEAN]
                 /\ doc[i].key \in Text /\ doc[i].value \in Text
<1> DEFINE Entries == [key : Text, value : Text, alias : BOOLEAN]
<1>1. doc \in Seq(Entries)
  BY DEF Documents
<1> HIDE DEF Entries
<1>2. Len(doc) \in Nat /\ DOMAIN doc = 1 .. Len(doc) /\ \A i \in DOMAIN doc : doc[i] \in Entries
  BY <1>1
<1>3. \A entry \in Entries : entry.key \in Text /\ entry.value \in Text
  BY DEF Entries
<1> QED
  BY <1>2, <1>3 DEF Entries

LEMMA DocumentIs ==
    ASSUME NEW n \in Nat, NEW doc, doc = [i \in 1 .. n |-> doc[i]],
           \A i \in 1 .. n : doc[i] \in [key : Text, value : Text, alias : BOOLEAN]
    PROVE  doc \in Documents
<1>1. doc \in [1 .. n -> [key : Text, value : Text, alias : BOOLEAN]]
  BY Zenon
<1> QED
  BY <1>1 DEF Documents

LEMMA NewValue ==
    ASSUME NEW entry \in [key : Text, value : Text, alias : BOOLEAN], NEW text \in Text,
           NEW changed, changed = [entry EXCEPT !.value = text]
    PROVE  /\ changed \in [key : Text, value : Text, alias : BOOLEAN]
           /\ changed.key = entry.key /\ changed.value = text
OBVIOUS

(* renamedSpec changes one value, to the new name.                         *)
LEMMA RenamedOnce ==
    ASSUME NEW doc \in Documents, Renamable(doc), NEW name
    PROVE  \E n \in DOMAIN doc : renamedSpec(doc, name) = [doc EXCEPT ![n].value = name]
<1> DEFINE I == {i \in 1 .. Len(doc) : doc[i].key = NameKey}
           first1 == SelectInSeq(doc, LAMBDA entry : entry.key = NameKey)
<1>1. first1 = IF I # {} THEN Min(I) ELSE 0
  BY Zenon DEF SelectInSeq
<1>2. first1 # 0
  BY DEF Renamable
<1>3. I # {} /\ first1 = Min(I)
  BY <1>1, <1>2
<1>4. I \in SUBSET Nat
  OBVIOUS
<1>5. \E m \in I : \A n \in I : m <= n
  BY <1>3, <1>4, Least
<1>6. Min(I) \in I
  BY <1>5 DEF Min
<1>7. first1 \in DOMAIN doc
  BY <1>3, <1>6, EntryFields
<1> QED
  BY <1>7, Zenon DEF renamedSpec

LEMMA RenamedDocument ==
    ASSUME NEW doc \in Documents, Renamable(doc)
    PROVE  /\ renamedSpec(doc, NewName) \in Documents
           /\ DOMAIN renamedSpec(doc, NewName) = DOMAIN doc
           /\ \A i \in DOMAIN doc :
                 /\ renamedSpec(doc, NewName)[i].key = doc[i].key
                 /\ renamedSpec(doc, NewName)[i].value \in {doc[i].value, NewName}
<1> DEFINE r == renamedSpec(doc, NewName)
           N == Len(doc)
           Entries == [key : Text, value : Text, alias : BOOLEAN]
<1>1. PICK n \in DOMAIN doc : r = [doc EXCEPT ![n].value = NewName]
  BY RenamedOnce
<1>2. N \in Nat /\ DOMAIN doc = 1 .. N /\ \A i \in 1 .. N : doc[i] \in Entries
  BY EntryFields
<1> HIDE DEF r, N, Entries
<1>3. r = [i \in 1 .. N |-> r[i]]
  BY <1>1, <1>2
<1>4. r[n] = [doc[n] EXCEPT !.value = NewName] /\ \A i \in 1 .. N : i # n => r[i] = doc[i]
  BY <1>1, <1>2
<1>5. r[n] \in Entries /\ r[n].key = doc[n].key /\ r[n].value = NewName
  BY <1>1, <1>2, <1>4, NewValue, KitsHaveSpecs DEF Entries
<1>6. \A i \in 1 .. N : r[i] \in Entries
  BY <1>2, <1>4, <1>5
<1>7. r \in Documents
  BY <1>2, <1>3, <1>6, DocumentIs DEF Entries
<1>8. DOMAIN r = 1 .. N
  BY <1>3
<1>9. \A i \in 1 .. N : r[i].key = doc[i].key /\ r[i].value \in {doc[i].value, NewName}
  BY <1>4, <1>5
<1> QED
  BY <1>2, <1>7, <1>8, <1>9 DEF r

LEMMA ExpandedEntry ==
    ASSUME NEW doc \in Documents, NEW values, NEW i \in DOMAIN doc
    PROVE  /\ DOMAIN expandSpecDocument(doc, values) = DOMAIN doc
           /\ doc[i].key = ArgsKey => expandSpecDocument(doc, values)[i] = doc[i]
           /\ doc[i].key # ArgsKey =>
                 expandSpecDocument(doc, values)[i]
                     = [doc[i] EXCEPT !.value = scanArgs(doc[i].value, values).out]
<1> DEFINE out(entry) == scanArgs(entry.value, values).out
<1>1. expandSpecDocument(doc, values) =
         [k \in DOMAIN doc |-> IF doc[k].key = ArgsKey THEN doc[k]
                                ELSE [doc[k] EXCEPT !.value = out(doc[k])]]
  BY Zenon DEF expandSpecDocument
<1> HIDE DEF out
<1>2. DOMAIN expandSpecDocument(doc, values) = DOMAIN doc
  BY <1>1
<1>3. expandSpecDocument(doc, values)[i] = IF doc[i].key = ArgsKey THEN doc[i]
                                ELSE [doc[i] EXCEPT !.value = out(doc[i])]
  BY <1>1, Zenon
<1> QED
  BY <1>2, <1>3, Zenon DEF out

LEMMA ExpandedDocument ==
    ASSUME NEW doc \in Documents, NEW values, Texts(values)
    PROVE  expandSpecDocument(doc, values) \in Documents
<1> DEFINE e == expandSpecDocument(doc, values)
           N == Len(doc)
           Entries == [key : Text, value : Text, alias : BOOLEAN]
<1>1. N \in Nat /\ DOMAIN doc = 1 .. N
      /\ \A i \in 1 .. N : doc[i] \in Entries /\ doc[i].value \in Text
  BY EntryFields
<1>2. e = [i \in DOMAIN doc |-> e[i]]
  BY DEF expandSpecDocument
<1>3. ASSUME NEW i \in 1 .. N
      PROVE  e[i] \in Entries
  <2> DEFINE text == scanArgs(doc[i].value, values).out
  <2>1. text \in Text
    BY <1>1, ScanTypes
  <2>2. e[i] = doc[i] \/ e[i] = [doc[i] EXCEPT !.value = text]
    <3>1. i \in DOMAIN doc
      BY <1>1
    <3>2. doc[i].key = ArgsKey => e[i] = doc[i]
      BY <3>1, Zenon DEF expandSpecDocument
    <3>3. doc[i].key # ArgsKey => e[i] = [doc[i] EXCEPT !.value = text]
      BY <3>1, ExpandedEntry
    <3> QED
      BY <3>2, <3>3, Zenon
  <2>3. doc[i] \in Entries
    BY <1>1
  <2> HIDE DEF text, e, Entries
  <2>4. [doc[i] EXCEPT !.value = text] \in Entries
    BY <2>1, <2>3, NewValue DEF Entries
  <2> QED
    BY <2>2, <2>3, <2>4
<1> HIDE DEF e, N, Entries
<1>4. e \in Documents
  BY <1>1, <1>2, <1>3, DocumentIs DEF Entries
<1> QED
  BY <1>4 DEF e

(* Values are texts once resolveKitArgs has accepted them.                 *)
LEMMA ValuesAreTexts ==
    ASSUME call \in Calls, Resolvable(call.decls, call.supplied)
    PROVE  Texts(Values)
<1> DEFINE d == call.decls
           s == call.supplied
<1>1. \A n \in DOMAIN d : d[n].accepts \subseteq Text
  BY KitsHaveSpecs
<1>2. Values = [n \in DOMAIN d |-> IF n \in DOMAIN s THEN s[n] ELSE d[n].default]
  BY DEF Values, resolveKitArgs
<1>3. /\ \A n \in DOMAIN d : d[n].default # None => d[n].default \in d[n].accepts
      /\ \A n \in DOMAIN d : IF n \in DOMAIN s THEN s[n] \in d[n].accepts ELSE d[n].default # None
  BY DEF Resolvable, Declares
<1> HIDE DEF d, s
<1>4. ASSUME NEW n \in DOMAIN Values PROVE Values[n] \in Text
  BY <1>1, <1>2, <1>3, <1>4, Zenon
<1> QED
  BY <1>4 DEF Texts

(* Staged writes what there is to be, directories wide.                    *)
LEMMA GoalOfDirectory ==
    ASSUME IsKit(kit), NEW p \in Paths, IsKind(kit, p, "dir"),
           pc \in {"copy", "chmod"} => kit = call.tree
    PROVE  /\ p # Spec
           /\ Goal(p) = kit[p] /\ Staged(p) = [kit[p] EXCEPT !.mode = "rw"]
           /\ kit[p] \in Dirs /\ kit[p] \in Nodes(p) /\ kit[p].kind = "dir"
<1>1. kit[p] \in Nodes(p) /\ kit[p].kind = "dir" /\ kit[p] # None
  BY KitNodes DEF IsKit, IsKind
<1>2. kit[p] \in Dirs
  BY <1>1, NodeFields
<1>3. p # Spec
  <2> SUFFICES ASSUME p = Spec PROVE FALSE
    OBVIOUS
  <2>1. ~IsKind(kit, Spec, "link") /\ ~IsKind(kit, Spec, "file")
    BY <1>1 DEF IsKind
  <2> QED
    BY <2>1 DEF IsKit, Real
<1>4. ~IsKind(kit, p, "other") /\ ~IsKind(kit, p, "file")
  BY <1>1 DEF IsKind
<1>5. p \notin Expandable
  BY <1>4 DEF Expandable
<1>6. Goal(p) = kit[p]
  BY <1>3, <1>4, <1>5, Zenon DEF Goal, Copied, Expanded
<1>7. Staged(p) = [kit[p] EXCEPT !.mode = "rw"]
  BY <1>3, Zenon DEF Staged
<1> QED
  BY <1>1, <1>2, <1>3, <1>6, <1>7

LEMMA GoalOfRest ==
    ASSUME IsKit(kit), NEW p \in Paths, ~IsKind(kit, p, "dir"),
           pc \in {"copy", "chmod"} => kit = call.tree
    PROVE  Goal(p) = Staged(p)
<1>1. CASE pc \in {"copy", "chmod"} /\ p = Spec
  BY <1>1, Zenon DEF Goal, Copied, Staged, StagedSpec, SpecContent
<1>2. CASE pc \notin {"copy", "chmod"}
  BY <1>2, Zenon DEF Goal, Expanded, Staged, StagedSpec, SpecContent, FileContent
<1>3. CASE pc \in {"copy", "chmod"} /\ p # Spec /\ p \in Expandable
  <2>1. kit[p] \in Nodes(p) /\ kit[p].kind = "file" /\ ~IsKind(kit, p, "other")
    BY <1>3, KitNodes DEF Expandable, IsKit, IsKind
  <2>2. kit[p] = [kind |-> "file", mode |-> kit[p].mode, text |-> kit[p].text]
    BY <2>1, NodeFields
  <2>3. [kit[p] EXCEPT !.text = kit[p].text] = kit[p]
    BY <2>2
  <2>4. FileContent(p) = kit[p].text
    BY <1>3, Zenon DEF FileContent
  <2>5. Staged(p) = [kit[p] EXCEPT !.text = FileContent(p)]
    BY <1>3, Zenon DEF Staged
  <2>6. Goal(p) = kit[p]
    BY <1>3, <2>1, Zenon DEF Goal, Copied
  <2> QED
    BY <2>3, <2>4, <2>5, <2>6
<1>4. CASE pc \in {"copy", "chmod"} /\ p # Spec /\ p \notin Expandable
  BY <1>4, Zenon DEF Goal, Copied, Staged
<1> QED
  BY <1>1, <1>2, <1>3, <1>4

(* What is staged is well typed: of a copy because the name is a text, of  *)
(* an expanded kit because the values are.                                 *)
LEMMA GoalIsNode ==
    ASSUME IsKit(kit), NEW p \in Paths,
           pc \in {"copy", "chmod"} => kit = call.tree /\ Renamable(Document(kit)),
           pc \notin {"copy", "chmod"} => Texts(Values)
    PROVE  Goal(p) = None \/ Goal(p) \in Nodes(p)
<1>1. CASE p = Spec
  <2> DEFINE m == kit[Real(kit, Spec)].mode
  <2>1. m \in Modes /\ Document(kit) \in Documents /\ Spec \in Specs
    BY SpecIsRead, StagedKitAssumption
  <2>2. CASE pc \in {"copy", "chmod"}
    <3>1. renamedSpec(Document(kit), NewName) \in Documents
      BY <2>1, <2>2, RenamedDocument
    <3>2. Goal(p) = [kind |-> "file", mode |-> m, text |-> renamedSpec(Document(kit), NewName)]
      BY <1>1, <2>2, Zenon DEF Goal, Copied
    <3> HIDE DEF m
    <3> QED
      BY <1>1, <2>1, <3>1, <3>2, FileNode
  <2>3. CASE pc \notin {"copy", "chmod"}
    <3>1. expandSpecDocument(Document(kit), Values) \in Documents
      BY <2>1, <2>3, ExpandedDocument
    <3>2. Goal(p) = [kind |-> "file", mode |-> m,
                     text |-> expandSpecDocument(Document(kit), Values)]
      BY <1>1, <2>3, Zenon DEF Goal, Expanded
    <3> HIDE DEF m
    <3> QED
      BY <1>1, <2>1, <3>1, <3>2, FileNode
  <2> QED
    BY <2>2, <2>3
<1>2. kit[p] = None \/ kit[p] \in Nodes(p)
  BY DEF IsKit, IsTree
<1>3. CASE p # Spec /\ pc \in {"copy", "chmod"}
  BY <1>2, <1>3, Zenon DEF Goal, Copied
<1>4. CASE p # Spec /\ pc \notin {"copy", "chmod"} /\ p \notin Expandable
  BY <1>2, <1>4, Zenon DEF Goal, Expanded
<1>5. CASE p # Spec /\ pc \notin {"copy", "chmod"} /\ p \in Expandable
  <2> DEFINE text == scanArgs(kit[p].text, Values).out
             m == kit[p].mode
  <2>1. IsKind(kit, p, "file") /\ p \notin Specs
    BY <1>5, StagedKitAssumption DEF Expandable, In
  <2>2. kit[p] \in Nodes(p) /\ kit[p].kind = "file"
    BY <2>1, KitNodes DEF IsKit
  <2>3. /\ m \in Modes /\ kit[p].text \in Text
        /\ kit[p] = [kind |-> "file", mode |-> m, text |-> kit[p].text]
    BY <2>1, <2>2, NodeFields
  <2>4. text \in Text
    BY <1>5, <2>3, ScanTypes
  <2>5. Goal(p) = [kit[p] EXCEPT !.text = text]
    BY <1>5, Zenon DEF Goal, Expanded
  <2> HIDE DEF text
  <2>6. Goal(p) = [kind |-> "file", mode |-> m, text |-> text]
    BY <2>3, <2>5
  <2> HIDE DEF m
  <2> QED
    BY <2>1, <2>3, <2>4, <2>6, FileNode
<1> QED
  BY <1>1, <1>3, <1>4, <1>5

LEMMA StagedIsNode ==
    ASSUME IsKit(kit), NEW p \in Paths,
           pc \in {"copy", "chmod"} => kit = call.tree /\ Renamable(Document(kit)),
           pc \notin {"copy", "chmod"} => Texts(Values)
    PROVE  Staged(p) = None \/ Staged(p) \in Nodes(p)
<1>1. CASE IsKind(kit, p, "dir")
  <2>1. kit[p] \in Dirs /\ Staged(p) = [kit[p] EXCEPT !.mode = "rw"]
    BY <1>1, GoalOfDirectory
  <2>2. Staged(p) \in Dirs
    BY <2>1 DEF Dirs, Modes
  <2> QED
    BY <2>2 DEF Nodes
<1>2. CASE ~IsKind(kit, p, "dir")
  <2>1. Staged(p) = Goal(p)
    BY <1>2, GoalOfRest
  <2> QED
    BY <2>1, GoalIsNode
<1> QED
  BY <1>1, <1>2

(* What these say of a state depends on the kit, and on which of the two   *)
(* trees is being written.                                                 *)
LEMMA SameExpansion ==
    ASSUME UNCHANGED <<call, kit>>
    PROVE  /\ Accepted' = Accepted /\ Substitutes' = Substitutes /\ Values' = Values
           /\ Expandable' = Expandable
           /\ \A p : Expanded(p)' = Expanded(p) /\ Copied(p)' = Copied(p)
<1>1. Values' = Values /\ Expandable' = Expandable
  BY DEF Values, Expandable
<1>2. ASSUME NEW p PROVE Expanded(p)' = Expanded(p) /\ Copied(p)' = Copied(p)
  BY <1>1 DEF Expanded, Copied
<1>3. Accepted' = Accepted
  BY <1>1 DEF Accepted
<1>4. Substitutes' = Substitutes
  BY <1>1 DEF Substitutes
<1> QED
  BY <1>1, <1>2, <1>3, <1>4

LEMMA SameGoal ==
    ASSUME UNCHANGED <<call, kit>>, pc' \in {"copy", "chmod"} <=> pc \in {"copy", "chmod"}
    PROVE  \A p : Staged(p)' = Staged(p) /\ Goal(p)' = Goal(p)
<1>1. Values' = Values /\ Expandable' = Expandable
  BY SameExpansion
<1>2. SpecContent' = SpecContent
  BY <1>1 DEF SpecContent
<1>3. ASSUME NEW p PROVE FileContent(p)' = FileContent(p)
  BY <1>1 DEF FileContent
<1>4. StagedSpec' = StagedSpec
  BY <1>2 DEF StagedSpec
<1>5. ASSUME NEW p PROVE Staged(p)' = Staged(p)
  BY <1>1, <1>3, <1>4 DEF Staged
<1>6. ASSUME NEW p PROVE Goal(p)' = Goal(p)
  BY SameExpansion DEF Goal
<1> QED
  BY <1>5, <1>6

LEMMA SameFind ==
    ASSUME UNCHANGED <<call, kit, from>>
    PROVE  /\ Tree' = Tree
           /\ \A tree, p : Resolves(tree, p)' = Resolves(tree, p)
<1>1. ASSUME NEW p PROVE Expanded(p)' = Expanded(p)
  BY SameExpansion
<1>2. [p \in Paths |-> Expanded(p)]' = [p \in Paths |-> Expanded(p)]
  BY <1>1
<1>3. Tree' = Tree
  BY <1>2 DEF Tree
<1>4. ASSUME NEW tree, NEW p PROVE Resolves(tree, p)' = Resolves(tree, p)
  BY DEF Resolves
<1> QED
  BY <1>3, <1>4

LEMMA SameFound ==
    ASSUME UNCHANGED <<call, kit, from, read, files, result>>
    PROVE  Found' = Found
<1>1. Tree' = Tree /\ \A tree, p : Resolves(tree, p)' = Resolves(tree, p)
  BY SameFind
<1>2. ASSUME NEW p PROVE Resolves(Tree, p)' = Resolves(Tree, p)
  BY <1>1 DEF Resolves
<1> QED
  BY <1>1, <1>2 DEF Found

LEMMA FaultsAreBounded ==
    ASSUME TypeOK, Fault \/ NoFault
    PROVE  faults' \in 0 .. MaxFaults
<1>1. MaxFaults \in Nat
  BY StagedKitAssumption
<1>2. faults \in 0 .. MaxFaults
  BY DEF TypeOK
<1>3. CASE Fault
  BY <1>1, <1>2, <1>3 DEF Fault
<1>4. CASE NoFault
  BY <1>2, <1>4 DEF NoFault
<1> QED
  BY <1>3, <1>4

LEMMA LoadInvInit == SuiteInit => LoadInv
<1> SUFFICES ASSUME SuiteInit PROVE LoadInv
  OBVIOUS
<1>1. /\ call \in Calls /\ kit = call.tree /\ staging = Empty
      /\ pc = (IF call.copied THEN "rename" ELSE "expand")
      /\ next = 1 /\ from = "kit" /\ read = None
      /\ files = <<>> /\ pending = {} /\ faults = 0 /\ result = "none"
  BY DEF SuiteInit, Init
<1>2. IsKit(kit)
  BY <1>1, KitsHaveSpecs DEF IsKit
<1>3. IsTree(staging)
  BY <1>1 DEF IsTree, Empty
<1>4. TypeOK
  <2>1. IsTree(kit) /\ MaxFaults \in Nat
    BY <1>2, StagedKitAssumption DEF IsKit
  <2>2. next \in 0 .. Len(Order) + 1 /\ faults \in 0 .. MaxFaults
    BY <1>1, <2>1, Walked
  <2>3. DOMAIN files = {}
    BY <1>1
  <2> QED
    BY <1>1, <1>3, <2>1, <2>2, <2>3 DEF TypeOK
<1>5. Origin
  BY <1>1, <1>2 DEF Origin, Opened
<1>6. Progress
  BY <1>1 DEF Progress, Empty
<1>7. Gathered
  BY <1>1 DEF Gathered
<1> QED
  BY <1>4, <1>5, <1>6, <1>7 DEF LoadInv

(* A step that fails leaves everything as it was.                          *)
LEMMA ErrorStep ==
    ASSUME LoadInv, Return("error"), Fault \/ NoFault,
           UNCHANGED <<call, kit, staging, next, from, read, files, pending>>
    PROVE  LoadInv'
<1>1. pc' \in {"remove", "done"} /\ result' = "error"
  BY DEF Return
<1>2. faults' \in 0 .. MaxFaults
  BY FaultsAreBounded DEF LoadInv
<1>3. TypeOK'
  BY <1>1, <1>2 DEF LoadInv, TypeOK, ArtifactFile
<1>4. Origin'
  BY <1>1 DEF LoadInv, Origin, Opened
<1>5. Progress'
  BY <1>1 DEF LoadInv, Progress
<1>6. Gathered'
  BY <1>1 DEF Gathered
<1> QED
  BY <1>3, <1>4, <1>5, <1>6 DEF LoadInv

LEMMA LoadStays ==
    ASSUME LoadInv, Fault \/ NoFault, StillLoaded
    PROVE  LoadInv'
<1>0. UNCHANGED <<call, kit, staging, pc, next, from, read, files, pending, result>>
  BY DEF StillLoaded
<1>1. faults' \in 0 .. MaxFaults
  BY FaultsAreBounded DEF LoadInv
<1>2. TypeOK'
  BY <1>0, <1>1 DEF LoadInv, TypeOK, ArtifactFile
<1>3. Origin'
  BY <1>0, SameExpansion DEF LoadInv, Origin, Opened
<1>4. Progress'
  <2>1. /\ \A p : Staged(p)' = Staged(p) /\ Goal(p)' = Goal(p) /\ Expanded(p)' = Expanded(p)
        /\ Accepted' = Accepted /\ Substitutes' = Substitutes
    BY <1>0, SameGoal, SameExpansion
  <2>2. [p \in Paths |-> Expanded(p)]' = [p \in Paths |-> Expanded(p)]
    BY <2>1
  <2> QED
    BY <1>0, <2>1, <2>2 DEF LoadInv, Progress
<1>5. Gathered'
  BY <1>0, SameFound DEF LoadInv, Gathered
<1> QED
  BY <1>2, <1>3, <1>4, <1>5 DEF LoadInv

LEMMA RenameSpecStep ==
    ASSUME LoadInv, StagingInv, RenameSpec
    PROVE  LoadInv'
<1>0. pc = "rename" /\ next = 1 /\ UNCHANGED <<call, kit, staging, next, read, files, pending>>
  BY DEF RenameSpec, StagingInv
<1>1. CASE /\ Renamable(Document(kit)) /\ pc' = "copy" /\ from' = "staging"
           /\ NoFault /\ UNCHANGED result
  <2>1. TypeOK'
    BY <1>0, <1>1 DEF LoadInv, TypeOK, ArtifactFile, NoFault
  <2>2. Origin'
    BY <1>0, <1>1 DEF LoadInv, Origin, Opened, Gathered
  <2>3. Progress'
    BY <1>0, <1>1 DEF LoadInv, Progress, Gathered
  <2>4. Gathered'
    BY <1>0, <1>1 DEF LoadInv, Gathered
  <2> QED
    BY <2>1, <2>2, <2>3, <2>4 DEF LoadInv
<1>2. CASE Return("error") /\ (NoFault \/ Fault) /\ UNCHANGED from
  BY <1>0, <1>2, ErrorStep
<1> QED
  BY <1>1, <1>2 DEF RenameSpec

LEMMA ExpandKitStep ==
    ASSUME LoadInv, StagingInv, ExpandKit
    PROVE  LoadInv'
<1>0. /\ pc = "expand" /\ next = 1 /\ from = "kit" /\ result = "none"
      /\ UNCHANGED <<call, kit, staging, next, read, files, pending>>
  BY DEF ExpandKit, StagingInv, LoadInv, Gathered
<1>1. CASE /\ Accepted /\ UNCHANGED result /\ NoFault
           /\ \/ ~Substitutes /\ pc' = "load" /\ UNCHANGED from
              \/ pc' = "write" /\ from' = "staging"
  <2>1. TypeOK'
    BY <1>0, <1>1 DEF LoadInv, TypeOK, ArtifactFile, NoFault
  <2>2. Origin'
    BY <1>0, <1>1, SameExpansion DEF LoadInv, Origin, Opened, Gathered
  <2>3. Progress'
    BY <1>0, <1>1, SameExpansion DEF LoadInv, Progress, Gathered
  <2>4. Gathered'
    BY <1>0, <1>1 DEF LoadInv, Gathered
  <2> QED
    BY <2>1, <2>2, <2>3, <2>4 DEF LoadInv
<1>2. CASE Return("error") /\ (NoFault \/ Fault) /\ UNCHANGED from
  BY <1>0, <1>2, ErrorStep
<1> QED
  BY <1>1, <1>2 DEF ExpandKit

(* A kit that is recreated is a kit.                                       *)
LEMMA RecreatedIsKit ==
    ASSUME NEW old, IsKit(old), NEW new, IsTree(new), IsKind(new, Spec, "file"),
           \A p \in Paths : p # Spec =>
               \/ new[p] = old[p]
               \/ new[p] = None /\ IsKind(old, p, "other")
               \/ IsKind(old, p, "file") /\ IsKind(new, p, "file")
    PROVE  IsKit(new)
<1>1. Real(new, Spec) = Spec /\ Spec \in Specs
  BY StagedKitAssumption DEF Real, IsKind
<1>2. ASSUME NEW p \in Paths, new[p] # None, NEW d \in Ancestors[p]
      PROVE  IsKind(new, d, "dir")
  <2>1. p # Spec /\ d # Spec /\ d \in Paths
    BY Walked
  <2>2. old[p] # None
    BY <1>2, <2>1 DEF IsKind
  <2>3. IsKind(old, d, "dir")
    BY <2>2 DEF IsKit
  <2> QED
    BY <2>1, <2>3 DEF IsKind
<1>3. ASSUME NEW p \in Paths, IsKind(new, p, "link"), new[p].to # None
      PROVE  ~IsKind(new, new[p].to, "link")
  <2>1. p # Spec
    BY <1>3 DEF IsKind
  <2>2. new[p] = old[p]
    BY <1>3, <2>1 DEF IsKind
  <2>3. IsKind(old, p, "link") /\ old[p].to # None
    BY <1>3, <2>2 DEF IsKind
  <2>4. old[p].to \in Paths
    BY <2>3, KitNodes, NodeFields DEF IsKit
  <2>5. ~IsKind(old, old[p].to, "link")
    BY <2>3 DEF IsKit
  <2>6. CASE old[p].to = Spec
    BY <2>2, <2>6 DEF IsKind
  <2>7. CASE old[p].to # Spec
    BY <2>2, <2>4, <2>5, <2>7 DEF IsKind
  <2> QED
    BY <2>6, <2>7
<1> QED
  BY <1>1, <1>2, <1>3 DEF IsKit

LEMMA SpecIsFile ==
    ASSUME NEW m \in Modes, NEW text \in Documents, NEW n,
           n = [kind |-> "file", mode |-> m, text |-> text]
    PROVE  n \in Nodes(Spec) /\ n # None /\ n.kind = "file" /\ n.mode = m /\ n.text = text
<1>1. Spec \in Paths /\ Spec \in Specs
  BY StagedKitAssumption
<1>2. n \in Nodes(Spec)
  BY <1>1, FileNode
<1> QED
  BY <1>1, <1>2, NoneIsNothing

LEMMA ExpandedNodes ==
    ASSUME IsKit(kit), Texts(Values), NEW p \in Paths
    PROVE  /\ Expanded(p) = None \/ Expanded(p) \in Nodes(p)
           /\ Expanded(p) = None <=> kit[p] = None \/ IsKind(kit, p, "other")
           /\ p = Spec =>
                 /\ IsKind(kit, p, "other") = FALSE /\ Expanded(p) # None
                 /\ Expanded(p).kind = "file"
                 /\ Expanded(p).mode = kit[Real(kit, Spec)].mode
                 /\ Expanded(p).text = expandSpecDocument(Document(kit), Values)
           /\ p # Spec /\ p \in Expandable =>
                 /\ IsKind(kit, p, "file") /\ Expanded(p) # None /\ Expanded(p).kind = "file"
                 /\ Expanded(p).mode = kit[p].mode
                 /\ Expanded(p).text = scanArgs(kit[p].text, Values).out
           /\ p # Spec /\ p \notin Expandable =>
                 \/ Expanded(p) = kit[p]
                 \/ Expanded(p) = None /\ IsKind(kit, p, "other")
<1>1. CASE p = Spec
  <2> DEFINE m == kit[Real(kit, Spec)].mode
             text == expandSpecDocument(Document(kit), Values)
  <2>1. m \in Modes /\ text \in Documents
    BY SpecIsRead, ExpandedDocument
  <2>2. Expanded(Spec) = [kind |-> "file", mode |-> m, text |-> text]
    BY Zenon DEF Expanded
  <2>3. kit[Spec] # None /\ ~IsKind(kit, Spec, "other")
    BY DEF IsKit, Real, IsKind
  <2> HIDE DEF m, text
  <2>4. /\ Expanded(Spec) \in Nodes(Spec) /\ Expanded(Spec) # None /\ Expanded(Spec).kind = "file"
        /\ Expanded(Spec).mode = m /\ Expanded(Spec).text = text
    BY <2>1, <2>2, SpecIsFile
  <2> QED
    BY <1>1, <2>3, <2>4 DEF m, text
<1>2. CASE p # Spec /\ p \in Expandable
  <2> DEFINE text == scanArgs(kit[p].text, Values).out
             m == kit[p].mode
  <2>1. IsKind(kit, p, "file") /\ p \notin Specs
    BY <1>2, StagedKitAssumption DEF Expandable, In
  <2>2. kit[p] \in Nodes(p) /\ kit[p].kind = "file" /\ kit[p] # None
    BY <2>1, KitNodes DEF IsKit, IsKind
  <2>3. /\ m \in Modes /\ kit[p].text \in Text
        /\ kit[p] = [kind |-> "file", mode |-> m, text |-> kit[p].text]
    BY <2>1, <2>2, NodeFields
  <2>4. text \in Text
    BY <2>3, ScanTypes
  <2>5. Expanded(p) = [kit[p] EXCEPT !.text = text]
    BY <1>2, Zenon DEF Expanded
  <2> HIDE DEF text
  <2>6. Expanded(p) = [kind |-> "file", mode |-> m, text |-> text]
    BY <2>3, <2>5
  <2> HIDE DEF m
  <2>7. Expanded(p) \in Nodes(p)
    BY <2>1, <2>3, <2>4, <2>6, FileNode
  <2>8. Expanded(p) # None /\ Expanded(p).kind = "file" /\ Expanded(p).mode = m
        /\ Expanded(p).text = text
    BY <2>6, <2>7, NoneIsNothing
  <2>9. ~IsKind(kit, p, "other")
    BY <2>2 DEF IsKind
  <2> QED
    BY <1>2, <2>1, <2>2, <2>7, <2>8, <2>9 DEF m, text
<1>3. CASE p # Spec /\ p \notin Expandable
  <2>1. Expanded(p) = IF IsKind(kit, p, "other") THEN None ELSE kit[p]
    BY <1>3, Zenon DEF Expanded
  <2>2. kit[p] = None \/ kit[p] \in Nodes(p)
    BY DEF IsKit, IsTree
  <2> QED
    BY <1>3, <2>1, <2>2 DEF IsKind
<1> QED
  BY <1>1, <1>2, <1>3

LEMMA ExpandedIsKit ==
    ASSUME IsKit(kit), Texts(Values), NEW tree, tree = [p \in Paths |-> Expanded(p)]
    PROVE  IsKit(tree)
<1>1. IsTree(tree)
  BY ExpandedNodes DEF IsTree
<1>2. Spec \in Paths
  BY StagedKitAssumption
<1>3. IsKind(tree, Spec, "file")
  BY <1>2, ExpandedNodes DEF IsKind
<1>4. ASSUME NEW p \in Paths, p # Spec
      PROVE  \/ tree[p] = kit[p]
             \/ tree[p] = None /\ IsKind(kit, p, "other")
             \/ IsKind(kit, p, "file") /\ IsKind(tree, p, "file")
  <2>1. tree[p] = Expanded(p)
    OBVIOUS
  <2>2. CASE p \in Expandable
    BY <1>4, <2>1, <2>2, ExpandedNodes DEF IsKind
  <2>3. CASE p \notin Expandable
    BY <1>4, <2>1, <2>3, ExpandedNodes
  <2> QED
    BY <2>2, <2>3
<1> QED
  BY <1>1, <1>3, <1>4, RecreatedIsKit

LEMMA CopiedIsKit ==
    ASSUME call \in Calls, Renamable(Document(call.tree)), NEW tree, DOMAIN tree = Paths,
           \A p \in Paths : tree[p] = Copied(p)
    PROVE  IsKit(tree)
<1> DEFINE old == call.tree
           m == old[Real(old, Spec)].mode
           text == renamedSpec(Document(old), NewName)
<1>1. IsKit(old) /\ Spec \in Paths
  BY KitsHaveSpecs, StagedKitAssumption DEF IsKit
<1>2. m \in Modes /\ text \in Documents
  BY <1>1, SpecIsRead, RenamedDocument
<1>3. tree[Spec] = [kind |-> "file", mode |-> m, text |-> text]
  BY <1>1, Zenon DEF Copied
<1>4. ASSUME NEW p \in Paths, p # Spec
      PROVE  tree[p] = IF IsKind(old, p, "other") THEN None ELSE old[p]
  BY <1>4, Zenon DEF Copied
<1> HIDE DEF m, text, old
<1>5. tree[Spec] \in Nodes(Spec) /\ IsKind(tree, Spec, "file")
  BY <1>2, <1>3, SpecIsFile DEF IsKind
<1>6. \A p \in Paths : old[p] = None \/ old[p] \in Nodes(p)
  BY <1>1 DEF IsKit, IsTree
<1>7. IsTree(tree)
  BY <1>4, <1>5, <1>6 DEF IsTree
<1> QED
  BY <1>1, <1>4, <1>5, <1>7, RecreatedIsKit

LEMMA AcceptedTexts ==
    ASSUME call \in Calls, Accepted
    PROVE  Texts(Values)
<1>1. Resolvable(call.decls, call.supplied)
  BY DEF Accepted
<1> QED
  BY <1>1, ValuesAreTexts

LEMMA AllVisited == \A p \in Paths : \E i \in 1 .. Len(Order) : Order[i] = p
<1>1. DOMAIN Order = 1 .. Len(Order)
  BY Walked
<1> QED
  BY <1>1, StagedKitAssumption

(* What both loops of writeStaging go by.                                  *)
LEMMA Writing ==
    ASSUME LoadInv, StagingInv, pc \in {"copy", "write", "chmod", "narrow"}
    PROVE  /\ call \in Calls /\ IsKit(kit) /\ from = "staging" /\ result = "none"
           /\ pc \in {"copy", "chmod"} => call.copied /\ kit = call.tree /\ Renamable(Document(kit))
           /\ pc \in {"write", "narrow"} => Accepted /\ Texts(Values)
           /\ \A p \in Paths : /\ Staged(p) = None \/ Staged(p) \in Nodes(p)
                               /\ Goal(p) = None \/ Goal(p) \in Nodes(p)
           /\ pending = {}
<1>1. /\ call \in Calls /\ IsKit(kit) /\ from = "staging" /\ result = "none" /\ pending = {}
      /\ pc \in {"chmod"} => call.copied /\ kit = call.tree /\ Renamable(Document(kit))
      /\ pc \in {"copy"} => call.copied /\ kit = call.tree /\ Renamable(Document(kit))
  BY DEF LoadInv, Origin, Gathered, StagingInv
<1>2. pc \in {"write", "narrow"} => Accepted
  BY DEF LoadInv, Progress
<1>3. pc \in {"write", "narrow"} => Texts(Values)
  BY <1>1, <1>2, AcceptedTexts
<1>4. \A p \in Paths : /\ Staged(p) = None \/ Staged(p) \in Nodes(p)
                       /\ Goal(p) = None \/ Goal(p) \in Nodes(p)
  BY <1>1, <1>3, StagedIsNode, GoalIsNode
<1> QED
  BY <1>1, <1>2, <1>3, <1>4

LEMMA WriteEntryStep ==
    ASSUME LoadInv, StagingInv, WriteEntry
    PROVE  LoadInv'
<1> DEFINE p == Order[next]
<1>0. /\ pc \in {"copy", "write"} /\ next \in 1 .. Len(Order) /\ p \in Paths
      /\ UNCHANGED <<call, kit, from, read, files, pending>>
  BY Walked DEF WriteEntry, StagingInv
<1>1. CASE Return("error") /\ (NoFault \/ Fault) /\ UNCHANGED <<staging, next>>
  BY <1>0, <1>1, ErrorStep
<1>2. CASE /\ staging' = [staging EXCEPT ![p] = Staged(p)]
           /\ next' = IF next = Len(Order) THEN next ELSE next + 1
           /\ pc' = IF next = Len(Order) THEN IF pc = "copy" THEN "chmod" ELSE "narrow" ELSE pc
           /\ NoFault /\ UNCHANGED result
  <2>0. Len(Order) \in Nat /\ Len(Order) # 0
    BY Walked
  <2>1. /\ call \in Calls /\ IsKit(kit) /\ from = "staging" /\ result = "none" /\ pending = {}
        /\ pc = "copy" => call.copied /\ kit = call.tree /\ Renamable(Document(kit))
        /\ pc = "write" => Accepted
        /\ Staged(p) = None \/ Staged(p) \in Nodes(p)
    BY <1>0, Writing
  <2>2. /\ staging = [q \in Paths |-> staging[q]]
        /\ \A q \in Paths : staging[q] = None \/ staging[q] \in Nodes(q)
    BY DEF LoadInv, TypeOK, IsTree, Progress
  <2>3. /\ staging' = [q \in Paths |-> staging'[q]] /\ staging'[p] = Staged(p)
        /\ \A q \in Paths : q # p => staging'[q] = staging[q]
    BY <1>0, <1>2, <2>2
  <2>4. IsTree(staging')
    BY <2>1, <2>2, <2>3 DEF IsTree
  <2>5. pc' \in (IF pc = "copy" THEN {"copy", "chmod"} ELSE {"write", "narrow"})
    BY <1>0, <1>2
  <2>6. next' \in 1 .. Len(Order)
    BY <1>0, <1>2, <2>0
  <2>7. TypeOK'
    <3>1. next' \in 0 .. Len(Order) + 1
      BY <2>0, <2>6
    <3>2. IsTree(kit') /\ faults' \in 0 .. MaxFaults
      BY <1>0, <1>2 DEF LoadInv, TypeOK, NoFault
    <3> QED
      BY <1>0, <1>2, <2>4, <2>5, <3>1, <3>2 DEF LoadInv, TypeOK, ArtifactFile
  <2>8. Origin'
    BY <1>0, <1>2, <2>1, <2>5, SameExpansion DEF LoadInv, Origin, Opened
  <2>9. \A q : Staged(q)' = Staged(q) /\ Goal(q)' = Goal(q)
    BY <1>0, <2>5, SameGoal
  <2>10. \A i \in 1 .. next : staging'[Order[i]] = Staged(Order[i])
    <3> SUFFICES ASSUME NEW i \in 1 .. next PROVE staging'[Order[i]] = Staged(Order[i])
      OBVIOUS
    <3>1. CASE Order[i] = p
      BY <2>3, <3>1
    <3>2. CASE Order[i] # p
      <4>1. i \in 1 .. next - 1 /\ Order[i] \in Paths
        BY <1>0, <2>0, <3>2, Walked
      <4>2. staging[Order[i]] = Staged(Order[i])
        BY <1>0, <4>1 DEF LoadInv, Progress
      <4> QED
        BY <2>3, <3>2, <4>1, <4>2
    <3> QED
      BY <3>1, <3>2
  <2>11. ASSUME next = Len(Order) PROVE Progress'
    <3>1. pc' \in {"chmod", "narrow"} /\ next' = Len(Order) /\ (pc' = "narrow" => pc = "write")
      BY <1>0, <1>2, <2>11
    <3>2. \A q \in Paths : staging'[q] = Staged(q)
      BY <2>10, <2>11, AllVisited
    <3>3. \A q \in Paths : staging'[q] = Staged(q)' \/ staging'[q] = Goal(q)'
      BY <2>9, <3>2
    <3>4. next' + 1 .. Len(Order) = {}
      BY <2>0, <3>1
    <3>5. pc' = "narrow" => Accepted'
      BY <1>0, <2>1, <3>1, SameExpansion
    <3> QED
      BY <2>1, <2>3, <3>1, <3>3, <3>4, <3>5, <1>2 DEF Progress
  <2>12. ASSUME next # Len(Order) PROVE Progress'
    <3>1. pc' = pc /\ next' = next + 1 /\ next' - 1 = next
      BY <1>0, <1>2, <2>0, <2>12
    <3>2. \A i \in 1 .. next : staging'[Order[i]] = Staged(Order[i])'
      BY <2>9, <2>10
    <3>3. pc' = "write" => Accepted'
      BY <1>0, <2>1, <3>1, SameExpansion
    <3> QED
      BY <1>0, <2>1, <2>3, <3>1, <3>2, <3>3, <1>2 DEF Progress
  <2>13. Gathered'
    BY <1>0, <1>2, <2>1, <2>5 DEF Gathered
  <2> QED
    BY <2>7, <2>8, <2>11, <2>12, <2>13 DEF LoadInv
<1> QED
  BY <1>1, <1>2 DEF WriteEntry

LEMMA NarrowEntryStep ==
    ASSUME LoadInv, StagingInv, NarrowEntry
    PROVE  LoadInv'
<1> DEFINE p == Order[next]
<1>0. /\ pc \in {"chmod", "narrow"} /\ next \in 1 .. Len(Order) /\ p \in Paths
      /\ UNCHANGED <<call, kit, from, read, files, pending>>
  <2>1. /\ pc \in {"chmod", "narrow"} /\ next > 0
        /\ UNCHANGED <<call, kit, from, read, files, pending>>
    BY DEF NarrowEntry
  <2>2. next \in 1 .. Len(Order)
    BY <2>1, Walked DEF StagingInv
  <2> QED
    BY <2>1, <2>2, Walked
<1>1. CASE Return("error") /\ (NoFault \/ Fault) /\ UNCHANGED <<staging, next>>
  BY <1>0, <1>1, ErrorStep
<1>2. CASE /\ staging' = IF IsKind(kit, p, "dir")
                          THEN [staging EXCEPT ![p].mode = kit[p].mode] ELSE staging
           /\ next' = next - 1
           /\ pc' = IF next = 1 /\ pc = "narrow" THEN "load" ELSE pc
           /\ NoFault /\ UNCHANGED result
  <2>0. Len(Order) \in Nat /\ Len(Order) # 0
    BY Walked
  <2>1. /\ call \in Calls /\ IsKit(kit) /\ from = "staging" /\ result = "none" /\ pending = {}
        /\ pc = "chmod" => call.copied /\ kit = call.tree /\ Renamable(Document(kit))
        /\ pc = "narrow" => Accepted /\ Texts(Values)
        /\ Goal(p) = None \/ Goal(p) \in Nodes(p)
    BY <1>0, Writing
  <2>2. /\ staging = [q \in Paths |-> staging[q]]
        /\ \A q \in Paths : staging[q] = None \/ staging[q] \in Nodes(q)
        /\ \A q \in Paths : staging[q] = Staged(q) \/ staging[q] = Goal(q)
        /\ \A i \in next + 1 .. Len(Order) : staging[Order[i]] = Goal(Order[i])
    BY <1>0 DEF LoadInv, TypeOK, IsTree, Progress
  <2>3. /\ staging' = [q \in Paths |-> staging'[q]] /\ staging'[p] = Goal(p)
        /\ \A q \in Paths : q # p => staging'[q] = staging[q]
    <3>1. CASE IsKind(kit, p, "dir")
      <4>1. /\ Goal(p) = kit[p] /\ Staged(p) = [kit[p] EXCEPT !.mode = "rw"] /\ kit[p] \in Dirs
        BY <1>0, <2>1, <3>1, GoalOfDirectory
      <4>2. staging' = [staging EXCEPT ![p].mode = kit[p].mode]
        BY <1>2, <3>1
      <4>3. staging' = [staging EXCEPT ![p] = [staging[p] EXCEPT !.mode = kit[p].mode]]
        BY <4>2, Zenon
      <4> DEFINE n == [staging[p] EXCEPT !.mode = kit[p].mode]
      <4>4. n = kit[p]
        <5>1. CASE staging[p] = kit[p]
          BY <4>1, <5>1 DEF Dirs
        <5>2. CASE staging[p] = [kit[p] EXCEPT !.mode = "rw"]
          BY <4>1, <5>2 DEF Dirs
        <5> QED
          BY <1>0, <2>2, <4>1, <5>1, <5>2
      <4> HIDE DEF n
      <4> QED
        BY <1>0, <2>2, <4>1, <4>3, <4>4 DEF n
    <3>2. CASE ~IsKind(kit, p, "dir")
      <4>1. Staged(p) = Goal(p)
        BY <1>0, <2>1, <3>2, GoalOfRest
      <4> QED
        BY <1>0, <1>2, <2>2, <3>2, <4>1
    <3> QED
      BY <3>1, <3>2
  <2>4. IsTree(staging')
    BY <2>1, <2>2, <2>3 DEF IsTree
  <2>5. \A i \in next .. Len(Order) : staging'[Order[i]] = Goal(Order[i])
    <3> SUFFICES ASSUME NEW i \in next .. Len(Order) PROVE staging'[Order[i]] = Goal(Order[i])
      OBVIOUS
    <3>1. CASE Order[i] = p
      BY <2>3, <3>1
    <3>2. CASE Order[i] # p
      <4>1. i \in next + 1 .. Len(Order) /\ Order[i] \in Paths
        BY <1>0, <2>0, <3>2, Walked
      <4> QED
        BY <2>2, <2>3, <3>2, <4>1
    <3> QED
      BY <3>1, <3>2
  <2>6. \A q \in Paths : staging'[q] = Staged(q) \/ staging'[q] = Goal(q)
    BY <2>2, <2>3
  <2>7. CASE next = 1 /\ pc = "narrow"
    <3>1. pc' = "load" /\ next' = 0
      BY <1>2, <2>7
    <3>2. \A q \in Paths : staging'[q] = Goal(q)
      BY <2>5, <2>7, AllVisited
    <3>3. \A q \in Paths : staging'[q] = Expanded(q)
      BY <2>7, <3>2 DEF Goal
    <3>4. staging' = [q \in Paths |-> Expanded(q)]
      BY <2>3, <3>3
    <3>5. \A q : Expanded(q)' = Expanded(q)
      BY <1>0, SameExpansion
    <3>6. (staging = [q \in Paths |-> Expanded(q)])'
      BY <3>4, <3>5
    <3>7. Accepted'
      BY <1>0, <2>1, <2>7, SameExpansion
    <3>8. Progress'
      BY <1>0, <1>2, <2>1, <2>3, <3>1, <3>6, <3>7 DEF Progress
    <3>9. \A q \in Paths : staging'[q] = None <=> kit'[q] = None \/ IsKind(kit', q, "other")
      BY <1>0, <2>1, <2>7, <3>3, ExpandedNodes
    <3>10. TypeOK'
      BY <1>0, <1>2, <2>0, <2>4, <3>1, <3>9 DEF LoadInv, TypeOK, ArtifactFile, NoFault
    <3>11. Origin'
      BY <1>0, <1>2, <2>1, <2>7, <3>1, SameExpansion DEF LoadInv, Origin, Opened
    <3>12. Gathered'
      BY <1>0, <1>2, <2>1, <3>1 DEF Gathered
    <3> QED
      BY <3>8, <3>10, <3>11, <3>12 DEF LoadInv
  <2>8. CASE ~(next = 1 /\ pc = "narrow")
    <3>1. pc' = pc /\ next' = next - 1
      BY <1>2, <2>8
    <3>2. next' \in 0 .. Len(Order) /\ next' + 1 = next
      BY <1>0, <2>0, <3>1
    <3>3. \A q : Staged(q)' = Staged(q) /\ Goal(q)' = Goal(q)
      BY <1>0, <3>1, SameGoal
    <3>4. \A q \in Paths : staging'[q] = Staged(q)' \/ staging'[q] = Goal(q)'
      BY <2>6, <3>3
    <3>5. \A i \in next' + 1 .. Len(Order) : staging'[Order[i]] = Goal(Order[i])'
      BY <2>5, <3>2, <3>3
    <3>6. pc' = "narrow" => Accepted'
      BY <1>0, <2>1, <3>1, SameExpansion
    <3>7. Progress'
      BY <1>0, <1>2, <2>1, <2>3, <3>1, <3>4, <3>5, <3>6 DEF Progress
    <3>8. next' \in 0 .. Len(Order) + 1
      BY <2>0, <3>2
    <3>9. TypeOK'
      BY <1>0, <1>2, <2>4, <3>1, <3>8 DEF LoadInv, TypeOK, ArtifactFile, NoFault
    <3>10. Origin'
      BY <1>0, <1>2, <2>1, <3>1, SameExpansion DEF LoadInv, Origin, Opened
    <3>11. Gathered'
      BY <1>0, <1>2, <2>1, <3>1 DEF Gathered
    <3> QED
      BY <3>7, <3>9, <3>10, <3>11 DEF LoadInv
  <2> QED
    BY <2>7, <2>8
<1> QED
  BY <1>1, <1>2 DEF NarrowEntry

LEMMA SameCopied ==
    ASSUME UNCHANGED call
    PROVE  \A p : Copied(p)' = Copied(p)
BY DEF Copied

LEMMA OpenCopyStep ==
    ASSUME LoadInv, StagingInv, OpenCopy
    PROVE  LoadInv'
<1>0. /\ pc = "chmod" /\ next = 0 /\ kit' = staging /\ staging' = Empty
      /\ pc' = "expand" /\ next' = 1 /\ from' = "kit"
      /\ UNCHANGED <<call, read, files, pending, faults, result>>
  BY DEF OpenCopy
<1>1. /\ call \in Calls /\ call.copied /\ kit = call.tree /\ Renamable(Document(call.tree))
      /\ result = "none" /\ pending = {}
  BY <1>0, Writing
<1>2. \A p \in Paths : staging[p] = Copied(p)
  <2>1. \A i \in 1 .. Len(Order) : staging[Order[i]] = Goal(Order[i])
    BY <1>0 DEF LoadInv, Progress
  <2>2. \A p : Goal(p) = Copied(p)
    BY <1>0 DEF Goal
  <2> QED
    BY <2>1, <2>2, AllVisited
<1>3. IsTree(staging)
  BY DEF LoadInv, TypeOK
<1>4. IsKit(staging)
  BY <1>1, <1>2, <1>3, CopiedIsKit DEF IsTree
<1>5. TypeOK'
  <2>1. IsTree(kit') /\ IsTree(staging')
    BY <1>0, <1>3 DEF IsTree, Empty
  <2>2. next' \in 0 .. Len(Order) + 1
    BY <1>0, Walked
  <2> QED
    BY <1>0, <2>1, <2>2 DEF LoadInv, TypeOK, ArtifactFile
<1>6. Origin'
  <2>1. \A p : Copied(p)' = Copied(p)
    BY <1>0, SameCopied
  <2> QED
    BY <1>0, <1>1, <1>2, <1>4, <2>1 DEF Origin, Opened
<1>7. Progress'
  BY <1>0, <1>1 DEF Progress, Empty
<1>8. Gathered'
  BY <1>0, <1>1 DEF Gathered
<1> QED
  BY <1>5, <1>6, <1>7, <1>8 DEF LoadInv

(* What is loaded is a kit, and where a file of it leads is a node of it.  *)
LEMMA TreeIsKit ==
    ASSUME LoadInv, pc \in {"load", "materialize"} \/ result = "artifact"
    PROVE  IsKit(Tree)
<1>1. call \in Calls /\ IsKit(kit) /\ Accepted
  BY DEF LoadInv, Origin, Progress
<1>2. Texts(Values)
  BY <1>1, AcceptedTexts
<1>3. CASE from = "kit"
  BY <1>1, <1>3 DEF Tree
<1>4. CASE from # "kit"
  <2>1. Tree = [p \in Paths |-> Expanded(p)]
    BY <1>4 DEF Tree
  <2> QED
    BY <1>1, <1>2, <2>1, ExpandedIsKit
<1> QED
  BY <1>3, <1>4

LEMMA LoadedIsTree ==
    ASSUME LoadInv, pc \in {"load", "materialize"} \/ (result = "artifact" /\ from = "kit")
    PROVE  Loaded = Tree
<1>1. CASE from = "kit"
  BY <1>1 DEF Loaded, Tree
<1>2. CASE from # "kit"
  BY <1>2 DEF LoadInv, TypeOK, Progress, Loaded, Tree
<1> QED
  BY <1>1, <1>2

LEMMA FileLeadsTo ==
    ASSUME NEW tree, IsKit(tree), NEW p \in Listed(tree), Resolves(tree, p)
    PROVE  /\ Real(tree, p) \in Paths /\ tree[Real(tree, p)] # None
           /\ \/ IsKind(tree, Real(tree, p), "other")
              \/ tree[Real(tree, p)].mode \in Modes
<1> DEFINE real == Real(tree, p)
<1>1. p \in Paths /\ tree[p] # None /\ ~IsKind(tree, p, "dir")
  BY DEF Listed
<1>2. real \in Paths /\ tree[real] # None /\ ~IsKind(tree, real, "link")
  <2>1. CASE IsKind(tree, p, "link")
    <3>1. tree[p] \in Nodes(p) /\ tree[p].kind = "link"
      BY <1>1, <2>1, KitNodes DEF IsKit
    <3>2. tree[p].to # None /\ tree[tree[p].to] # None /\ real = tree[p].to
      BY <2>1 DEF Resolves, Real
    <3>3. tree[p].to \in Paths
      BY <1>1, <3>1, <3>2, NodeFields
    <3> QED
      BY <1>1, <2>1, <3>2, <3>3 DEF IsKit
  <2>2. CASE ~IsKind(tree, p, "link")
    BY <1>1, <2>2 DEF Real
  <2> QED
    BY <2>1, <2>2
<1> HIDE DEF real
<1>3. tree[real] \in Nodes(real)
  BY <1>2, KitNodes DEF IsKit
<1>4. tree[real].kind \in {"dir", "file", "other"}
  BY <1>2, <1>3, NodeFields DEF IsKind
<1>5. tree[real].kind \in {"dir", "file"} => tree[real].mode \in Modes
  BY <1>2, <1>3, NodeFields
<1> QED
  BY <1>2, <1>4, <1>5 DEF IsKind, real

LEMMA OpenFromDirectoryStep ==
    ASSUME LoadInv, StagingInv, OpenFromDirectory
    PROVE  LoadInv'
<1>0. /\ pc = "load" /\ result = "none" /\ pending = {}
      /\ UNCHANGED <<call, kit, staging, next, from, pending>>
  BY DEF OpenFromDirectory, LoadInv, Gathered
<1>1. CASE Return("error") /\ (NoFault \/ Fault) /\ UNCHANGED <<read, files>>
  BY <1>0, <1>1, ErrorStep
<1>2. CASE /\ \A p \in Listed(Loaded) : Resolves(Loaded, p)
           /\ read' = Loaded[Real(Loaded, Spec)].text
           /\ files' = [p \in Listed(Loaded) |-> FileAt(Loaded, p)]
           /\ IF from = "kit" THEN Return("artifact")
              ELSE pc' = "materialize" /\ UNCHANGED result
           /\ NoFault
  <2>1. Loaded = Tree /\ IsKit(Tree)
    BY <1>0, LoadedIsTree, TreeIsKit
  <2>2. /\ \A p \in Listed(Tree) : Resolves(Tree, p)
        /\ read' = Document(Tree)
        /\ files' = [p \in Listed(Tree) |-> FileAt(Tree, p)]
    BY <1>2, <2>1 DEF Document
  <2>3. Listed(Tree) \subseteq Paths
    BY DEF Listed
  <2>4. \A p \in Listed(Tree) :
           /\ files'[p].at = Real(Tree, p) /\ files'[p].mode = FileAt(Tree, p).mode
           /\ files'[p].text = None
           /\ DOMAIN files'[p] = {"at", "mode", "text"}
    BY <2>2 DEF FileAt
  <2>5. \A p \in Listed(Tree) : FileAt(Tree, p).mode \in Modes \cup {None}
    <3> SUFFICES ASSUME NEW p \in Listed(Tree) PROVE FileAt(Tree, p).mode \in Modes \cup {None}
      OBVIOUS
    <3>1. FileAt(Tree, p).mode = IF IsKind(Tree, Real(Tree, p), "other") THEN None
                                 ELSE Tree[Real(Tree, p)].mode
      BY DEF FileAt
    <3>2. \/ IsKind(Tree, Real(Tree, p), "other")
          \/ Tree[Real(Tree, p)].mode \in Modes
      BY <2>1, <2>2, FileLeadsTo
    <3> QED
      BY <3>1, <3>2
  <2>6. \A p \in Listed(Tree) : ArtifactFile(files'[p])
    BY <2>1, <2>2, <2>4, <2>5, FileLeadsTo DEF ArtifactFile
  <2>7. read' \in Documents
    BY <2>1, <2>2, SpecIsRead
  <2>8. \/ from = "kit" /\ pc' = "done" /\ result' = "artifact"
        \/ from = "staging" /\ pc' = "materialize" /\ result' = "none"
    BY <1>0, <1>2 DEF Return, LoadInv, TypeOK
  <2>9. TypeOK'
    <3>1. DOMAIN files' = Listed(Tree)
      BY <2>2
    <3>2. DOMAIN files' \subseteq Paths /\ pending' \subseteq DOMAIN files'
      BY <1>0, <2>3, <3>1
    <3>3. \A p \in DOMAIN files' : ArtifactFile(files'[p])
      BY <2>6, <3>1
    <3>4. pc' \in {"load", "materialize"} /\ from' = "staging" =>
             \A p \in Paths : staging'[p] = None <=> kit'[p] = None \/ IsKind(kit', p, "other")
      BY <1>0 DEF LoadInv, TypeOK
    <3>5. faults' \in 0 .. MaxFaults /\ IsTree(kit') /\ IsTree(staging')
      BY <1>0, <1>2 DEF LoadInv, TypeOK, NoFault
    <3>6. next' \in 0 .. Len(Order) + 1 /\ from' \in {"kit", "staging"}
      BY <1>0 DEF LoadInv, TypeOK
    <3>7. \A f : ArtifactFile(f)' = ArtifactFile(f)
      BY DEF ArtifactFile
    <3> QED
      BY <2>7, <2>8, <3>2, <3>3, <3>4, <3>5, <3>6, <3>7 DEF TypeOK
  <2>10. Origin'
    BY <1>0, <2>8, SameExpansion DEF LoadInv, Origin, Opened
  <2>11. Progress'
    <3>1. \A p : Expanded(p)' = Expanded(p)
      BY <1>0, SameExpansion
    <3>2. [p \in Paths |-> Expanded(p)]' = [p \in Paths |-> Expanded(p)]
      BY <3>1
    <3>3. from = "staging" => staging = [p \in Paths |-> Expanded(p)]
      BY <1>0 DEF LoadInv, Progress
    <3>4. Accepted' /\ (from = "kit" => ~Substitutes')
      BY <1>0, SameExpansion DEF LoadInv, Progress
    <3>5. (staging = [p \in Paths |-> staging[p]])'
      BY <1>0 DEF LoadInv, Progress
    <3> QED
      BY <1>0, <2>8, <3>2, <3>3, <3>4, <3>5 DEF Progress
  <2>12. Found'
    <3>1. Tree' = Tree /\ \A p \in Listed(Tree) : Resolves(Tree, p)'
      <4>1. Tree' = Tree /\ \A tree, p : Resolves(tree, p)' = Resolves(tree, p)
        BY <1>0, SameFind
      <4>2. \A p \in Listed(Tree) : Resolves(Tree, p)' = Resolves(Tree, p)
        BY <1>0, <4>1 DEF Resolves
      <4> QED
        BY <2>2, <4>1, <4>2
    <3>2. DOMAIN files' = Listed(Tree)
      BY <2>2
    <3>3. result' # "none" /\ from' = "staging" => FALSE
      BY <1>0, <2>8
    <3> QED
      BY <2>2, <2>4, <3>1, <3>2, <3>3 DEF Found
  <2>13. Gathered'
    BY <1>0, <2>8, <2>12 DEF Gathered
  <2> QED
    BY <2>9, <2>10, <2>11, <2>13 DEF LoadInv
<1> QED
  BY <1>0, <1>1, <1>2 DEF OpenFromDirectory

LEMMA MaterializeStep ==
    ASSUME LoadInv, StagingInv, Materialize
    PROVE  LoadInv'
<1>0. /\ pc = "materialize" /\ from = "staging" /\ result = "none" /\ Found
      /\ \A p \in pending : IsKind(staging, files[p].at, "file")
      /\ UNCHANGED <<call, kit, staging, next, from, read>>
  BY DEF Materialize, LoadInv, Gathered
<1>1. staging = Tree /\ IsKit(staging)
  <2>1. Loaded = Tree /\ IsKit(Tree)
    BY <1>0, LoadedIsTree, TreeIsKit
  <2> QED
    BY <1>0, <2>1 DEF Loaded
<1>2. Tree' = Tree /\ \A tree, p : Resolves(tree, p)' = Resolves(tree, p)
  BY <1>0, SameFind
<1>3. Accepted' /\ staging' = [p \in Paths |-> staging'[p]]
      /\ (staging = [p \in Paths |-> Expanded(p)])'
  <2>1. \A p : Expanded(p)' = Expanded(p)
    BY <1>0, SameExpansion
  <2>2. [p \in Paths |-> Expanded(p)]' = [p \in Paths |-> Expanded(p)]
    BY <2>1
  <2>3. staging = [p \in Paths |-> Expanded(p)] /\ Accepted
    BY <1>0 DEF LoadInv, Progress
  <2>4. staging = [p \in Paths |-> staging[p]]
    BY <1>0 DEF LoadInv, Progress
  <2>5. Accepted'
    BY <1>0, <2>3, SameExpansion
  <2> QED
    BY <1>0, <2>2, <2>3, <2>4, <2>5
<1>4. CASE /\ pending = DOMAIN files
           /\ files' = [p \in DOMAIN files |-> [files[p] EXCEPT !.text = staging[files[p].at].text]]
           /\ pending' = {} /\ NoFault /\ Return("artifact")
  <2>1. pc' = "remove" /\ result' = "artifact"
    BY <1>0, <1>4 DEF Return
  <2>2. ASSUME NEW p \in DOMAIN files
        PROVE  /\ ArtifactFile(files'[p])
               /\ files'[p].at = files[p].at /\ files'[p].mode = files[p].mode
               /\ files'[p].text = staging[files[p].at].text
    <3> DEFINE text == staging[files[p].at].text
               f == files[p]
    <3>1. ArtifactFile(f) /\ f.at \in Paths
      BY DEF LoadInv, TypeOK, ArtifactFile
    <3>2. IsKind(staging, f.at, "file")
      BY <1>0, <1>4
    <3>3. staging[f.at] \in Nodes(f.at) /\ staging[f.at].kind = "file"
      BY <1>1, <3>1, <3>2, KitNodes DEF IsKit
    <3>4. text \in Text \cup Documents
      BY <3>1, <3>3, NodeFields
    <3>5. files'[p] = [f EXCEPT !.text = text]
      BY <1>4
    <3> HIDE DEF text, f
    <3>6. DOMAIN f = {"at", "mode", "text"}
      BY <3>1 DEF ArtifactFile
    <3>7. /\ DOMAIN files'[p] = {"at", "mode", "text"}
          /\ files'[p].at = f.at /\ files'[p].mode = f.mode /\ files'[p].text = text
      BY <3>5, <3>6
    <3>8. ArtifactFile(files'[p])
      BY <3>1, <3>4, <3>7 DEF ArtifactFile
    <3> QED
      BY <3>7, <3>8 DEF text, f
  <2>3. DOMAIN files' = DOMAIN files
    BY <1>4
  <2>4. TypeOK'
    <3>1. \A f : ArtifactFile(f)' = ArtifactFile(f)
      BY DEF ArtifactFile
    <3>2. DOMAIN files' \subseteq Paths /\ \A p \in DOMAIN files' : ArtifactFile(files'[p])
      BY <2>2, <2>3, <3>1 DEF LoadInv, TypeOK
    <3>3. IsTree(kit') /\ IsTree(staging') /\ faults' \in 0 .. MaxFaults
      BY <1>0, <1>4 DEF LoadInv, TypeOK, NoFault
    <3>4. next' \in 0 .. Len(Order) + 1 /\ (read' = None \/ read' \in Documents)
      BY <1>0 DEF LoadInv, TypeOK
    <3> QED
      BY <1>0, <1>4, <2>1, <3>2, <3>3, <3>4 DEF TypeOK
  <2>5. Origin'
    BY <1>0, <2>1, SameExpansion DEF LoadInv, Origin, Opened
  <2>6. Progress'
    BY <1>0, <1>3, <2>1 DEF Progress
  <2>7. Found'
    <3>1. /\ read' = Document(Tree') /\ DOMAIN files' = Listed(Tree')
          /\ \A p \in Listed(Tree') : Resolves(Tree', p)
      <4>1. /\ read = Document(Tree) /\ DOMAIN files = Listed(Tree)
            /\ \A p \in Listed(Tree) : Resolves(Tree, p)
        BY <1>0 DEF Found
      <4> QED
        BY <1>0, <1>2, <2>3, <4>1
    <3>2. \A p \in Listed(Tree') : Resolves(Tree, p)'
      BY <1>0, <1>2, <3>1
    <3>3. ASSUME NEW p \in DOMAIN files'
          PROVE  /\ files'[p].at = Real(Tree', p) /\ files'[p].mode = FileAt(Tree', p).mode
                 /\ IsKind(Tree', files'[p].at, "file")
                 /\ files'[p].text = Tree'[files'[p].at].text
      <4>1. p \in DOMAIN files
        BY <2>3
      <4>2. files[p].at = Real(Tree, p) /\ files[p].mode = FileAt(Tree, p).mode
        BY <1>0, <4>1 DEF Found
      <4>3. IsKind(staging, files[p].at, "file")
        BY <1>0, <1>4, <4>1
      <4> QED
        BY <1>1, <1>2, <2>2, <4>1, <4>2, <4>3
    <3> QED
      BY <1>0, <2>1, <3>1, <3>2, <3>3 DEF Found
  <2>8. Gathered'
    BY <1>0, <1>4, <2>1, <2>7 DEF Gathered
  <2> QED
    BY <2>4, <2>5, <2>6, <2>8 DEF LoadInv
<1>5. ASSUME NEW p \in DOMAIN files \ pending, IsKind(staging, files[p].at, "file"),
             pending' = pending \cup {p}, NoFault, UNCHANGED <<pc, result, files>>
      PROVE  LoadInv'
  <2>1. TypeOK'
    <3>1. pending' \subseteq DOMAIN files'
      BY <1>5 DEF LoadInv, TypeOK
    <3>2. IsTree(kit') /\ IsTree(staging') /\ faults' \in 0 .. MaxFaults
      BY <1>0, <1>5 DEF LoadInv, TypeOK, NoFault
    <3> QED
      BY <1>0, <1>5, <3>1, <3>2 DEF LoadInv, TypeOK, ArtifactFile
  <2>2. Origin'
    BY <1>0, <1>5, SameExpansion DEF LoadInv, Origin, Opened
  <2>3. Progress'
    BY <1>0, <1>3, <1>5 DEF Progress
  <2>4. Found'
    BY <1>0, <1>5, SameFound
  <2>5. \A q \in pending' : IsKind(staging', files'[q].at, "file")
    BY <1>0, <1>5
  <2>6. Gathered'
    BY <1>0, <1>5, <2>4, <2>5 DEF Gathered
  <2> QED
    BY <2>1, <2>2, <2>3, <2>6 DEF LoadInv
<1>6. CASE Return("error") /\ (NoFault \/ Fault) /\ UNCHANGED <<files, pending>>
  BY <1>0, <1>6, ErrorStep
<1> QED
  BY <1>4, <1>5, <1>6 DEF Materialize

LEMMA RemoveStagingStep ==
    ASSUME LoadInv, StagingInv, RemoveStaging
    PROVE  LoadInv'
<1>0. /\ pc = "remove" /\ pc' = "done" /\ staging' = Empty
      /\ UNCHANGED <<call, kit, next, from, read, files, pending, faults, result>>
  BY WidenedIsRemoved DEF RemoveStaging, StagingInv
<1>1. TypeOK'
  <2>1. IsTree(staging')
    BY <1>0 DEF IsTree, Empty
  <2> QED
    BY <1>0, <2>1 DEF LoadInv, TypeOK, ArtifactFile
<1>2. Origin'
  BY <1>0, SameExpansion DEF LoadInv, Origin, Opened
<1>3. Progress'
  BY <1>0, SameExpansion DEF LoadInv, Progress, Empty
<1>4. Gathered'
  BY <1>0, SameFound DEF LoadInv, Gathered
<1> QED
  BY <1>1, <1>2, <1>3, <1>4 DEF LoadInv

LEMMA LoadInvStep ==
    ASSUME LoadInv, StagingInv, [SuiteNext]_vars
    PROVE  LoadInv'
<1>1. CASE LoadKit
  BY <1>1, RenameSpecStep, ExpandKitStep, WriteEntryStep, NarrowEntryStep, OpenCopyStep,
     OpenFromDirectoryStep, MaterializeStep, RemoveStagingStep DEF LoadKit, Load
<1>2. CASE ~LoadKit
  <2>1. StillLoaded /\ (Fault \/ NoFault)
    BY <1>2 DEF SuiteNext, vars, loading, StillLoaded, NewSuite, RunPureTest, StartContainer,
                InjectFile, WriteInitFile, InstallExecution, AssertEnvVars, AssertFiles,
                AssertTmpfs, RunMerge, CleanupContainer, StartAgain, NoFault
  <2> QED
    BY <2>1, LoadStays
<1> QED
  BY <1>1, <1>2

(* LoadInv is an invariant.                                                *)
LEMMA LoadFacts == Testing => [](LoadInv /\ StagingInv)
<1>1. SuiteInit => LoadInv /\ StagingInv
  BY LoadInvInit, StagingInvInit
<1>2. LoadInv /\ StagingInv /\ [SuiteNext]_vars => LoadInv' /\ StagingInv'
  BY LoadInvStep, StagingInvStep
<1> QED
  BY <1>1, <1>2, PTL DEF Testing

-----------------------------------------------------------------------------
(* What is loaded is what the author wrote, with its references replaced.  *)

(* A copy is the author's tree but for its spec and what cannot be copied. *)
LEMMA CopiedNodes ==
    ASSUME call \in Calls, Renamable(Document(call.tree))
    PROVE  /\ Spec \in Paths
           /\ Copied(Spec).kind = "file" /\ Copied(Spec) # None
           /\ Copied(Spec).text = renamedSpec(Document(call.tree), NewName)
           /\ \A p \in Paths : p # Spec =>
                 Copied(p) = IF IsKind(call.tree, p, "other") THEN None ELSE call.tree[p]
<1> DEFINE m == call.tree[Real(call.tree, Spec)].mode
           text == renamedSpec(Document(call.tree), NewName)
<1>0. IsKit(call.tree) /\ Spec \in Paths
  BY KitsHaveSpecs, StagedKitAssumption DEF IsKit
<1>1. m \in Modes /\ text \in Documents
  BY <1>0, SpecIsRead, RenamedDocument
<1>2. Copied(Spec) = [kind |-> "file", mode |-> m, text |-> text]
  BY Zenon DEF Copied
<1>3. ASSUME NEW p \in Paths, p # Spec
      PROVE  Copied(p) = IF IsKind(call.tree, p, "other") THEN None ELSE call.tree[p]
  BY <1>3, Zenon DEF Copied
<1> HIDE DEF m, text
<1>4. Copied(Spec).kind = "file" /\ Copied(Spec) # None /\ Copied(Spec).text = text
  BY <1>1, <1>2, SpecIsFile
<1> QED
  BY <1>0, <1>3, <1>4 DEF text

(* The kit that is opened is the author's, under the name it is opened by. *)
LEMMA OpenedIsWritten ==
    ASSUME LoadInv, Opened
    PROVE  /\ Document(kit) = Written /\ Written \in Documents
           /\ \A p \in Paths : p # Spec =>
                 kit[p] = IF IsKind(call.tree, p, "other") /\ call.copied THEN None
                          ELSE call.tree[p]
<1>0. call \in Calls /\ IsKit(kit) /\ call.copied \in BOOLEAN
  BY KitsHaveSpecs DEF LoadInv, Origin
<1>1. CASE call.copied
  <2>1. Renamable(Document(call.tree)) /\ \A p \in Paths : kit[p] = Copied(p)
    BY <1>1 DEF LoadInv, Origin
  <2>2. IsKind(kit, Spec, "file") /\ kit[Spec].text = renamedSpec(Document(call.tree), NewName)
    BY <1>0, <2>1, CopiedNodes DEF IsKind
  <2>3. Real(kit, Spec) = Spec
    BY <2>2 DEF Real, IsKind
  <2>4. Document(kit) = Written
    BY <1>1, <2>2, <2>3 DEF Document, Written
  <2>5. Written \in Documents
    BY <1>0, <2>4, SpecIsRead
  <2> QED
    BY <1>0, <1>1, <2>1, <2>4, <2>5, CopiedNodes
<1>2. CASE ~call.copied
  <2>1. kit = call.tree
    BY <1>2 DEF LoadInv, Origin
  <2>2. Document(kit) = Written
    BY <1>2, <2>1 DEF Written
  <2> QED
    BY <1>0, <1>2, <2>1, <2>2, SpecIsRead
<1> QED
  BY <1>0, <1>1, <1>2

(* What the author wrote under files/ is what there is to expand.          *)
LEMMA AuthoredIsOpened ==
    ASSUME LoadInv, Opened, NEW p \in AuthoredFiles
    PROVE  /\ p \in Paths /\ p # Spec /\ p \notin Specs /\ p \in Expandable /\ In(p, Files)
           /\ kit[p] = call.tree[p] /\ kit[p] \in Nodes(p) /\ kit[p] # None
           /\ kit[p].kind = "file" /\ kit[p].text \in Text /\ kit[p].mode \in Modes
<1>1. p \in Paths /\ p # Spec /\ In(p, Files) /\ IsKind(call.tree, p, "file")
  BY DEF AuthoredFiles
<1>2. ~IsKind(call.tree, p, "other")
  BY <1>1 DEF IsKind
<1>3. kit[p] = call.tree[p]
  BY <1>1, <1>2, OpenedIsWritten
<1>4. IsKind(kit, p, "file") /\ IsTree(kit)
  BY <1>1, <1>3 DEF IsKind, LoadInv, TypeOK
<1>5. p \notin Specs
  BY <1>1, StagedKitAssumption DEF In
<1>6. kit[p] \in Nodes(p) /\ kit[p].kind = "file" /\ kit[p] # None
  BY <1>1, <1>4, KitNodes DEF IsKind
<1>7. kit[p].text \in Text /\ kit[p].mode \in Modes
  BY <1>1, <1>5, <1>6, NodeFields
<1> QED
  BY <1>1, <1>3, <1>4, <1>5, <1>6, <1>7 DEF Expandable

(* What is loaded has every reference replaced, wherever it is loaded      *)
(* from: a kit that is loaded where it is has none that makes a            *)
(* difference.                                                             *)
LEMMA TreeIsExpanded ==
    ASSUME LoadInv, pc = "load" \/ pc = "materialize" \/ result = "artifact"
    PROVE  /\ Document(Tree) = expandSpecDocument(Document(kit), Values)
           /\ \A p \in Expandable : p # Spec =>
                 /\ Tree[p] # None /\ Tree[p].kind = "file" /\ Tree[p].mode = kit[p].mode
                 /\ Tree[p].text = scanArgs(kit[p].text, Values).out
<1>0. call \in Calls /\ IsKit(kit) /\ Accepted
  BY DEF LoadInv, Origin, Progress
<1>1. Texts(Values) /\ Spec \in Paths
  BY <1>0, AcceptedTexts, StagedKitAssumption
<1>2. CASE from = "kit"
  <2>1. ~Substitutes
    BY <1>2 DEF LoadInv, Progress, Gathered
  <2>2. Tree = kit
    BY <1>2 DEF Tree
  <2>3. \A p \in Expandable : kit[p] # None /\ kit[p].kind = "file"
    BY DEF Expandable, IsKind
  <2> QED
    BY <2>1, <2>2, <2>3 DEF Substitutes
<1>3. CASE from # "kit"
  <2>1. Tree = [p \in Paths |-> Expanded(p)]
    BY <1>3 DEF Tree
  <2>2. Tree[Spec] = Expanded(Spec)
    BY <1>1, <2>1
  <2>3. /\ Tree[Spec] # None /\ Tree[Spec].kind = "file"
        /\ Tree[Spec].text = expandSpecDocument(Document(kit), Values)
    BY <1>0, <1>1, <2>2, ExpandedNodes
  <2>4. Real(Tree, Spec) = Spec
    BY <2>3 DEF Real, IsKind
  <2>5. \A p \in Expandable : p \in Paths
    BY DEF Expandable
  <2>6. \A p \in Expandable : Tree[p] = Expanded(p)
    BY <2>1, <2>5
  <2>7. ASSUME NEW p \in Expandable, p # Spec
        PROVE  /\ Tree[p] # None /\ Tree[p].kind = "file" /\ Tree[p].mode = kit[p].mode
               /\ Tree[p].text = scanArgs(kit[p].text, Values).out
    BY <1>0, <1>1, <2>5, <2>6, <2>7, ExpandedNodes
  <2> QED
    BY <2>3, <2>4, <2>7 DEF Document
<1> QED
  BY <1>2, <1>3

(* What a file of an artifact holds is what the tree it was found in has.  *)
LEMMA ContentIsFound ==
    ASSUME LoadInv, pc = "done", result = "artifact", NEW p \in DOMAIN files
    PROVE  /\ from = "kit" => Content(files[p]) = IF kit[files[p].at] = None THEN None
                                                  ELSE kit[files[p].at].text
           /\ from = "staging" => /\ IsKind(Tree, files[p].at, "file")
                                  /\ Content(files[p]) = Tree[files[p].at].text
                                  /\ files[p].text = Tree[files[p].at].text
           /\ files[p].at = Real(Tree, p) /\ files[p].at \in Paths
<1>1. Found /\ from \in {"kit", "staging"} /\ files[p].at \in Paths
  BY DEF LoadInv, Gathered, TypeOK, ArtifactFile
<1>2. CASE from = "kit"
  <2>1. files[p].text = None /\ Loaded = kit
    BY <1>1, <1>2 DEF Found, Loaded
  <2> QED
    BY <1>1, <1>2, <2>1 DEF Content, Found
<1>3. CASE from = "staging"
  <2> DEFINE to == files[p].at
  <2>1. IsKind(Tree, to, "file") /\ files[p].text = Tree[to].text
    BY <1>1, <1>3 DEF Found
  <2>2. Tree[to] \in Nodes(to) /\ Tree[to].kind = "file"
    BY <1>1, <2>1, TreeIsKit, KitNodes DEF IsKit
  <2>3. Tree[to].text \in Text \cup Documents
    BY <1>1, <2>2, NodeFields
  <2>4. files[p].text # None
    BY <2>1, <2>3, NoneIsNothing
  <2> QED
    BY <1>1, <1>3, <2>1, <2>4 DEF Content, Found
<1> QED
  BY <1>1, <1>2, <1>3

LEMMA AuthoredText ==
    ASSUME LoadInv, pc \in {"load", "materialize"} \/ result = "artifact", NEW p \in AuthoredFiles
    PROVE  /\ p \in Paths /\ Legal(call.tree[p].text, Values)
           /\ Tree[p] # None /\ Tree[p].kind = "file" /\ Tree[p].mode = call.tree[p].mode
           /\ Tree[p].text = Substituted(call.tree[p].text, Values)
           /\ kit[p] # None
<1> DEFINE text == call.tree[p].text
<1>0. /\ p \in Paths /\ p # Spec /\ p \in Expandable /\ kit[p] = call.tree[p]
      /\ text \in Text /\ kit[p].kind = "file" /\ kit[p] # None
  BY AuthoredIsOpened DEF Opened
<1>1. Accepted /\ call \in Calls
  BY DEF LoadInv, Progress, Origin
<1>2. Texts(Values)
  BY <1>1, AcceptedTexts
<1>3. ~Refused(text, Values)
  BY <1>0, <1>1 DEF Accepted
<1>4. Legal(text, Values) /\ scanArgs(text, Values).out = Substituted(text, Values)
  BY <1>0, <1>2, <1>3, RefusedIffIllegal, LegalIsSubstituted
<1>5. /\ Tree[p] # None /\ Tree[p].kind = "file" /\ Tree[p].mode = call.tree[p].mode
      /\ Tree[p].text = Substituted(text, Values)
  BY <1>0, <1>4, TreeIsExpanded
<1> QED
  BY <1>0, <1>4, <1>5

LEMMA AuthoredIsLoaded ==
    ASSUME LoadInv, pc = "done", result = "artifact", NEW p \in AuthoredFiles
    PROVE  /\ Legal(call.tree[p].text, Values)
           /\ In(p, Home) =>
                 /\ p \in DOMAIN files /\ files[p].at = p
                 /\ files[p].mode = call.tree[p].mode
                 /\ Content(files[p]) = Substituted(call.tree[p].text, Values)
<1> DEFINE text == call.tree[p].text
<1>1. from \in {"kit", "staging"}
  BY DEF LoadInv, TypeOK
<1>2. /\ p \in Paths /\ Legal(text, Values) /\ kit[p] # None
      /\ Tree[p] # None /\ Tree[p].kind = "file" /\ Tree[p].mode = call.tree[p].mode
      /\ Tree[p].text = Substituted(text, Values)
  BY AuthoredText
<1>3. ASSUME In(p, Home)
      PROVE  /\ p \in DOMAIN files /\ files[p].at = p
             /\ files[p].mode = call.tree[p].mode
             /\ Content(files[p]) = Substituted(text, Values)
  <2>1. p \in Listed(Tree)
    BY <1>2, <1>3 DEF Listed, IsKind
  <2>2. Found
    BY DEF LoadInv, Gathered
  <2>3. p \in DOMAIN files /\ files[p].at = Real(Tree, p) /\ files[p].mode = FileAt(Tree, p).mode
    BY <2>1, <2>2 DEF Found
  <2>4. Real(Tree, p) = p
    BY <1>2 DEF Real, IsKind
  <2>5. FileAt(Tree, p).mode = Tree[p].mode
    BY <1>2, <2>4 DEF FileAt, IsKind
  <2>6. CASE from = "kit"
    <3>1. Content(files[p]) = kit[p].text /\ Tree = kit
      BY <1>2, <2>3, <2>4, <2>6, ContentIsFound DEF Tree
    <3> QED
      BY <1>2, <2>3, <2>4, <2>5, <3>1
  <2>7. CASE from = "staging"
    <3>1. Content(files[p]) = Tree[p].text
      BY <2>3, <2>4, <2>7, ContentIsFound
    <3> QED
      BY <1>2, <2>3, <2>4, <2>5, <3>1
  <2> QED
    BY <1>1, <2>6, <2>7
<1> QED
  BY <1>2, <1>3

LEMMA SpecIsLoaded ==
    ASSUME LoadInv, pc = "done", result = "artifact"
    PROVE  /\ DOMAIN read = DOMAIN Written
           /\ \A i \in DOMAIN Written :
                 IF Written[i].key = ArgsKey THEN read[i] = Written[i]
                 ELSE /\ Legal(Written[i].value, Values)
                      /\ read[i] = [Written[i] EXCEPT !.value = Substituted(@, Values)]
<1>0. Document(kit) = Written /\ Written \in Documents
  BY OpenedIsWritten DEF Opened
<1>1. Accepted /\ call \in Calls /\ Found
  BY DEF LoadInv, Progress, Origin, Gathered
<1>2. Texts(Values)
  BY <1>1, AcceptedTexts
<1>3. read = expandSpecDocument(Written, Values)
  BY <1>0, <1>1, TreeIsExpanded DEF Found
<1>4. ~RefusedSpec(Written, Values)
  BY <1>0, <1>1 DEF Accepted
<1> DEFINE doc == Written
<1> HIDE DEF doc
<1>5. doc = Written
  BY DEF doc
<1>6. ASSUME NEW i \in DOMAIN doc
      PROVE  /\ DOMAIN read = DOMAIN doc
             /\ doc[i].key = ArgsKey => read[i] = doc[i]
             /\ doc[i].key # ArgsKey => Legal(doc[i].value, Values)
             /\ doc[i].key # ArgsKey =>
                  read[i] = [doc[i] EXCEPT !.value = Substituted(doc[i].value, Values)]
  <2>1. doc \in Documents /\ doc[i].value \in Text
    BY <1>0, <1>5, EntryFields
  <2>2. /\ DOMAIN read = DOMAIN doc
        /\ doc[i].key = ArgsKey => read[i] = doc[i]
        /\ doc[i].key # ArgsKey =>
              read[i] = [doc[i] EXCEPT !.value = scanArgs(doc[i].value, Values).out]
    BY <1>3, <1>5, <2>1, ExpandedEntry
  <2>3. doc[i].key # ArgsKey => ~Refused(doc[i].value, Values)
    BY <1>4, <1>5 DEF RefusedSpec
  <2>4. doc[i].key # ArgsKey =>
           /\ Legal(doc[i].value, Values)
           /\ scanArgs(doc[i].value, Values).out = Substituted(doc[i].value, Values)
    BY <1>2, <2>1, <2>3, RefusedIffIllegal, LegalIsSubstituted
  <2> QED
    BY <2>2, <2>4
<1>7. DOMAIN read = DOMAIN doc
  BY <1>3, <1>5 DEF expandSpecDocument
<1> DEFINE Replace(entry) == [entry EXCEPT !.value = Substituted(@, Values)]
<1>8. ASSUME NEW entry
      PROVE  Replace(entry) = [entry EXCEPT !.value = Substituted(entry.value, Values)]
  BY Zenon
<1> HIDE DEF Replace
<1>9. ASSUME NEW i \in DOMAIN doc
      PROVE  IF doc[i].key = ArgsKey THEN read[i] = doc[i]
             ELSE Legal(doc[i].value, Values) /\ read[i] = Replace(doc[i])
  BY <1>6, <1>8, Zenon
<1> QED
  BY <1>5, <1>7, <1>9, Zenon DEF Replace

(* An artifact is the author's kit with its references replaced, whatever  *)
(* the kit, its arguments, the modes of its directories and the calls that *)
(* fail, copied under another name or not: the spec, and every file under  *)
(* files/home, by the modes the author gave them (openKitArtifact,         *)
(* tck/args.go, and copyKitRenamed, tck/e2e_rename.go).                    *)
THEOREM LoadedIsAsWritten == Testing => []LoadsAsWritten
<1>1. ASSUME LoadInv PROVE LoadsAsWritten
  <2> SUFFICES ASSUME pc = "done", result = "artifact" PROVE LoadsAsWritten
    BY DEF LoadsAsWritten
  <2>1. /\ DOMAIN read = DOMAIN Written
        /\ \A i \in DOMAIN Written :
              IF Written[i].key = ArgsKey THEN read[i] = Written[i]
              ELSE /\ Legal(Written[i].value, Values)
                   /\ read[i] = [Written[i] EXCEPT !.value = Substituted(@, Values)]
    BY <1>1, SpecIsLoaded, Zenon
  <2>2. \A p \in AuthoredFiles :
           /\ Legal(call.tree[p].text, Values)
           /\ In(p, Home) =>
                 /\ p \in DOMAIN files
                 /\ files[p].mode = call.tree[p].mode
                 /\ Content(files[p]) = Substituted(call.tree[p].text, Values)
    BY <1>1, AuthoredIsLoaded
  <2> QED
    BY <2>1, <2>2, Zenon DEF LoadsAsWritten
<1> QED
  BY <1>1, LoadFacts, PTL

-----------------------------------------------------------------------------
(* The run.  RunInv is what a run that has no failure so far has behind    *)
(* it, of the load, the container and the commands.                        *)

(* What a run that has no failure so far has behind it: a kit that was     *)
(* loaded; install commands that exited zero; the files of the kit, looked *)
(* at after them.                                                          *)
Passing == suite \notin {"load", "ended"} \/ (suite = "ended" /\ failed = {})
Inspected == suite \in {"tmpfs", "merge", "cleanup", "ended"} /\ failed = {}
Installed == (suite \in {"env", "files"} /\ failed = {}) \/ Inspected

RunTypes ==
    /\ facts = call.facts /\ at \in Nat \ {0} /\ box \in {"none", "up", "removed"}
    /\ suite \in {"pure", "start", "inject"} => image # None
RunLoads == Passing => pc = "done" /\ result = "artifact"

(* What is in the container is of the artifact or was put there by the     *)
(* spec's commands.                                                        *)
Shipped ==
    /\ suite \in {"load", "pure", "start"} => inside = <<>>
    /\ \A p \in DOMAIN inside :
          /\ inside[p] \in Text \cup Documents
          /\ p \in DOMAIN files \ Replaced => inside[p] = Content(files[p])
Executed ==
    /\ suite = "install" /\ failed = {} =>
          \A i \in DOMAIN facts.installs : i < at => facts.installs[i].ok
    /\ Installed /\ ~facts.short => \A i \in DOMAIN facts.installs : facts.installs[i].ok
Looked == Inspected => \A p \in Expected : p \in DOMAIN inside /\ ~ZeroLength(inside[p])

RunInv == RunTypes /\ RunLoads /\ Shipped /\ Executed /\ Looked

LEMMA SuiteSteps ==
    ASSUME [SuiteNext]_vars
    PROVE  \/ LoadKit \/ NewSuite \/ RunPureTest \/ StartContainer \/ InjectFile \/ WriteInitFile
           \/ InstallExecution \/ AssertEnvVars \/ AssertFiles \/ AssertTmpfs \/ RunMerge
           \/ CleanupContainer \/ (UNCHANGED testing /\ StillLoaded)
<1>1. CASE SuiteNext
  <2>1. StartAgain => UNCHANGED testing /\ StillLoaded
    BY Zenon DEF StartAgain
  <2> QED
    BY <1>1, <2>1 DEF SuiteNext
<1>2. CASE UNCHANGED vars
  BY <1>2 DEF vars, StillLoaded, loading
<1> QED
  BY <1>1, <1>2

(* What the suite goes by does not change: the load when it is over, what  *)
(* was loaded and the spec decoded always.                                 *)
LEMMA CallStays ==
    ASSUME [SuiteNext]_vars
    PROVE  call' = call /\ facts' = facts
<1>1. facts' = facts
  BY FactsStay
<1>2. CASE LoadKit
  BY <1>1, <1>2 DEF LoadKit, Load, RenameSpec, OpenCopy, ExpandKit, WriteEntry, NarrowEntry,
        OpenFromDirectory, Materialize, RemoveStaging
<1>3. CASE ~LoadKit
  BY <1>1, <1>3, SuiteSteps DEF NewSuite, RunPureTest, StartContainer, InjectFile, WriteInitFile,
        InstallExecution, AssertEnvVars, AssertFiles, AssertTmpfs, RunMerge, CleanupContainer,
        StillLoaded
<1> QED
  BY <1>2, <1>3

LEMMA LoadOrNot ==
    ASSUME [SuiteNext]_vars
    PROVE  LoadKit \/ StillLoaded
BY SuiteSteps DEF NewSuite, RunPureTest, StartContainer, InjectFile, WriteInitFile,
        InstallExecution, AssertEnvVars, AssertFiles, AssertTmpfs, RunMerge, CleanupContainer

LEMMA SameFiles ==
    ASSUME StillLoaded, facts' = facts
    PROVE  /\ InitFiles' = InitFiles /\ Expected' = Expected /\ Replaced' = Replaced
           /\ \A f : Content(f)' = Content(f) /\ Readable(f)' = Readable(f)
<1>1. UNCHANGED <<kit, staging, from, files>>
  BY DEF StillLoaded
<1>2. InitFiles' = InitFiles
  BY DEF InitFiles
<1>3. Expected' = Expected /\ Replaced' = Replaced
  BY <1>1, <1>2 DEF Expected, Replaced
<1>4. Loaded' = Loaded
  BY <1>1 DEF Loaded
<1> QED
  BY <1>2, <1>3, <1>4 DEF Content, Readable, IsKind

LEMMA RunTypesStep ==
    ASSUME RunTypes, SuiteInv, [SuiteNext]_vars
    PROVE  RunTypes'
<1>0. call' = call /\ facts' = facts /\ facts = call.facts
  BY CallStays DEF RunTypes
<1>1. at' \in Nat \ {0}
  BY SuiteSteps DEF RunTypes, LoadKit, NewSuite, RunPureTest, StartContainer, InjectFile,
        WriteInitFile, InstallExecution, AssertEnvVars, AssertFiles, AssertTmpfs, RunMerge,
        CleanupContainer, testing
<1>2. box' \in {"none", "up", "removed"}
  BY SuiteSteps DEF RunTypes, LoadKit, NewSuite, RunPureTest, StartContainer, InjectFile,
        WriteInitFile, InstallExecution, AssertEnvVars, AssertFiles, AssertTmpfs, RunMerge,
        CleanupContainer, testing
<1>3. suite' \in {"pure", "start", "inject"} => image' # None
  BY SuiteSteps DEF RunTypes, LoadKit, NewSuite, RunPureTest, StartContainer, InjectFile,
        WriteInitFile, InstallExecution, AssertEnvVars, AssertFiles, AssertTmpfs, RunMerge,
        CleanupContainer, testing, Goto
<1> QED
  BY <1>0, <1>1, <1>2, <1>3 DEF RunTypes

LEMMA RunLoadsStep ==
    ASSUME RunLoads, SuiteInv, LoadInv, [SuiteNext]_vars
    PROVE  RunLoads'
<1>1. CASE LoadKit
  <2>1. suite' = "load"
    BY <1>1 DEF LoadKit, testing
  <2> QED
    BY <2>1 DEF RunLoads, Passing
<1>2. CASE NewSuite
  <2>1. pc = "done" /\ UNCHANGED <<pc, result>>
    BY <1>2 DEF NewSuite, StillLoaded
  <2>2. result \in {"none", "artifact", "error"} /\ result # "none"
    BY <2>1 DEF LoadInv, TypeOK, Gathered
  <2>3. result = "error" => suite' = "ended" /\ failed' = failed \cup {"load"}
    BY <1>2 DEF NewSuite, Fails
  <2> QED
    BY <2>1, <2>2, <2>3 DEF RunLoads, Passing
<1>3. CASE ~LoadKit /\ ~NewSuite
  <2>1. StillLoaded
    BY <1>3, LoadOrNot
  <2>2. Passing' => Passing
    BY <1>3, SuiteSteps DEF Passing, RunPureTest, StartContainer, InjectFile,
        WriteInitFile, InstallExecution, AssertEnvVars, AssertFiles, AssertTmpfs, RunMerge,
        CleanupContainer, testing, Goto, Fails
  <2> QED
    BY <2>1, <2>2 DEF RunLoads, StillLoaded
<1> QED
  BY <1>1, <1>2, <1>3

LEMMA Commands ==
    ASSUME call \in Calls, facts = call.facts
    PROVE  /\ Len(facts.initFiles) \in Nat /\ DOMAIN facts.initFiles = 1 .. Len(facts.initFiles)
           /\ Len(facts.installs) \in Nat /\ DOMAIN facts.installs = 1 .. Len(facts.installs)
           /\ \A i \in DOMAIN facts.initFiles :
                 facts.initFiles[i].path # None /\ facts.initFiles[i].content \in Text
BY SpecsListCommands

(* What is read of a file is a text, or a spec that a link leads to.       *)
LEMMA ContentIsText ==
    ASSUME TypeOK, NEW p \in DOMAIN files, Readable(files[p])
    PROVE  Content(files[p]) \in Text \cup Documents
<1> DEFINE f == files[p]
<1>0. ArtifactFile(f) /\ IsTree(Loaded)
  BY DEF TypeOK, Loaded
<1>1. CASE f.text # None
  BY <1>0, <1>1 DEF ArtifactFile, Content
<1>2. CASE f.text = None
  <2>1. IsKind(Loaded, f.at, "file") /\ f.at \in Paths
    BY <1>0, <1>2 DEF Readable, ArtifactFile
  <2>2. Loaded[f.at] \in Nodes(f.at) /\ Loaded[f.at].kind = "file" /\ Loaded[f.at] # None
    BY <1>0, <2>1, KitNodes DEF IsKind
  <2>3. Loaded[f.at].text \in Text \cup Documents
    BY <2>1, <2>2, NodeFields
  <2>4. Content(f) = Loaded[f.at].text
    BY <1>2, <2>2 DEF Content
  <2> QED
    BY <2>3, <2>4
<1> QED
  BY <1>1, <1>2

LEMMA PutIn ==
    ASSUME NEW p, NEW text, Put(p, text)
    PROVE  /\ DOMAIN inside' = DOMAIN inside \cup {p} /\ inside'[p] = text
           /\ \A q \in DOMAIN inside : q # p => inside'[q] = inside[q]
BY DEF Put

LEMMA ShippedStep ==
    ASSUME Shipped, RunTypes, SuiteInv, LoadInv, [SuiteNext]_vars
    PROVE  Shipped'
<1>0. call' = call /\ facts' = facts /\ facts = call.facts /\ call \in Calls /\ at \in Nat \ {0}
  BY CallStays DEF RunTypes, LoadInv, Origin
<1>1. CASE LoadKit
  <2>1. suite = "load" /\ suite' = "load" /\ inside' = inside
    BY <1>1 DEF LoadKit, testing
  <2>2. inside' = <<>>
    BY <2>1 DEF Shipped
  <2> QED
    BY <2>2 DEF Shipped
<1> DEFINE Good(q, text) == /\ text \in Text \cup Documents
                            /\ q \in DOMAIN files \ Replaced => text = Content(files[q])
<1>2. ASSUME StillLoaded, \A q \in DOMAIN inside' : Good(q, inside'[q]),
             suite' \in {"load", "pure", "start"} => inside' = <<>>
      PROVE  Shipped'
  <2>1. files' = files /\ Replaced' = Replaced /\ \A f : Content(f)' = Content(f)
    BY <1>0, <1>2, SameFiles DEF StillLoaded
  <2>2. ASSUME NEW q \in DOMAIN inside'
        PROVE  /\ inside'[q] \in Text \cup Documents
               /\ q \in DOMAIN files' \ Replaced' => inside'[q] = Content(files[q])'
    BY <1>2, <2>1
  <2>3. suite' \in {"load", "pure", "start"} => inside' = <<>>
    BY <1>2
  <2> QED
    BY <2>2, <2>3, Zenon DEF Shipped
<1>3. \A q \in DOMAIN inside : Good(q, inside[q])
  BY DEF Shipped
<1>4. CASE InjectFile
  <2>1. StillLoaded /\ suite' \notin {"load", "pure", "start"}
    BY <1>4 DEF InjectFile, Goto
  <2>2. CASE inside' = inside
    BY <1>2, <1>3, <2>1, <2>2
  <2>3. CASE \E p \in DOMAIN files \ Injected : Readable(files[p]) /\ Put(p, Content(files[p]))
    <3>1. PICK p \in DOMAIN files \ Injected : Readable(files[p]) /\ Put(p, Content(files[p]))
      BY <2>3
    <3>2. Good(p, Content(files[p]))
      BY <3>1, ContentIsText DEF LoadInv
    <3> DEFINE text == Content(files[p])
    <3> HIDE DEF text, Good
    <3>3. /\ DOMAIN inside' = DOMAIN inside \cup {p} /\ inside'[p] = text
          /\ \A q \in DOMAIN inside : q # p => inside'[q] = inside[q]
      BY <3>1, PutIn DEF text
    <3>4. \A q \in DOMAIN inside' : Good(q, inside'[q])
      BY <1>3, <3>2, <3>3 DEF text
    <3> QED
      BY <1>2, <2>1, <3>4
  <2> QED
    BY <1>4, <2>2, <2>3 DEF InjectFile
<1>5. CASE WriteInitFile
  <2>1. StillLoaded /\ suite' \notin {"load", "pure", "start"}
    BY <1>5 DEF WriteInitFile, Goto
  <2>2. CASE inside' = inside
    BY <1>2, <1>3, <2>1, <2>2
  <2>3. CASE /\ at <= Len(facts.initFiles)
             /\ Put(facts.initFiles[at].path, facts.initFiles[at].content)
    <3>1. at \in DOMAIN facts.initFiles
      BY <1>0, <2>3, Commands
    <3>2. facts.initFiles[at].path \in Replaced /\ facts.initFiles[at].content \in Text
      BY <1>0, <3>1, Commands DEF Replaced, InitFiles
    <3> DEFINE p == facts.initFiles[at].path
               text == facts.initFiles[at].content
    <3> HIDE DEF p, text
    <3>3. /\ DOMAIN inside' = DOMAIN inside \cup {p} /\ inside'[p] = text
          /\ \A q \in DOMAIN inside : q # p => inside'[q] = inside[q]
      BY <2>3, PutIn DEF p, text
    <3>4. Good(p, text)
      BY <3>2 DEF p, text
    <3> HIDE DEF Good
    <3>5. \A q \in DOMAIN inside' : Good(q, inside'[q])
      BY <1>3, <3>3, <3>4
    <3> QED
      BY <1>2, <2>1, <3>5
  <2> QED
    BY <1>5, <2>2, <2>3 DEF WriteInitFile
<1>6. CASE InstallExecution
  <2>1. StillLoaded /\ suite' \notin {"load", "pure", "start"}
    BY <1>6 DEF InstallExecution, Goto
  <2>2. CASE inside' = inside
    BY <1>2, <1>3, <2>1, <2>2
  <2>3. CASE inside' # inside
    <3> DEFINE cmd == facts.installs[at]
    <3>1. /\ ~(at > Len(facts.installs))
          /\ inside' = [p \in DOMAIN inside \ {cmd.removes} |->
                           IF p = cmd.empties THEN <<>> ELSE inside[p]]
      BY <1>6, <2>3 DEF InstallExecution
    <3>2. at \in DOMAIN facts.installs
      BY <1>0, <3>1, Commands
    <3>3. cmd.empties \in Replaced /\ <<>> \in Text
      BY <3>2, Opener DEF Replaced
    <3>4. \A q \in DOMAIN inside' : Good(q, inside'[q])
      BY <1>3, <3>1, <3>3
    <3> QED
      BY <1>2, <2>1, <3>4
  <2> QED
    BY <2>2, <2>3
<1>7. CASE ~LoadKit /\ ~InjectFile /\ ~WriteInitFile /\ ~InstallExecution
  <2>1. StillLoaded /\ inside' = inside
    BY <1>7, SuiteSteps DEF NewSuite, RunPureTest, StartContainer, AssertEnvVars,
        AssertFiles, AssertTmpfs, RunMerge, CleanupContainer, testing
  <2>2. suite' \in {"load", "pure", "start"} => suite \in {"load", "pure", "start"}
    BY <1>7, SuiteSteps DEF NewSuite, RunPureTest, StartContainer, AssertEnvVars,
        AssertFiles, AssertTmpfs, RunMerge, CleanupContainer, testing, Goto
  <2>3. suite' \in {"load", "pure", "start"} => inside' = <<>>
    BY <2>1, <2>2 DEF Shipped
  <2> QED
    BY <1>2, <1>3, <2>1, <2>3
<1> QED
  BY <1>1, <1>4, <1>5, <1>6, <1>7

LEMMA ExecutedStep ==
    ASSUME Executed, RunTypes, SuiteInv, LoadInv, [SuiteNext]_vars
    PROVE  Executed'
<1>0. call' = call /\ facts' = facts /\ facts = call.facts /\ call \in Calls /\ at \in Nat \ {0}
  BY CallStays DEF RunTypes, LoadInv, Origin
<1>1. CASE InstallExecution
  <2>1. CASE facts.short \/ at > Len(facts.installs)
    <3>1. suite = "install" /\ suite' = "env" /\ failed' = failed
      BY <1>1, <2>1 DEF InstallExecution, Goto
    <3>2. \A i \in DOMAIN facts.installs : i \in 1 .. Len(facts.installs)
      BY <1>0, Commands
    <3>3. failed = {} /\ ~facts.short => \A i \in DOMAIN facts.installs : facts.installs[i].ok
      BY <1>0, <2>1, <3>1, <3>2, Commands DEF Executed
    <3> QED
      BY <1>0, <3>1, <3>3 DEF Executed, Installed, Inspected
  <2>2. CASE ~(facts.short \/ at > Len(facts.installs))
    <3>1. suite = "install" /\ suite' = "install" /\ at' = at + 1
          /\ (failed' = {} => failed = {} /\ Exits0(facts.installs[at]))
      BY <1>1, <2>2 DEF InstallExecution, Fails
    <3>2. failed' = {} => \A i \in DOMAIN facts.installs : i < at + 1 => facts.installs[i].ok
      <4> SUFFICES ASSUME failed' = {}, NEW i \in DOMAIN facts.installs, i < at + 1
                   PROVE  facts.installs[i].ok
        OBVIOUS
      <4>1. i \in Nat
        BY <1>0, Commands
      <4>2. CASE i = at
        BY <3>1, <4>2 DEF Exits0
      <4>3. CASE i # at
        BY <1>0, <3>1, <4>1, <4>3 DEF Executed
      <4> QED
        BY <4>2, <4>3
    <3> QED
      BY <1>0, <3>1, <3>2 DEF Executed, Installed, Inspected
  <2> QED
    BY <2>1, <2>2
<1>2. CASE WriteInitFile
  <2>1. /\ suite' \in {"init", "install", "cleanup"}
        /\ suite' = "install" => at' = 1
        /\ suite' = "cleanup" => failed' # {}
    BY <1>2 DEF WriteInitFile, Goto, Fails
  <2>2. \A i \in DOMAIN facts.installs : ~(i < 1)
    BY <1>0, Commands
  <2> QED
    BY <1>0, <2>1, <2>2 DEF Executed, Installed, Inspected
<1>3. CASE ~InstallExecution /\ ~WriteInitFile
  <2>1. suite' = "install" => suite = "install" /\ UNCHANGED <<at, failed>>
    BY <1>3, SuiteSteps DEF LoadKit, NewSuite, RunPureTest, StartContainer, InjectFile,
        AssertEnvVars, AssertFiles, AssertTmpfs, RunMerge, CleanupContainer, testing, Goto
  <2>2. failed' = {} => failed = {}
    BY <1>3, SuiteSteps DEF LoadKit, NewSuite, RunPureTest, StartContainer, InjectFile,
        AssertEnvVars, AssertFiles, AssertTmpfs, RunMerge, CleanupContainer, testing, Fails
  <2>3. Installed' => Installed
    BY <1>3, <2>2, SuiteSteps DEF LoadKit, NewSuite, RunPureTest, StartContainer, InjectFile,
        AssertEnvVars, AssertFiles, AssertTmpfs, RunMerge, CleanupContainer, testing, Goto, Fails,
        Installed, Inspected
  <2> QED
    BY <1>0, <2>1, <2>2, <2>3 DEF Executed
<1> QED
  BY <1>1, <1>2, <1>3

LEMMA LookedStep ==
    ASSUME Looked, RunTypes, SuiteInv, LoadInv, [SuiteNext]_vars
    PROVE  Looked'
<1>0. call' = call /\ facts' = facts
  BY CallStays
<1>1. CASE AssertFiles
  <2>1. StillLoaded /\ UNCHANGED inside
    BY <1>1 DEF AssertFiles
  <2>2. failed' = {} => \A p \in Expected : p \in DOMAIN inside /\ ~ZeroLength(inside[p])
    BY <1>1 DEF AssertFiles, Fails
  <2>3. Expected' = Expected
    BY <1>0, <2>1, SameFiles
  <2> QED
    BY <2>1, <2>2, <2>3 DEF Looked, Inspected, ZeroLength
<1>2. CASE ~AssertFiles
  <2>1. failed' = {} => failed = {}
    BY <1>2, SuiteSteps DEF LoadKit, NewSuite, RunPureTest, StartContainer, InjectFile,
        WriteInitFile, InstallExecution, AssertEnvVars, AssertTmpfs, RunMerge, CleanupContainer,
        testing, Fails
  <2>2. Inspected' => Inspected /\ inside' = inside
    BY <1>2, <2>1, SuiteSteps DEF LoadKit, NewSuite, RunPureTest, StartContainer, InjectFile,
        WriteInitFile, InstallExecution, AssertEnvVars, AssertTmpfs, RunMerge, CleanupContainer,
        testing, Fails, Goto, Inspected
  <2>3. CASE LoadKit
    <3>1. suite' = "load"
      BY <2>3 DEF LoadKit, testing
    <3> QED
      BY <3>1 DEF Looked, Inspected
  <2>4. CASE ~LoadKit
    <3>1. Expected' = Expected
      BY <1>0, <2>4, LoadOrNot, SameFiles
    <3> QED
      BY <2>2, <3>1 DEF Looked, ZeroLength
  <2> QED
    BY <2>3, <2>4
<1> QED
  BY <1>1, <1>2

LEMMA RunInvInit == SuiteInit => RunInv
<1> SUFFICES ASSUME SuiteInit PROVE RunInv
  OBVIOUS
<1>1. /\ suite = "load" /\ at = 1 /\ box = "none" /\ inside = <<>> /\ facts = call.facts
  BY DEF SuiteInit
<1> QED
  BY <1>1 DEF RunInv, RunTypes, RunLoads, Passing, Shipped, Executed, Installed, Inspected, Looked

LEMMA RunInvStep ==
    ASSUME RunInv, SuiteInv, LoadInv, [SuiteNext]_vars
    PROVE  RunInv'
BY RunTypesStep, RunLoadsStep, ShippedStep, ExecutedStep, LookedStep DEF RunInv

(* What the suite has behind it holds always.                              *)
LEMMA RunFacts == Testing => [](RunInv /\ SuiteInv /\ LoadInv)
<1>1. SuiteInit => RunInv
  BY RunInvInit
<1>2. RunInv /\ SuiteInv /\ LoadInv /\ [SuiteNext]_vars => RunInv'
  BY RunInvStep
<1> QED
  BY <1>1, <1>2, SuiteFacts, LoadFacts, PTL DEF Testing

FailedTests == failed \subseteq Subtests

LEMMA FailedStep ==
    ASSUME FailedTests, SuiteInv, [SuiteNext]_vars
    PROVE  FailedTests'
<1>1. CASE RunPureTest
  <2>1. suite = "pure" /\ at \in 1 .. 7
    BY <1>1 DEF RunPureTest, SuiteInv
  <2>2. PureTests[at] \in Subtests /\ "run" \in Subtests
    BY <2>1, Tests DEF Subtests, TestNames
  <2>3. failed' \in {failed, failed \cup {"run"}, failed \cup {PureTests[at]}}
    BY <1>1 DEF RunPureTest, Fails
  <2> QED
    BY <2>2, <2>3 DEF FailedTests
<1>2. CASE ~RunPureTest
  <2>1. \/ failed' = failed
        \/ \E name \in {"load", "container", "install_execution", "environment_variables",
                        "files", "tmpfs_mounts", "mcp_merge", "cleanup"} :
              failed' = failed \cup {name}
    BY <1>2, SuiteSteps DEF LoadKit, NewSuite, StartContainer, InjectFile, WriteInitFile,
       InstallExecution, AssertEnvVars, AssertFiles, AssertTmpfs, RunMerge, CleanupContainer,
       testing, Fails
  <2> QED
    BY <2>1 DEF Subtests, FailedTests
<1> QED
  BY <1>1, <1>2

(* The variables of the load and of the suite keep their types, whatever   *)
(* the kits are: what is read into the container is a text, or a spec that *)
(* a link of the kit leads to (tck/args.go, tck/suite.go).                 *)
THEOREM SuiteTypes == Testing => []SuiteTypeOK
<1>1. SuiteInit => FailedTests
  BY DEF SuiteInit, FailedTests
<1>2. FailedTests /\ SuiteInv /\ [SuiteNext]_vars => FailedTests'
  BY FailedStep
<1>3. Testing => []FailedTests
  BY <1>1, <1>2, SuiteFacts, PTL DEF Testing
<1>4. ASSUME RunInv, SuiteInv, LoadInv, FailedTests
      PROVE  SuiteTypeOK
  <2>1. TypeOK
    BY <1>4 DEF LoadInv
  <2>2. at \in Nat /\ box \in {"none", "up", "removed"}
        /\ (suite \in {"pure", "start", "inject"} => image # None)
    BY <1>4 DEF RunInv, RunTypes
  <2>3. \A p \in DOMAIN inside : inside[p] \in Text \cup Documents
    BY <1>4 DEF RunInv, Shipped
  <2>4. suite \in {"load", "pure", "start", "inject", "init", "install", "env", "files",
                  "tmpfs", "merge", "cleanup", "ended"}
    BY <1>4 DEF SuiteInv, AfterPure
  <2> QED
    BY <1>4, <2>1, <2>2, <2>3, <2>4 DEF SuiteTypeOK, FailedTests
<1> QED
  BY <1>3, <1>4, RunFacts, PTL

(* A run without a failure has earned it, whatever the kit: the container  *)
(* was removed; what the kit ships and its initFiles are in it and not of  *)
(* zero length, as the author wrote it with its references replaced, after *)
(* install commands that all exited zero; and a registration of the MCP    *)
(* gateway is one (RunAll, tck/suite.go).                                  *)
THEOREM GreenStaysEarned == Testing => []GreenIsEarned
<1>1. ASSUME RunInv, SuiteInv, LoadInv
      PROVE  GreenIsEarned
  <2> SUFFICES ASSUME suite = "ended", failed = {}
               PROVE  /\ box = "removed"
                      /\ \A p \in Expected : p \in DOMAIN inside /\ ~ZeroLength(inside[p])
                      /\ \A p \in AuthoredFiles \ Replaced : In(p, Home) =>
                            inside[p] = Substituted(call.tree[p].text, Values)
                      /\ ~facts.short => \A i \in DOMAIN facts.installs : facts.installs[i].ok
                      /\ script # Absent => Registers
    BY DEF GreenIsEarned
  <2>1. box = "removed"
    BY <1>1 DEF SuiteInv, Tried, RunInv, RunTypes
  <2>2. \A p \in Expected : p \in DOMAIN inside /\ ~ZeroLength(inside[p])
    BY <1>1 DEF RunInv, Looked, Inspected
  <2>3. ASSUME NEW p \in AuthoredFiles \ Replaced, In(p, Home)
        PROVE  inside[p] = Substituted(call.tree[p].text, Values)
    <3>1. pc = "done" /\ result = "artifact"
      BY <1>1 DEF RunInv, RunLoads, Passing
    <3>2. p \in DOMAIN files /\ Content(files[p]) = Substituted(call.tree[p].text, Values)
      BY <1>1, <2>3, <3>1, AuthoredIsLoaded
    <3>3. p \in DOMAIN inside
      BY <2>2, <3>2 DEF Expected
    <3>4. inside[p] = Content(files[p])
      BY <1>1, <2>3, <3>2, <3>3 DEF RunInv, Shipped
    <3> QED
      BY <3>2, <3>4
  <2>4. ~facts.short => \A i \in DOMAIN facts.installs : facts.installs[i].ok
    BY <1>1 DEF RunInv, Executed, Installed, Inspected
  <2>5. script # Absent => Registers
    <3>1. Holds("mcp_registration")
      BY <1>1, Tests DEF SuiteInv, AfterPure, Tried, Told
    <3> QED
      BY <3>1, Zenon DEF Holds
  <2> QED
    BY <2>1, <2>2, <2>3, <2>4, <2>5
<1> QED
  BY <1>1, RunFacts, PTL

-----------------------------------------------------------------------------
(* Sound kits.  Nothing of a sound kit is refused while it is loaded, and  *)
(* no subtest finds fault with it.                                         *)

LEMMA SoundStays ==
    ASSUME UNCHANGED call
    PROVE  Sound' = Sound /\ Values' = Values /\ AuthoredFiles' = AuthoredFiles
<1>1. Values' = Values
  BY DEF Values
<1>2. AuthoredFiles' = AuthoredFiles
  BY DEF AuthoredFiles
<1> QED
  BY <1>1, <1>2 DEF Sound

LEMMA NoOpenerIsLegal ==
    ASSUME NEW s, \A i \in DOMAIN s : s[i] # Open, NEW values
    PROVE  Legal(s, values)
BY DEF Legal, IsOpener

LEMMA SoundDocument ==
    ASSUME Sound, call \in Calls
    PROVE  \A i \in DOMAIN Document(call.tree) :
              /\ ~opensArgRef(Document(call.tree)[i].key)
              /\ Document(call.tree)[i].key # ArgsKey => Legal(Document(call.tree)[i].value, Values)
BY DEF Sound

(* What is loaded of a sound kit has nothing to refuse, under the new name *)
(* as under its own.                                                       *)
LEMMA SoundIsAccepted ==
    ASSUME LoadInv, Opened, Sound
    PROVE  Accepted
<1>0. call \in Calls /\ IsKit(call.tree) /\ Document(kit) = Written /\ Written \in Documents
  BY OpenedIsWritten, KitsHaveSpecs DEF LoadInv, Origin, IsKit
<1>1. Resolvable(call.decls, call.supplied)
  BY DEF Sound
<1> DEFINE doc == Document(call.tree)
<1>2. doc \in Documents
  BY <1>0, SpecIsRead
<1>3. DOMAIN Written = DOMAIN doc
      /\ \A i \in DOMAIN doc :
            Written[i].key = doc[i].key /\ Written[i].value \in {doc[i].value, NewName}
  <2>1. CASE call.copied
    <3>1. Renamable(doc)
      BY <2>1 DEF Sound
    <3>2. Written = renamedSpec(doc, NewName)
      BY <2>1 DEF Written
    <3> QED
      BY <1>2, <3>1, <3>2, RenamedDocument
  <2>2. CASE ~call.copied
    BY <2>2 DEF Written
  <2> QED
    BY <2>1, <2>2
<1>4. ASSUME NEW i \in DOMAIN doc
      PROVE  /\ ~opensArgRef(Written[i].key)
             /\ Written[i].key # ArgsKey => ~Refused(Written[i].value, Values)
  <2>1. Written[i].key = doc[i].key /\ Written[i].value \in {doc[i].value, NewName}
    BY <1>3
  <2>2. ~opensArgRef(doc[i].key) /\ (doc[i].key # ArgsKey => Legal(doc[i].value, Values))
    BY <1>0, SoundDocument
  <2>3. Legal(NewName, Values)
    BY KitsHaveSpecs, NoOpenerIsLegal
  <2>4. Written[i].key # ArgsKey => Legal(Written[i].value, Values)
    BY <2>1, <2>2, <2>3
  <2>5. Written[i].value \in Text
    BY <1>0, <1>3, EntryFields
  <2>6. Refused(Written[i].value, Values) <=> ~Legal(Written[i].value, Values)
    BY <2>5, RefusedIffIllegal
  <2> QED
    BY <2>1, <2>2, <2>4, <2>6
<1>5. ~RefusedSpec(Document(kit), Values)
  BY <1>0, <1>3, <1>4 DEF RefusedSpec
<1>6. ASSUME NEW p \in Expandable
      PROVE  ~Refused(kit[p].text, Values)
  <2>1. p \in Paths /\ p # Spec /\ In(p, Files) /\ IsKind(kit, p, "file")
    BY DEF Expandable
  <2>2. kit[p] = call.tree[p]
    BY <2>1, OpenedIsWritten DEF IsKind
  <2>3. p \in AuthoredFiles
    BY <2>1, <2>2 DEF AuthoredFiles, IsKind
  <2>4. kit[p].text \in Text /\ Legal(kit[p].text, Values)
    BY <2>2, <2>3, AuthoredIsOpened DEF Sound
  <2> QED
    BY <2>4, RefusedIffIllegal
<1> QED
  BY <1>1, <1>5, <1>6 DEF Accepted

(* Directories that are staged are wide, and above what is written next    *)
(* all are.                                                                *)
LEMMA ParentsAreWide ==
    ASSUME LoadInv, StagingInv, pc \in {"copy", "write"}, Staged(Order[next]) # None
    PROVE  MayWriteIn(staging, Order[next])
<1> DEFINE p == Order[next]
<1>0. next \in 1 .. Len(Order) /\ p \in Paths /\ Shaped(kit) /\ IsKit(kit)
  BY Walked DEF StagingInv, LoadInv, Origin
<1>1. p = Spec \/ kit[p] # None
  BY <1>0, StagedShape
<1>2. ASSUME NEW d \in Ancestors[p]
      PROVE  staging[d].mode = "rw"
  <2>1. p # Spec /\ d \in Paths
    BY <1>0, Walked
  <2>2. IsKind(kit, d, "dir")
    BY <1>0, <1>1, <2>1 DEF IsKit
  <2>3. PICK j \in 1 .. next - 1 : Order[j] = d
    BY <1>0, Walked
  <2>4. staging[d] = Staged(d)
    BY <2>3 DEF LoadInv, Progress
  <2>5. Staged(d) = [kit[d] EXCEPT !.mode = "rw"] /\ kit[d] \in Dirs
    BY <1>0, <2>1, <2>2, GoalOfDirectory DEF LoadInv, Origin
  <2> QED
    BY <2>4, <2>5 DEF Dirs
<1> QED
  BY <1>2 DEF MayWriteIn

(* A file of the author's is a file of what is loaded.                     *)
LEMMA FilesStayFiles ==
    ASSUME LoadInv, pc \in {"load", "materialize"} \/ result = "artifact",
           NEW p \in Paths, IsKind(call.tree, p, "file")
    PROVE  IsKind(kit, p, "file") /\ IsKind(Tree, p, "file")
<1>0. call \in Calls /\ IsKit(kit) /\ Accepted /\ Opened
  BY DEF LoadInv, Origin, Progress, Opened
<1>1. Texts(Values)
  BY <1>0, AcceptedTexts
<1>2. IsKind(kit, p, "file")
  <2>1. CASE p = Spec /\ call.copied
    <3>1. Renamable(Document(call.tree)) /\ kit[Spec] = Copied(Spec)
      BY <1>0, <2>1 DEF LoadInv, Origin
    <3> QED
      BY <1>0, <2>1, <3>1, CopiedNodes DEF IsKind
  <2>2. CASE p = Spec /\ ~call.copied
    <3>1. kit = call.tree
      BY <1>0, <2>2 DEF LoadInv, Origin
    <3> QED
      BY <3>1
  <2>3. CASE p # Spec
    <3>1. kit[p] = call.tree[p]
      BY <1>0, <2>3, OpenedIsWritten DEF IsKind
    <3> QED
      BY <3>1 DEF IsKind
  <2> QED
    BY <2>1, <2>2, <2>3
<1>3. CASE from = "kit"
  BY <1>2, <1>3 DEF Tree
<1>4. CASE from # "kit"
  <2>1. Tree[p] = Expanded(p)
    BY <1>4 DEF Tree
  <2>2. ~IsKind(kit, p, "other")
    BY <1>2 DEF IsKind
  <2>3. IsKind(Tree, p, "file")
    <3>1. CASE p = Spec
      BY <1>0, <1>1, <2>1, <3>1, ExpandedNodes DEF IsKind
    <3>2. CASE p # Spec /\ p \in Expandable
      BY <1>0, <1>1, <2>1, <3>2, ExpandedNodes DEF IsKind
    <3>3. CASE p # Spec /\ p \notin Expandable
      BY <1>0, <1>1, <1>2, <2>1, <2>2, <3>3, ExpandedNodes DEF IsKind
    <3> QED
      BY <3>1, <3>2, <3>3
  <2> QED
    BY <1>2, <2>3
<1> QED
  BY <1>2, <1>3, <1>4

(* What is listed of it is a file, a link that was the author's, or, where *)
(* the kit is loaded in its place, something else that is no file.         *)
LEMMA ListedNodes ==
    ASSUME LoadInv, pc \in {"load", "materialize"} \/ result = "artifact",
           NEW p \in Listed(Tree)
    PROVE  /\ p \in Paths /\ p # Spec /\ In(p, Home)
           /\ \/ IsKind(Tree, p, "file") /\ p \in AuthoredFiles
              \/ IsKind(Tree, p, "link") /\ Tree[p] = call.tree[p]
              \/ IsKind(Tree, p, "other") /\ from = "kit"
<1>0. /\ call \in Calls /\ IsKit(kit) /\ Accepted /\ Opened /\ IsKit(Tree)
      /\ from \in {"kit", "staging"}
  BY TreeIsKit DEF LoadInv, Origin, Progress, Opened, TypeOK
<1>1. Texts(Values)
  BY <1>0, AcceptedTexts
<1>2. p \in Paths /\ In(p, Home) /\ Tree[p] # None /\ ~IsKind(Tree, p, "dir")
  BY DEF Listed
<1>3. p # Spec /\ In(p, Files)
  BY <1>2, StagedKitAssumption DEF In
<1>4. \/ IsKind(Tree, p, "file") \/ IsKind(Tree, p, "link") \/ IsKind(Tree, p, "other")
  BY <1>0, <1>2, KitNodes DEF IsKit
<1>5. /\ kit[p] # None
      /\ Tree[p] = kit[p] \/ (IsKind(kit, p, "file") /\ IsKind(Tree, p, "file"))
      /\ Tree[p] = kit[p] /\ IsKind(kit, p, "other") => from = "kit"
  <2>1. CASE from = "kit"
    BY <1>2, <2>1 DEF Tree
  <2>2. CASE from = "staging"
    <3>1. Tree[p] = Expanded(p)
      BY <1>2, <2>2 DEF Tree
    <3>2. ~IsKind(kit, p, "other") /\ kit[p] # None
      <4>1. Expanded(p) = None <=> kit[p] = None \/ IsKind(kit, p, "other")
        BY <1>0, <1>1, <1>2, ExpandedNodes
      <4> QED
        BY <1>2, <3>1, <4>1
    <3>3. CASE p \in Expandable
      BY <1>0, <1>1, <1>2, <1>3, <3>1, <3>2, <3>3, ExpandedNodes DEF IsKind
    <3>4. CASE p \notin Expandable
      <4>1. Expanded(p) = kit[p] \/ (Expanded(p) = None /\ IsKind(kit, p, "other"))
        BY <1>0, <1>1, <1>2, <1>3, <3>4, ExpandedNodes
      <4> QED
        BY <1>2, <3>1, <3>2, <4>1
    <3> QED
      BY <3>3, <3>4
  <2> QED
    BY <1>0, <2>1, <2>2
<1>6. kit[p] = call.tree[p]
  BY <1>0, <1>2, <1>3, <1>5, OpenedIsWritten
<1>7. CASE IsKind(Tree, p, "file")
  <2>1. IsKind(call.tree, p, "file")
    BY <1>5, <1>6, <1>7 DEF IsKind
  <2> QED
    BY <1>2, <1>3, <1>7, <2>1 DEF AuthoredFiles
<1>8. CASE IsKind(Tree, p, "link")
  <2>1. Tree[p] = kit[p]
    BY <1>5, <1>8 DEF IsKind
  <2> QED
    BY <1>2, <1>3, <1>6, <1>8, <2>1
<1>9. CASE IsKind(Tree, p, "other")
  <2>1. Tree[p] = kit[p]
    BY <1>5, <1>9 DEF IsKind
  <2>2. from = "kit"
    BY <1>5, <1>9, <2>1 DEF IsKind
  <2> QED
    BY <1>2, <1>3, <1>9, <2>2
<1> QED
  BY <1>4, <1>7, <1>8, <1>9

(* The links of a sound kit resolve, to files.                             *)
LEMMA SoundResolves ==
    ASSUME LoadInv, Sound, pc \in {"load", "materialize"} \/ result = "artifact",
           NEW p \in Listed(Tree)
    PROVE  /\ Resolves(Tree, p) /\ Real(Tree, p) \in Paths
           /\ \/ IsKind(Tree, Real(Tree, p), "file")
              \/ IsKind(Tree, Real(Tree, p), "other") /\ from = "kit"
           /\ IsKind(Tree, p, "link") =>
                 /\ Real(Tree, p) = call.tree[p].to /\ IsKind(call.tree, p, "link")
                 /\ IsKind(call.tree, Real(Tree, p), "file")
<1>0. p \in Paths /\ call \in Calls /\ IsKit(call.tree)
  BY ListedNodes, KitsHaveSpecs DEF LoadInv, Origin, IsKit
<1>1. CASE ~IsKind(Tree, p, "link")
  <2>1. Resolves(Tree, p) /\ Real(Tree, p) = p
    BY <1>1 DEF Resolves, Real
  <2> QED
    BY <1>0, <1>1, <2>1, ListedNodes
<1>2. CASE IsKind(Tree, p, "link")
  <2> DEFINE to == call.tree[p].to
  <2>1. Tree[p] = call.tree[p]
    BY <1>2, ListedNodes DEF IsKind
  <2>2. IsKind(call.tree, p, "link")
    BY <1>2, <2>1 DEF IsKind
  <2>3. ~call.tree[p].abs /\ to # None /\ IsKind(call.tree, to, "file")
    BY <1>0, <2>2 DEF Sound
  <2>4. call.tree[p] \in Nodes(p) /\ call.tree[p].kind = "link"
    BY <1>0, <2>2, KitNodes DEF IsKit
  <2>5. to \in Paths
    BY <1>0, <2>3, <2>4, NodeFields
  <2>6. IsKind(Tree, to, "file")
    BY <2>3, <2>5, FilesStayFiles
  <2>7. Real(Tree, p) = to
    BY <1>2, <2>1 DEF Real
  <2>8. Resolves(Tree, p)
    BY <2>1, <2>3, <2>6 DEF Resolves, IsKind
  <2> QED
    BY <2>2, <2>3, <2>5, <2>6, <2>7, <2>8
<1> QED
  BY <1>1, <1>2

LEMMA FaultCounts ==
    ASSUME TypeOK, faults' = 0
    PROVE  ~Fault /\ (NoFault => faults = 0)
<1>1. faults \in Nat
  <2>1. MaxFaults \in Nat /\ faults \in 0 .. MaxFaults
    BY StagedKitAssumption DEF TypeOK
  <2> QED
    BY <2>1
<1> QED
  BY <1>1 DEF Fault, NoFault

LEMMA SoundLoadsStep ==
    ASSUME SoundLoads, LoadInv, StagingInv, [SuiteNext]_vars
    PROVE  SoundLoads'
<1> SUFFICES ASSUME Sound', faults' = 0 PROVE result' # "error"
  BY DEF SoundLoads
<1>0. Sound
  BY CallStays, SoundStays
<1>1. ~Fault /\ (NoFault => faults = 0) /\ TypeOK
  BY FaultCounts DEF LoadInv
<1>2. faults = 0 => result # "error"
  BY <1>0 DEF SoundLoads
<1>3. CASE ~LoadKit
  <2>1. result' = result /\ (Fault \/ NoFault)
    BY <1>3 DEF SuiteNext, vars, loading, StillLoaded, NewSuite, RunPureTest, StartContainer,
                InjectFile, WriteInitFile, InstallExecution, AssertEnvVars, AssertFiles,
                AssertTmpfs, RunMerge, CleanupContainer, StartAgain, NoFault
  <2> QED
    BY <1>1, <1>2, <2>1
<1>4. CASE RenameSpec
  <2>1. pc = "rename"
    BY <1>4 DEF RenameSpec
  <2>2. call.copied /\ kit = call.tree
    BY <2>1 DEF LoadInv, Origin
  <2>3. Renamable(Document(kit))
    BY <1>0, <2>2 DEF Sound
  <2> QED
    BY <1>1, <1>2, <1>4, <2>3 DEF RenameSpec
<1>5. CASE ExpandKit
  <2>1. Accepted
    <3>1. Opened
      BY <1>5 DEF ExpandKit, Opened
    <3> QED
      BY <1>0, <3>1, SoundIsAccepted
  <2> QED
    BY <1>1, <1>2, <1>5, <2>1 DEF ExpandKit
<1>6. CASE WriteEntry
  <2>1. Staged(Order[next]) # None => MayWriteIn(staging, Order[next])
    BY <1>6, ParentsAreWide DEF WriteEntry
  <2> QED
    BY <1>1, <1>2, <1>6, <2>1 DEF WriteEntry
<1>7. CASE NarrowEntry
  BY <1>1, <1>2, <1>7 DEF NarrowEntry
<1>8. CASE OpenFromDirectory
  <2>1. Loaded = Tree /\ pc = "load"
    BY <1>8, LoadedIsTree DEF OpenFromDirectory
  <2>2. \A p \in Listed(Loaded) : Resolves(Loaded, p)
    BY <1>0, <2>1, SoundResolves
  <2>3. Return("artifact") => result' # "error"
    BY DEF Return
  <2> QED
    BY <1>1, <1>2, <1>8, <2>2, <2>3 DEF OpenFromDirectory
<1>9. CASE Materialize
  <2>1. pc = "materialize" /\ from = "staging" /\ Found
    BY <1>9 DEF Materialize, LoadInv, Gathered
  <2>2. staging = Tree
    BY <2>1, LoadedIsTree DEF Loaded
  <2>3. \A p \in DOMAIN files : IsKind(staging, files[p].at, "file")
    <3> SUFFICES ASSUME NEW p \in DOMAIN files PROVE IsKind(staging, files[p].at, "file")
      OBVIOUS
    <3>1. p \in Listed(Tree) /\ files[p].at = Real(Tree, p)
      BY <2>1 DEF Found
    <3>2. IsKind(Tree, Real(Tree, p), "file")
      BY <1>0, <2>1, <3>1, SoundResolves
    <3> QED
      BY <2>2, <3>1, <3>2
  <2>4. Return("artifact") => result' # "error"
    BY DEF Return
  <2> QED
    BY <1>1, <1>2, <1>9, <2>3, <2>4 DEF Materialize
<1>10. CASE OpenCopy \/ RemoveStaging
  BY <1>1, <1>2, <1>10 DEF OpenCopy, RemoveStaging
<1> QED
  BY <1>3, <1>4, <1>5, <1>6, <1>7, <1>8, <1>9, <1>10 DEF LoadKit, Load

LEMMA SoundLoadFacts == Testing => []SoundLoads
<1>1. SuiteInit => SoundLoads
  BY DEF SuiteInit, Init, SoundLoads
<1>2. SoundLoads /\ LoadInv /\ StagingInv /\ [SuiteNext]_vars => SoundLoads'
  BY SoundLoadsStep
<1> QED
  BY <1>1, <1>2, LoadFacts, PTL DEF Testing

(* What is read of a file of a sound kit is not of zero length.            *)
LEMMA SoundContent ==
    ASSUME LoadInv, pc = "done", result = "artifact", SoundRun, NEW p \in DOMAIN files
    PROVE  /\ Readable(files[p]) \/ IsKind(Loaded, files[p].at, "other")
           /\ Readable(files[p]) => ~ZeroLength(Content(files[p]))
<1> DEFINE to == files[p].at
<1>0. Found /\ Sound /\ from \in {"kit", "staging"}
  BY DEF LoadInv, Gathered, TypeOK, SoundRun
<1>1. p \in Listed(Tree) /\ to = Real(Tree, p)
  BY <1>0 DEF Found
<1>2. /\ to \in Paths
      /\ IsKind(Tree, to, "file") \/ (IsKind(Tree, to, "other") /\ from = "kit")
      /\ IsKind(Tree, p, "link") =>
            /\ to = call.tree[p].to /\ IsKind(call.tree, p, "link") /\ IsKind(call.tree, to, "file")
  BY <1>0, <1>1, SoundResolves
<1>3. p \in Paths /\ In(p, Home)
  BY <1>1, ListedNodes
<1>4. IsKind(Tree, to, "file") =>
         Readable(files[p]) /\ Content(files[p]) = Tree[to].text
  <2> SUFFICES ASSUME IsKind(Tree, to, "file")
               PROVE  Readable(files[p]) /\ Content(files[p]) = Tree[to].text
    OBVIOUS
  <2>1. CASE from = "kit"
    <3>1. Loaded = kit /\ Tree = kit
      BY <2>1 DEF Loaded, Tree
    <3>2. kit[to] # None
      BY <3>1 DEF IsKind
    <3>3. Content(files[p]) = kit[to].text
      BY <2>1, <3>2, ContentIsFound
    <3> QED
      BY <3>1, <3>3 DEF Readable
  <2>2. CASE from = "staging"
    <3>1. /\ Content(files[p]) = Tree[to].text /\ files[p].text = Tree[to].text
      BY <2>2, ContentIsFound
    <3>2. Tree[to] \in Nodes(to) /\ Tree[to].kind = "file"
      BY <1>2, TreeIsKit, KitNodes DEF IsKit
    <3>3. Tree[to].text \in Text \cup Documents
      BY <1>2, <3>2, NodeFields
    <3>4. files[p].text # None
      BY <3>1, <3>3, NoneIsNothing
    <3> QED
      BY <3>1, <3>4 DEF Readable
  <2> QED
    BY <1>0, <2>1, <2>2
<1>5. CASE IsKind(Tree, to, "file")
  <2>1. ~ZeroLength(Tree[to].text)
    <3>1. CASE to \in AuthoredFiles
      <4>1. Tree[to].text = Substituted(call.tree[to].text, Values)
        BY <3>1, AuthoredText
      <4> QED
        BY <3>1, <4>1 DEF SoundRun
    <3>2. CASE to \notin AuthoredFiles
      <4>1. IsKind(Tree, p, "link")
        <5>1. ~IsKind(Tree, p, "link") => to = p
          BY <1>1 DEF Real
        <5>2. IsKind(Tree, p, "file") \/ IsKind(Tree, p, "link") \/ IsKind(Tree, p, "other")
          BY <1>1, ListedNodes
        <5>3. ~(to = p /\ IsKind(Tree, p, "other"))
          BY <1>5 DEF IsKind
        <5>4. IsKind(Tree, p, "file") => p \in AuthoredFiles
          BY <1>1, ListedNodes DEF IsKind
        <5> QED
          BY <3>2, <5>1, <5>2, <5>3, <5>4
      <4>2. to = call.tree[p].to /\ IsKind(call.tree, p, "link") /\ IsKind(call.tree, to, "file")
        BY <1>2, <4>1
      <4>3. to \notin Specs /\ ~ZeroLength(call.tree[to].text)
        BY <1>3, <3>2, <4>2 DEF SoundRun
      <4>4. to # Spec /\ Spec \in Paths
        BY <4>3, StagedKitAssumption
      <4>5. kit[to] = call.tree[to]
        BY <1>2, <4>2, <4>4, OpenedIsWritten DEF Opened, IsKind
      <4>6. to \notin Expandable
        BY <3>2, <4>2, <4>4 DEF Expandable, AuthoredFiles
      <4>7. Tree[to] = kit[to]
        <5>1. CASE from = "kit"
          BY <5>1 DEF Tree
        <5>2. CASE from = "staging"
          <6>1. Tree[to] = Expanded(to)
            BY <1>2, <5>2 DEF Tree
          <6>2. Expanded(to) = IF IsKind(kit, to, "other") THEN None ELSE kit[to]
            BY <4>4, <4>6, Zenon DEF Expanded
          <6> QED
            BY <1>5, <6>1, <6>2 DEF IsKind
        <5> QED
          BY <1>0, <5>1, <5>2
      <4> QED
        BY <4>3, <4>5, <4>7
    <3> QED
      BY <3>1, <3>2
  <2> QED
    BY <1>4, <1>5, <2>1
<1>6. CASE IsKind(Tree, to, "other") /\ from = "kit"
  <2>1. Loaded = Tree /\ Tree = kit
    BY <1>6 DEF Loaded, Tree
  <2>2. ~IsKind(Loaded, to, "file")
    BY <1>6, <2>1 DEF IsKind
  <2>3. files[p].text = None
    BY <1>0, <1>6 DEF Found
  <2> QED
    BY <1>6, <2>1, <2>2, <2>3 DEF Readable
<1> QED
  BY <1>2, <1>5, <1>6

(* Of a sound run.                                                         *)
Filled == suite \in {"init", "install", "env", "files"}
Prepared == suite \in {"install", "env", "files"}
AllHaveBytes(f) == \A p \in DOMAIN f : p # None /\ ~ZeroLength(f[p])
SoundSoFar ==
    /\ failed = {} /\ merge \in {"idle", "skipped"}
    /\ AllHaveBytes(inside)
    /\ suite \in {"start", "inject"} => at = 1
    /\ Filled => DOMAIN files \subseteq DOMAIN inside
    /\ suite = "init" =>
          \A i \in DOMAIN facts.initFiles : i < at => facts.initFiles[i].path \in DOMAIN inside
    /\ Prepared => InitFiles \subseteq DOMAIN inside
SoundInv == SoundRun /\ faults = 0 => SoundSoFar

LEMMA SoundRunStays ==
    ASSUME [SuiteNext]_vars
    PROVE  SoundRun' = SoundRun
<1>1. UNCHANGED <<call, facts, script, want>>
  BY CallStays, FactsStay
<1>2. Sound' = Sound /\ Values' = Values /\ AuthoredFiles' = AuthoredFiles
  BY <1>1, SoundStays
<1>3. InitFiles' = InitFiles
  BY <1>1 DEF InitFiles
<1>4. KeepsRules' = KeepsRules
  <2>1. \A i \in DOMAIN PureTests : Holds(PureTests[i])' = Holds(PureTests[i])
    BY HoldsStay
  <2> QED
    BY <2>1 DEF KeepsRules
<1> QED
  BY <1>1, <1>2, <1>3, <1>4 DEF SoundRun

LEMMA FaultOrNot ==
    ASSUME [SuiteNext]_vars
    PROVE  Fault \/ NoFault
<1>1. CASE LoadKit
  BY <1>1 DEF LoadKit, Load, RenameSpec, OpenCopy, ExpandKit, WriteEntry, NarrowEntry,
        OpenFromDirectory, Materialize, RemoveStaging, NoFault
<1>2. CASE ~LoadKit
  BY <1>2 DEF SuiteNext, vars, loading, StillLoaded, NewSuite, RunPureTest, StartContainer,
                InjectFile, WriteInitFile, InstallExecution, AssertEnvVars, AssertFiles,
                AssertTmpfs, RunMerge, CleanupContainer, StartAgain, NoFault
<1> QED
  BY <1>1, <1>2

(* The tests of a sound run, its files and its commands.                   *)
LEMMA SoundTests ==
    ASSUME SoundRun, NEW i \in 1 .. 7
    PROVE  Holds(PureTests[i]) /\ ~Unwinds(PureTests[i])
BY Tests DEF SoundRun, KeepsRules, Unwinds

LEMMA SoundPut ==
    ASSUME AllHaveBytes(inside), NEW p, NEW text, p # None, ~ZeroLength(text), Put(p, text)
    PROVE  AllHaveBytes(inside')
<1>1. /\ DOMAIN inside' = DOMAIN inside \cup {p} /\ inside'[p] = text
      /\ \A q \in DOMAIN inside : q # p => inside'[q] = inside[q]
  BY PutIn
<1>2. ASSUME NEW q \in DOMAIN inside'
      PROVE  q # None /\ ~ZeroLength(inside'[q])
  <2>1. CASE q = p
    BY <1>1, <2>1
  <2>2. CASE q # p
    BY <1>1, <2>2 DEF AllHaveBytes
  <2> QED
    BY <2>1, <2>2
<1> QED
  BY <1>2 DEF AllHaveBytes

LEMMA SoundInject ==
    ASSUME SoundRun, SoundSoFar, ~Fault, LoadInv, RunInv, InjectFile
    PROVE  SoundSoFar'
<1>1. pc = "done" /\ result = "artifact" /\ suite = "inject" /\ StillLoaded /\ facts' = facts
  BY DEF InjectFile, RunInv, RunLoads, Passing, Kept
<1>2. at = 1 /\ at' = 1 /\ failed = {} /\ merge' = merge /\ AllHaveBytes(inside)
  BY <1>1 DEF InjectFile, SoundSoFar, Kept, mcp, merging
<1>3. DOMAIN files \subseteq Paths
  BY <1>1, ListedNodes DEF LoadInv, Gathered, Found
<1>4. CASE Injected = DOMAIN files /\ suite' = "init" /\ UNCHANGED <<inside, failed>>
  <2>1. DOMAIN files' \subseteq DOMAIN inside'
    BY <1>1, <1>4 DEF Injected, StillLoaded
  <2>2. \A i \in DOMAIN facts.initFiles : ~(i < 1)
    <3>1. call \in Calls /\ facts = call.facts
      BY DEF LoadInv, Origin, RunInv, RunTypes
    <3> QED
      BY <3>1, Commands
  <2>3. ~Prepared' /\ suite' \notin {"start", "inject"}
    BY <1>4 DEF Prepared
  <2> QED
    BY <1>1, <1>2, <1>4, <2>1, <2>2, <2>3 DEF SoundSoFar, AllHaveBytes, ZeroLength
<1>5. CASE ~(Injected = DOMAIN files /\ suite' = "init" /\ UNCHANGED <<inside, failed>>)
  <2>1. PICK p \in DOMAIN files :
            \/ Readable(files[p]) /\ Put(p, Content(files[p])) /\ UNCHANGED <<suite, failed>>
            \/ ~Readable(files[p]) /\ ~IsKind(Loaded, files[p].at, "other")
    BY <1>5 DEF InjectFile, Goto
  <2>2. Readable(files[p]) \/ IsKind(Loaded, files[p].at, "other")
    BY <1>1, SoundContent
  <2>3. Readable(files[p]) /\ Put(p, Content(files[p])) /\ UNCHANGED <<suite, failed>>
    BY <2>1, <2>2
  <2>4. ~ZeroLength(Content(files[p]))
    BY <1>1, <2>3, SoundContent
  <2>5. p # None
    BY <1>3, NoneIsNothing
  <2>6. AllHaveBytes(inside')
    BY <1>2, <2>3, <2>4, <2>5, SoundPut
  <2>7. suite' = "inject"
    BY <1>1, <2>3
  <2> QED
    BY <1>2, <2>3, <2>6, <2>7 DEF SoundSoFar, AllHaveBytes, ZeroLength, Filled, Prepared
<1> QED
  BY <1>4, <1>5

LEMMA SoundInit ==
    ASSUME SoundRun, SoundSoFar, ~Fault, LoadInv, RunInv, WriteInitFile
    PROVE  SoundSoFar'
<1> DEFINE files0 == facts.initFiles
<1>1. suite = "init" /\ StillLoaded /\ facts' = facts /\ merge' = merge
  BY DEF WriteInitFile, Kept, mcp, merging
<1>2. /\ failed = {} /\ merge \in {"idle", "skipped"} /\ AllHaveBytes(inside)
      /\ DOMAIN files \subseteq DOMAIN inside
      /\ \A i \in DOMAIN files0 : i < at => files0[i].path \in DOMAIN inside
  BY <1>1 DEF SoundSoFar, Filled
<1>3. /\ Len(files0) \in Nat /\ DOMAIN files0 = 1 .. Len(files0) /\ at \in Nat \ {0}
      /\ \A i \in DOMAIN files0 : files0[i].path # None
  <2>1. call \in Calls /\ facts = call.facts /\ at \in Nat \ {0}
    BY DEF LoadInv, Origin, RunInv, RunTypes
  <2> QED
    BY <2>1, Commands
<1>4. files' = files /\ InitFiles' = InitFiles
  BY <1>1, SameFiles DEF StillLoaded
<1> HIDE DEF files0
<1>5. CASE at > Len(files0)
  <2>1. suite' = "install" /\ UNCHANGED <<inside, failed>>
    BY <1>3, <1>5 DEF WriteInitFile, Goto, files0
  <2>2. InitFiles \subseteq DOMAIN inside
    BY <1>2, <1>3, <1>5 DEF InitFiles, files0
  <2> QED
    BY <1>1, <1>2, <1>4, <2>1, <2>2 DEF SoundSoFar, AllHaveBytes, ZeroLength, Filled, Prepared
<1>6. CASE at <= Len(files0)
  <2>1. /\ at' = at + 1 /\ UNCHANGED <<suite, failed>>
        /\ Put(files0[at].path, files0[at].content)
    BY <1>3, <1>6 DEF WriteInitFile, files0
  <2>2. at \in DOMAIN files0
    BY <1>3, <1>6
  <2>3. files0[at].path # None /\ ~ZeroLength(files0[at].content)
    BY <1>3, <2>2 DEF SoundRun, files0
  <2>4. AllHaveBytes(inside')
    BY <1>2, <2>1, <2>3, SoundPut
  <2>5. DOMAIN inside' = DOMAIN inside \cup {files0[at].path}
    BY <2>1, PutIn
  <2>6. \A i \in DOMAIN files0 : i < at' => files0[i].path \in DOMAIN inside'
    BY <1>2, <1>3, <2>1, <2>5
  <2>7. suite' = "init" /\ files0' = files0
    BY <1>1, <2>1 DEF files0
  <2>8. ~Prepared' /\ suite' \notin {"start", "inject"}
    BY <2>7 DEF Prepared
  <2>9. \A i \in DOMAIN facts'.initFiles : i < at' => facts'.initFiles[i].path \in DOMAIN inside'
    BY <1>1, <2>6 DEF files0
  <2>10. DOMAIN files' \subseteq DOMAIN inside' /\ failed' = {} /\ merge' \in {"idle", "skipped"}
    BY <1>1, <1>2, <1>4, <2>1, <2>5
  <2>11. AllHaveBytes(inside)'
    BY <2>4 DEF AllHaveBytes, ZeroLength
  <2> QED
    BY <2>8, <2>9, <2>10, <2>11 DEF SoundSoFar
<1> QED
  BY <1>3, <1>5, <1>6

LEMMA SoundInstall ==
    ASSUME SoundRun, SoundSoFar, ~Fault, LoadInv, RunInv, InstallExecution
    PROVE  SoundSoFar'
<1>1. suite = "install" /\ StillLoaded /\ facts' = facts /\ merge' = merge
  BY DEF InstallExecution, Kept, mcp, merging
<1>2. /\ failed = {} /\ merge \in {"idle", "skipped"} /\ AllHaveBytes(inside)
      /\ DOMAIN files \subseteq DOMAIN inside /\ InitFiles \subseteq DOMAIN inside
  BY <1>1 DEF SoundSoFar, Filled, Prepared
<1>3. files' = files /\ InitFiles' = InitFiles
  BY <1>1, SameFiles DEF StillLoaded
<1>4. pc = "done" /\ result = "artifact"
  BY <1>1 DEF RunInv, RunLoads, Passing
<1>5. CASE facts.short \/ at > Len(facts.installs)
  <2>1. suite' = "env" /\ UNCHANGED <<inside, failed>>
    BY <1>5 DEF InstallExecution, Goto
  <2> QED
    BY <1>1, <1>2, <1>3, <2>1 DEF SoundSoFar, AllHaveBytes, ZeroLength, Filled, Prepared
<1>6. CASE ~(facts.short \/ at > Len(facts.installs))
  <2> DEFINE cmd == facts.installs[at]
  <2>1. at \in DOMAIN facts.installs
    <3>1. call \in Calls /\ facts = call.facts /\ at \in Nat \ {0}
      BY DEF LoadInv, Origin, RunInv, RunTypes
    <3> QED
      BY <1>6, <3>1, Commands
  <2>2. /\ cmd.ok /\ cmd.removes = None /\ cmd.empties = None
        /\ cmd.needs \in {p \in AuthoredFiles : In(p, Home)} \cup InitFiles \cup {None}
    BY <2>1 DEF SoundRun
  <2>3. cmd.needs # None => cmd.needs \in DOMAIN inside
    <3>1. ASSUME cmd.needs \in AuthoredFiles, In(cmd.needs, Home)
          PROVE  cmd.needs \in DOMAIN inside
      BY <1>2, <1>4, <3>1, AuthoredIsLoaded
    <3> QED
      BY <1>2, <2>2, <3>1
  <2>4. Exits0(cmd)
    BY <2>2, <2>3 DEF Exits0
  <2>5. /\ UNCHANGED <<suite, failed>>
        /\ inside' = [p \in DOMAIN inside \ {None} |-> IF p = None THEN <<>> ELSE inside[p]]
    BY <1>6, <2>2, <2>4 DEF InstallExecution
  <2>6. DOMAIN inside' = DOMAIN inside /\ \A p \in DOMAIN inside : inside'[p] = inside[p]
    BY <1>2, <2>5 DEF AllHaveBytes
  <2>7. AllHaveBytes(inside')
    BY <1>2, <2>6 DEF AllHaveBytes
  <2>8. suite' = "install"
    BY <1>1, <2>5
  <2> QED
    BY <1>1, <1>2, <1>3, <2>5, <2>6, <2>7, <2>8
       DEF SoundSoFar, AllHaveBytes, ZeroLength, Filled, Prepared
<1> QED
  BY <1>5, <1>6

LEMMA SoundLook ==
    ASSUME SoundRun, SoundSoFar, ~Fault, AssertFiles
    PROVE  SoundSoFar'
<1>1. /\ suite = "files" /\ suite' = "tmpfs" /\ StillLoaded /\ facts' = facts /\ merge' = merge
      /\ inside' = inside
  BY DEF AssertFiles, Kept, mcp, merging, Goto
<1>2. /\ failed = {} /\ merge \in {"idle", "skipped"} /\ AllHaveBytes(inside)
      /\ Expected \subseteq DOMAIN inside
  BY <1>1 DEF SoundSoFar, Filled, Prepared, Expected
<1>3. \A p \in Expected : p \in DOMAIN inside /\ ~ZeroLength(inside[p])
  BY <1>2 DEF AllHaveBytes
<1>4. failed' = failed
  BY <1>3 DEF AssertFiles
<1> QED
  BY <1>1, <1>2, <1>4 DEF SoundSoFar, AllHaveBytes, ZeroLength, Filled, Prepared

LEMMA SoundInvStep ==
    ASSUME SoundInv, SoundLoads, RunInv, SuiteInv, LoadInv, [SuiteNext]_vars
    PROVE  SoundInv'
<1> SUFFICES ASSUME SoundRun', faults' = 0 PROVE SoundSoFar'
  BY DEF SoundInv
<1>1. SoundRun /\ Sound
  BY SoundRunStays DEF SoundRun
<1>2. ~Fault /\ faults = 0
  BY FaultCounts, FaultOrNot DEF LoadInv
<1>3. SoundSoFar
  BY <1>1, <1>2 DEF SoundInv
<1>4. failed = {} /\ merge \in {"idle", "skipped"} /\ AllHaveBytes(inside)
  BY <1>3 DEF SoundSoFar
<1>5. ASSUME UNCHANGED <<inside, failed>>, merge' \in {"idle", "skipped"},
             suite' \notin {"start", "inject", "init", "install", "env", "files"}
      PROVE  SoundSoFar'
  BY <1>4, <1>5 DEF SoundSoFar, AllHaveBytes, ZeroLength, Filled, Prepared
<1>6. CASE LoadKit
  <2>1. suite' = "load" /\ UNCHANGED <<inside, failed, merge>>
    BY <1>6 DEF LoadKit, testing, mcp, merging
  <2> QED
    BY <1>4, <1>5, <2>1
<1>7. CASE NewSuite
  <2>1. result # "error"
    BY <1>1, <1>2 DEF SoundLoads
  <2>2. image' # None
    BY <1>1, <1>7, <2>1 DEF NewSuite, SoundRun
  <2>3. suite' = "pure" /\ UNCHANGED <<inside, failed, merge>>
    BY <1>7, <2>2 DEF NewSuite, Kept, mcp, merging
  <2> QED
    BY <1>4, <1>5, <2>3
<1>8. CASE RunPureTest
  <2>1. at \in 1 .. 7
    BY <1>8 DEF RunPureTest, SuiteInv
  <2>2. Holds(PureTests[at]) /\ ~Unwinds(PureTests[at])
    BY <1>1, <2>1, SoundTests
  <2>3. /\ UNCHANGED <<inside, failed, merge>>
        /\ suite' = "pure" \/ (suite' = "start" /\ at' = 1)
    BY <1>8, <2>2 DEF RunPureTest, Kept, mcp, merging
  <2>4. suite' \notin {"inject", "init", "install", "env", "files"}
    BY <2>3
  <2> QED
    BY <1>4, <2>3, <2>4 DEF SoundSoFar, AllHaveBytes, ZeroLength, Filled, Prepared
<1>9. CASE StartContainer
  <2>1. /\ suite = "start" /\ suite' = "inject" /\ at' = at
        /\ UNCHANGED <<inside, failed, merge>>
    BY <1>2, <1>9 DEF StartContainer, Goto, Kept, mcp, merging
  <2> QED
    BY <1>3, <2>1 DEF SoundSoFar, AllHaveBytes, ZeroLength, Filled, Prepared
<1>10. CASE InjectFile
  BY <1>1, <1>2, <1>3, <1>10, SoundInject
<1>11. CASE WriteInitFile
  BY <1>1, <1>2, <1>3, <1>11, SoundInit
<1>12. CASE InstallExecution
  BY <1>1, <1>2, <1>3, <1>12, SoundInstall
<1>13. CASE AssertEnvVars
  <2>1. /\ suite = "env" /\ suite' = "files" /\ StillLoaded /\ facts' = facts
        /\ UNCHANGED <<inside, failed, merge>>
    BY <1>2, <1>13 DEF AssertEnvVars, Goto, Kept, mcp, merging
  <2>2. files' = files /\ InitFiles' = InitFiles
    BY <2>1, SameFiles DEF StillLoaded
  <2> QED
    BY <1>3, <2>1, <2>2 DEF SoundSoFar, AllHaveBytes, ZeroLength, Filled, Prepared
<1>14. CASE AssertFiles
  BY <1>1, <1>2, <1>3, <1>14, SoundLook
<1>15. CASE AssertTmpfs
  <2>1. suite' = "merge" /\ UNCHANGED <<inside, failed, merge>>
    BY <1>2, <1>15 DEF AssertTmpfs, Goto, Kept, mcp, merging
  <2> QED
    BY <1>4, <1>5, <2>1
<1>16. CASE RunMerge
  <2>1. Skips
    BY <1>1 DEF Skips, SoundRun
  <2>2. merge' = "skipped"
    BY <1>4, <1>16, <2>1 DEF RunMerge, Merge, BeginMerge, SeedConfig, Register, RegisterAgain,
                            Compare, GiveUp
  <2>3. suite' = "cleanup" /\ UNCHANGED <<inside, failed>>
    BY <1>16, <2>2 DEF RunMerge, Goto
  <2> QED
    BY <1>5, <2>2, <2>3
<1>17. CASE CleanupContainer
  <2>1. suite' = "ended" /\ UNCHANGED <<inside, failed, merge>>
    BY <1>2, <1>17 DEF CleanupContainer, Goto, Kept, mcp, merging
  <2> QED
    BY <1>4, <1>5, <2>1
<1>18. CASE StartAgain
  <2>1. merge = "passed"
    BY <1>18 DEF StartAgain, Restart
  <2> QED
    BY <1>4, <2>1
<1>19. CASE UNCHANGED vars
  <2>1. StillLoaded /\ UNCHANGED <<suite, at, facts, inside, failed, merge>>
    BY <1>19 DEF vars, StillLoaded, loading, testing, mcp, merging
  <2>2. files' = files /\ InitFiles' = InitFiles
    BY <2>1, SameFiles DEF StillLoaded
  <2> QED
    BY <1>3, <2>1, <2>2 DEF SoundSoFar, AllHaveBytes, ZeroLength, Filled, Prepared
<1> QED
  BY <1>6, <1>7, <1>8, <1>9, <1>10, <1>11, <1>12, <1>13, <1>14, <1>15, <1>16, <1>17, <1>18,
     <1>19 DEF SuiteNext

(* No false alarm, whatever the kit, its arguments and its spec: a sound   *)
(* kit loads, and each subtest of RunAll passes it, when no system call    *)
(* and no command of the container fails (tck/args.go, tck/suite.go).      *)
THEOREM SoundKitsPass == Testing => []SoundKitPasses
<1>1. SuiteInit => SoundInv
  BY DEF SuiteInit, InitMerge, SoundInv, SoundSoFar, AllHaveBytes, Filled, Prepared
<1>2. SoundInv /\ SoundLoads /\ RunInv /\ SuiteInv /\ LoadInv /\ [SuiteNext]_vars => SoundInv'
  BY SoundInvStep
<1>3. Testing => []SoundInv
  BY <1>1, <1>2, SoundLoadFacts, RunFacts, PTL DEF Testing
<1>4. ASSUME SoundInv, SoundLoads, LoadInv
      PROVE  SoundKitPasses
  <2>1. SoundKitLoads
    <3>1. result \in {"none", "artifact", "error"} /\ (pc = "done" => result # "none")
      BY <1>4 DEF LoadInv, TypeOK, Gathered
    <3> QED
      BY <1>4, <3>1 DEF SoundKitLoads, SoundLoads
  <2>2. SoundRun /\ faults = 0 => failed = {}
    BY <1>4 DEF SoundInv, SoundSoFar
  <2> QED
    BY <2>1, <2>2 DEF SoundKitPasses
<1> QED
  BY <1>3, <1>4, SoundLoadFacts, RunFacts, PTL
=============================================================================
