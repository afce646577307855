------------------------- MODULE E2EHarness_proofs -------------------------
(***************************************************************************)
(* Proofs about E2EHarness, for any kits, any number of runs and any       *)
(* environments they are started under.                                    *)
(***************************************************************************)
EXTENDS E2EHarness, TLAPS

(* Where the run is, told from its state: a run has no sandbox before its  *)
(* create, and everything from there on happens under a name recorded or   *)
(* lost.                                                                   *)
PastRecord == {"create", "rename", "assert", "wait", "sleep", "prompt"}
Positions ==
    /\ pc # "idle" => run \in AllRuns
    /\ boxes \subseteq 1 .. run
    /\ pc \in Script \cup {"suite", "record"} => run \notin boxes
    /\ pc \in PastRecord => recorded # "no"
    /\ blocked => recorded # "no"

TypeInv == TypeOK /\ Positions

(* test-kit-e2e.sh and RunE2EKit: every variable keeps its type, and a     *)
(* sandbox only exists under a name that was written down before it, or    *)
(* whose writing failed.                                                   *)
THEOREM HarnessTypes == Spec => []TypeInv
<1> USE HarnessAssumption
<1> USE DEF TypeInv, TypeOK, DaemonOK, StageOK, FlagsOK, CleanupsOK, NamedFirst,
            Positions, Script, InGoTest, PastRecord, AllRuns, Temporaries
<1>1. Init => TypeInv
  <2> SUFFICES ASSUME Init PROVE TypeInv
    OBVIOUS
  <2>1. DaemonOK /\ StageOK
    BY DEF Init
  <2>2. FlagsOK
    BY DEF Init
  <2>3. CleanupsOK
    BY DEF Init
  <2>4. NamedFirst /\ Positions
    BY DEF Init
  <2> QED BY <2>1, <2>2, <2>3, <2>4
<1>2. TypeInv /\ [Next]_vars => TypeInv'
  <2> SUFFICES ASSUME TypeInv, [Next]_vars PROVE TypeInv'
    OBVIOUS
  <2> USE DEF Goto, InTest, Local, daemon, setup, create, report
  <2>1. ASSUME NEW k \in Kits, NEW o \in Options, Start(k, o) PROVE TypeInv'
    <3>1. DaemonOK'  BY <2>1 DEF Start
    <3>2. StageOK'  BY <2>1 DEF Start
    <3>3. FlagsOK'  BY <2>1 DEF Start
    <3>4. CleanupsOK'  BY <2>1 DEF Start
    <3>5. (NamedFirst /\ Positions)'  BY <2>1 DEF Start
    <3> QED BY <3>1, <3>2, <3>3, <3>4, <3>5
  <2>2. ASSUME NEW k \in Dockerfiles, Edit(k) PROVE TypeInv'
    BY <2>2 DEF Edit
  <2>3. CASE Probe
    <3>1. DaemonOK'  BY <2>3 DEF Probe, Abort
    <3>2. StageOK'  BY <2>3 DEF Probe, Abort
    <3>3. FlagsOK'  BY <2>3 DEF Probe, Abort
    <3>4. CleanupsOK'  BY <2>3 DEF Probe, Abort
    <3>5. (NamedFirst /\ Positions)'  BY <2>3 DEF Probe, Abort
    <3> QED BY <3>1, <3>2, <3>3, <3>4, <3>5
  <2>4. CASE RemoveStale
    BY <2>4 DEF RemoveStale
  <2>5. CASE PolicyInit
    BY <2>5 DEF PolicyInit
  <2>6. CASE PolicyReset
    BY <2>6 DEF PolicyReset
  <2>7. CASE PolicyReinit
    <3>1. DaemonOK'  BY <2>7 DEF PolicyReinit, Abort
    <3>2. StageOK'  BY <2>7 DEF PolicyReinit, Abort
    <3>3. FlagsOK'  BY <2>7 DEF PolicyReinit, Abort
    <3>4. CleanupsOK'  BY <2>7 DEF PolicyReinit, Abort
    <3>5. (NamedFirst /\ Positions)'  BY <2>7 DEF PolicyReinit, Abort
    <3> QED BY <3>1, <3>2, <3>3, <3>4, <3>5
  <2>8. CASE BuildImage
    <3>1. DaemonOK'  BY <2>8 DEF BuildImage, Abort
    <3>2. StageOK'  BY <2>8 DEF BuildImage, Abort
    <3>3. FlagsOK'  BY <2>8 DEF BuildImage, Abort
    <3>4. CleanupsOK'  BY <2>8 DEF BuildImage, Abort
    <3>5. (NamedFirst /\ Positions)'  BY <2>8 DEF BuildImage, Abort
    <3> QED BY <3>1, <3>2, <3>3, <3>4, <3>5
  <2>9. CASE LoadImage
    <3>1. DaemonOK'  BY <2>9 DEF LoadImage, Abort
    <3>2. StageOK'  BY <2>9 DEF LoadImage, Abort
    <3>3. FlagsOK'  BY <2>9 DEF LoadImage, Abort
    <3>4. CleanupsOK'  BY <2>9 DEF LoadImage, Abort
    <3>5. (NamedFirst /\ Positions)'  BY <2>9 DEF LoadImage, Abort
    <3> QED BY <3>1, <3>2, <3>3, <3>4, <3>5
  <2>10. CASE NameLog
    <3>1. DaemonOK'  BY <2>10 DEF NameLog, Abort
    <3>2. StageOK'  BY <2>10 DEF NameLog, Abort
    <3>3. FlagsOK'  BY <2>10 DEF NameLog, Abort
    <3>4. CleanupsOK'  BY <2>10 DEF NameLog, Abort
    <3>5. (NamedFirst /\ Positions)'  BY <2>10 DEF NameLog, Abort
    <3> QED BY <3>1, <3>2, <3>3, <3>4, <3>5
  <2>11. CASE LoadSuite
    <3>1. DaemonOK'  BY <2>11 DEF LoadSuite, Unwind
    <3>2. StageOK'  BY <2>11 DEF LoadSuite, Unwind
    <3>3. FlagsOK'  BY <2>11 DEF LoadSuite, Unwind
    <3>4. CleanupsOK'  BY <2>11 DEF LoadSuite, Unwind
    <3>5. (NamedFirst /\ Positions)'  BY <2>11 DEF LoadSuite, Unwind
    <3> QED BY <3>1, <3>2, <3>3, <3>4, <3>5
  <2>12. CASE RecordName
    BY <2>12 DEF RecordName
  <2>13. CASE CreateCollides
    <3>1. DaemonOK'  BY <2>13 DEF CreateCollides, Unwind
    <3>2. StageOK'  BY <2>13 DEF CreateCollides, Unwind
    <3>3. FlagsOK'  BY <2>13 DEF CreateCollides, Unwind
    <3>4. CleanupsOK'  BY <2>13 DEF CreateCollides, Unwind
    <3>5. (NamedFirst /\ Positions)'  BY <2>13 DEF CreateCollides, Unwind
    <3> QED BY <3>1, <3>2, <3>3, <3>4, <3>5
  <2>14. CASE CreateSucceeds
    <3>1. DaemonOK'  BY <2>14 DEF CreateSucceeds, Bootable
    <3>2. StageOK'  BY <2>14 DEF CreateSucceeds, Bootable
    <3>3. FlagsOK'  BY <2>14 DEF CreateSucceeds, Bootable
    <3>4. CleanupsOK'  BY <2>14 DEF CreateSucceeds, Bootable
    <3>5. (NamedFirst /\ Positions)'  BY <2>14 DEF CreateSucceeds, Bootable
    <3> QED BY <3>1, <3>2, <3>3, <3>4, <3>5
  <2>15. CASE CreateFails
    BY <2>15 DEF CreateFails, Unwind
  <2>16. CASE RenameCopy
    <3>1. DaemonOK'  BY <2>16 DEF RenameCopy, Unwind
    <3>2. StageOK'  BY <2>16 DEF RenameCopy, Unwind
    <3>3. FlagsOK'  BY <2>16 DEF RenameCopy, Unwind
    <3>4. CleanupsOK'
      <4>1. Append(cleanups, "copy") \in Seq({"workspace", "box", "copy"})
        OBVIOUS
      <4>2. cleanups' \in {cleanups, Append(cleanups, "copy")}
        BY <2>16 DEF RenameCopy
      <4>3. tmp' \subseteq tmp \cup {"copy"}
        BY <2>16 DEF RenameCopy
      <4> QED BY <4>1, <4>2, <4>3
    <3>5. (NamedFirst /\ Positions)'  BY <2>16 DEF RenameCopy, Unwind
    <3> QED BY <3>1, <3>2, <3>3, <3>4, <3>5
  <2>17. CASE AssertContent
    <3>1. DaemonOK'  BY <2>17 DEF AssertContent
    <3>2. StageOK'  BY <2>17 DEF AssertContent
    <3>3. FlagsOK'  BY <2>17 DEF AssertContent
    <3>4. CleanupsOK'  BY <2>17 DEF AssertContent
    <3>5. (NamedFirst /\ Positions)'  BY <2>17 DEF AssertContent
    <3> QED BY <3>1, <3>2, <3>3, <3>4, <3>5
  <2>18. CASE Poll
    BY <2>18 DEF Poll
  <2>19. CASE Sleep
    <3>1. DaemonOK'  BY <2>19 DEF Sleep, Unwind
    <3>2. StageOK'  BY <2>19 DEF Sleep, Unwind
    <3>3. FlagsOK'  BY <2>19 DEF Sleep, Unwind
    <3>4. CleanupsOK'  BY <2>19 DEF Sleep, Unwind
    <3>5. (NamedFirst /\ Positions)'  BY <2>19 DEF Sleep, Unwind
    <3> QED BY <3>1, <3>2, <3>3, <3>4, <3>5
  <2>20. CASE Prompt
    <3>1. DaemonOK'  BY <2>20 DEF Prompt, Unwind
    <3>2. StageOK'  BY <2>20 DEF Prompt, Unwind
    <3>3. FlagsOK'  BY <2>20 DEF Prompt, Unwind
    <3>4. CleanupsOK'  BY <2>20 DEF Prompt, Unwind
    <3>5. (NamedFirst /\ Positions)'  BY <2>20 DEF Prompt, Unwind
    <3> QED BY <3>1, <3>2, <3>3, <3>4, <3>5
  <2>21. CASE RunCleanup
    <3>1. DaemonOK'  BY <2>21 DEF RunCleanup
    <3>2. StageOK'  BY <2>21 DEF RunCleanup
    <3>3. FlagsOK'  BY <2>21 DEF RunCleanup
    <3>4. CleanupsOK'
      <4>1. tmp' \subseteq tmp /\ cleanups' = SubSeq(cleanups, 1, Len(cleanups) - 1)
        BY <2>21 DEF RunCleanup
      <4>2. Len(cleanups) \in Nat \ {0}
        BY <2>21 DEF RunCleanup
      <4>3. SubSeq(cleanups, 1, Len(cleanups) - 1) \in Seq({"workspace", "box", "copy"})
        BY <4>2
      <4> QED BY <4>1, <4>3
    <3>5. (NamedFirst /\ Positions)'  BY <2>21 DEF RunCleanup
    <3> QED BY <3>1, <3>2, <3>3, <3>4, <3>5
  <2>22. CASE GoTestReturns
    BY <2>22 DEF GoTestReturns
  <2>23. CASE ExitTrap
    BY <2>23 DEF ExitTrap
  <2>24. CASE OtherInit
    BY <2>24 DEF OtherInit
  <2>25. CASE Expire
    BY <2>25 DEF Expire
  <2>26. CASE Interrupt
    <3>1. DaemonOK'  BY <2>26 DEF Interrupt, CreateCut, InGoTest
    <3>2. StageOK'  BY <2>26 DEF Interrupt, CreateCut, InGoTest
    <3>3. FlagsOK'  BY <2>26 DEF Interrupt, CreateCut, InGoTest
    <3>4. CleanupsOK'  BY <2>26 DEF Interrupt, CreateCut, InGoTest
    <3>5. (NamedFirst /\ Positions)'
      <4>1. /\ run' = run /\ recorded' = recorded /\ pc' \in {"idle", "exit"}
            /\ run \in AllRuns
        BY <2>26 DEF Interrupt, InGoTest
      <4>2. CASE UNCHANGED <<boxes, blocked>>
        BY <4>1, <4>2
      <4>3. CASE pc = "create" /\ boxes' \in {boxes, boxes \cup {run}}
        BY <4>1, <4>3
      <4> QED BY <2>26, <4>2, <4>3 DEF Interrupt, CreateCut
    <3> QED BY <3>1, <3>2, <3>3, <3>4, <3>5
  <2>27. CASE Die
    <3>1. DaemonOK'  BY <2>27 DEF Die, CreateCut
    <3>2. StageOK'  BY <2>27 DEF Die, CreateCut
    <3>3. FlagsOK'  BY <2>27 DEF Die, CreateCut
    <3>4. CleanupsOK'  BY <2>27 DEF Die, CreateCut
    <3>5. (NamedFirst /\ Positions)'
      <4>1. /\ run' = run /\ recorded' = recorded /\ pc' \in {"idle", "exit"}
            /\ run \in AllRuns
        BY <2>27 DEF Die
      <4>2. CASE UNCHANGED <<boxes, blocked>>
        BY <4>1, <4>2
      <4>3. CASE pc = "create" /\ boxes' \in {boxes, boxes \cup {run}}
        BY <4>1, <4>3
      <4> QED BY <2>27, <4>2, <4>3 DEF Die, CreateCut
    <3> QED BY <3>1, <3>2, <3>3, <3>4, <3>5
  <2>28. CASE UNCHANGED vars
    BY <2>28 DEF vars
  <2> QED BY <2>1, <2>2, <2>3, <2>4, <2>5, <2>6, <2>7, <2>8, <2>9,
         <2>10, <2>11, <2>12, <2>13, <2>14, <2>15, <2>16, <2>17, <2>18, <2>19,
         <2>20, <2>21, <2>22, <2>23, <2>24, <2>25, <2>26, <2>27, <2>28
         DEF Next, Step, Environment
<1> QED BY <1>1, <1>2, PTL DEF Spec

(* The part of it that the runs check, named like the invariant.           *)
THEOREM HarnessTypeOK == Spec => []TypeOK
BY HarnessTypes, PTL DEF TypeInv
-----------------------------------------------------------------------------
(* From the policy step on, the baseline asked for is in place: init put   *)
(* it there, or the run was aborted.                                       *)
BaselineInv ==
    pc \in InGoTest \cup {"image", "load", "namelog"} /\ opts.baseline
    => policy = "baseline"

(* test-kit-e2e.sh's policy step: whatever the daemon was left under and   *)
(* whoever initializes it after the reset, no Go test runs under another   *)
(* policy than the baseline asked for.                                     *)
THEOREM BaselineHolds == Spec => []BaselineWhileTesting
<1> USE DEF BaselineInv, InGoTest
<1>1. Init => BaselineInv
  BY DEF Init
<1>2. BaselineInv /\ [Next]_vars => BaselineInv'
  <2> SUFFICES ASSUME BaselineInv, [Next]_vars PROVE BaselineInv'
    OBVIOUS
  <2> USE DEF Goto, InTest, daemon, setup
  <2>1. ASSUME NEW k \in Kits, NEW o \in Options, Start(k, o) PROVE BaselineInv'
    BY <2>1 DEF Start
  <2>2. ASSUME NEW k \in Dockerfiles, Edit(k) PROVE BaselineInv'
    BY <2>2 DEF Edit
  <2>3. CASE Probe
    BY <2>3 DEF Probe, Abort
  <2>4. CASE RemoveStale
    BY <2>4 DEF RemoveStale
  <2>5. CASE PolicyInit
    BY <2>5 DEF PolicyInit
  <2>6. CASE PolicyReset
    BY <2>6 DEF PolicyReset
  <2>7. CASE PolicyReinit
    BY <2>7 DEF PolicyReinit, Abort
  <2>8. CASE BuildImage
    BY <2>8 DEF BuildImage, Abort
  <2>9. CASE LoadImage
    BY <2>9 DEF LoadImage, Abort
  <2>10. CASE NameLog
    BY <2>10 DEF NameLog, Abort
  <2>11. CASE LoadSuite
    BY <2>11 DEF LoadSuite, Unwind
  <2>12. CASE RecordName
    BY <2>12 DEF RecordName
  <2>13. CASE CreateCollides
    BY <2>13 DEF CreateCollides, Unwind
  <2>14. CASE CreateSucceeds
    BY <2>14 DEF CreateSucceeds, Bootable
  <2>15. CASE CreateFails
    BY <2>15 DEF CreateFails, Unwind
  <2>16. CASE RenameCopy
    BY <2>16 DEF RenameCopy, Unwind
  <2>17. CASE AssertContent
    BY <2>17 DEF AssertContent
  <2>18. CASE Poll
    BY <2>18 DEF Poll
  <2>19. CASE Sleep
    BY <2>19 DEF Sleep, Unwind
  <2>20. CASE Prompt
    BY <2>20 DEF Prompt, Unwind
  <2>21. CASE RunCleanup
    BY <2>21 DEF RunCleanup
  <2>22. CASE GoTestReturns
    BY <2>22 DEF GoTestReturns
  <2>23. CASE ExitTrap
    BY <2>23 DEF ExitTrap
  <2>24. CASE OtherInit
    BY <2>24 DEF OtherInit
  <2>25. CASE Expire
    BY <2>25 DEF Expire
  <2>26. CASE Interrupt
    BY <2>26 DEF Interrupt
  <2>27. CASE Die
    BY <2>27 DEF Die, CreateCut
  <2>28. CASE UNCHANGED vars
    BY <2>28 DEF vars
  <2> QED BY <2>1, <2>2, <2>3, <2>4, <2>5, <2>6, <2>7, <2>8, <2>9,
         <2>10, <2>11, <2>12, <2>13, <2>14, <2>15, <2>16, <2>17, <2>18, <2>19,
         <2>20, <2>21, <2>22, <2>23, <2>24, <2>25, <2>26, <2>27, <2>28
         DEF Next, Step, Environment
<1>3. BaselineInv => BaselineWhileTesting
  BY DEF BaselineWhileTesting
<1> QED BY <1>1, <1>2, <1>3, PTL DEF Spec
-----------------------------------------------------------------------------
(* createSbx's cleanup and the script's removal of stale sandboxes: what a *)
(* failed run left behind is only ever removed by a later run, before that *)
(* run creates its own.                                                    *)
THEOREM EvidenceIsKept == Spec => EvidenceKept
<1> DEFINE Kept == \A r \in boxes \cap failed : r \in boxes' \/ (pc = "stale" /\ r < run)
<1>1. TypeInv /\ [Next]_vars => [Kept]_vars
  <2> SUFFICES ASSUME TypeInv, [Next]_vars PROVE Kept \/ UNCHANGED vars
    OBVIOUS
  <2> USE DEF InTest, Local, daemon, setup, create, report
  <2>1. ASSUME NEW k \in Kits, NEW o \in Options, Start(k, o) PROVE Kept \/ UNCHANGED vars
    BY <2>1 DEF Start
  <2>2. ASSUME NEW k \in Dockerfiles, Edit(k) PROVE Kept \/ UNCHANGED vars
    BY <2>2 DEF Edit
  <2>3. CASE Probe
    BY <2>3 DEF Probe, Abort
  <2>4. CASE RemoveStale
    BY <2>4, HarnessAssumption DEF RemoveStale, TypeInv, TypeOK, DaemonOK, Positions, Script, AllRuns
  <2>5. CASE PolicyInit
    BY <2>5 DEF PolicyInit
  <2>6. CASE PolicyReset
    BY <2>6 DEF PolicyReset
  <2>7. CASE PolicyReinit
    BY <2>7 DEF PolicyReinit, Abort
  <2>8. CASE BuildImage
    BY <2>8 DEF BuildImage, Abort
  <2>9. CASE LoadImage
    BY <2>9 DEF LoadImage, Abort
  <2>10. CASE NameLog
    BY <2>10 DEF NameLog, Abort
  <2>11. CASE LoadSuite
    BY <2>11 DEF LoadSuite, Unwind
  <2>12. CASE RecordName
    BY <2>12 DEF RecordName
  <2>13. CASE CreateCollides
    BY <2>13 DEF CreateCollides, Unwind
  <2>14. CASE CreateSucceeds
    BY <2>14 DEF CreateSucceeds, Bootable
  <2>15. CASE CreateFails
    BY <2>15 DEF CreateFails, Unwind
  <2>16. CASE RenameCopy
    BY <2>16 DEF RenameCopy, Unwind
  <2>17. CASE AssertContent
    BY <2>17 DEF AssertContent
  <2>18. CASE Poll
    BY <2>18 DEF Poll
  <2>19. CASE Sleep
    BY <2>19 DEF Sleep, Unwind
  <2>20. CASE Prompt
    BY <2>20 DEF Prompt, Unwind
  <2>21. CASE RunCleanup
    BY <2>21 DEF RunCleanup
  <2>22. CASE GoTestReturns
    BY <2>22 DEF GoTestReturns
  <2>23. CASE ExitTrap
    BY <2>23 DEF ExitTrap
  <2>24. CASE OtherInit
    BY <2>24 DEF OtherInit
  <2>25. CASE Expire
    BY <2>25 DEF Expire
  <2>26. CASE Interrupt
    BY <2>26 DEF Interrupt, CreateCut, InGoTest
  <2>27. CASE Die
    BY <2>27 DEF Die, CreateCut
  <2>28. CASE UNCHANGED vars
    BY <2>28 DEF vars
  <2> QED BY <2>1, <2>2, <2>3, <2>4, <2>5, <2>6, <2>7, <2>8, <2>9,
         <2>10, <2>11, <2>12, <2>13, <2>14, <2>15, <2>16, <2>17, <2>18, <2>19,
         <2>20, <2>21, <2>22, <2>23, <2>24, <2>25, <2>26, <2>27, <2>28
         DEF Next, Step, Environment
<1> QED BY <1>1, HarnessTypes, PTL DEF EvidenceKept, Spec
-----------------------------------------------------------------------------
(* on_exit over what createSbx recorded: requests blocked during a failed  *)
(* run are shown, or the trap says it cannot tell.                         *)
THEOREM BlockedAreReported == Spec => []BlockedIsReported
<1> DEFINE I == TypeInv /\ BlockedIsReported
<1>1. Init => BlockedIsReported
  BY DEF Init, BlockedIsReported
<1>2. I /\ [Next]_vars => BlockedIsReported'
  <2> SUFFICES ASSUME I, [Next]_vars PROVE BlockedIsReported'
    OBVIOUS
  <2> USE DEF BlockedIsReported, Goto, InTest, Local, setup, create, report
  <2>1. ASSUME NEW k \in Kits, NEW o \in Options, Start(k, o) PROVE BlockedIsReported'
    BY <2>1 DEF Start
  <2>2. ASSUME NEW k \in Dockerfiles, Edit(k) PROVE BlockedIsReported'
    BY <2>2 DEF Edit
  <2>3. CASE Probe
    BY <2>3 DEF Probe, Abort
  <2>4. CASE RemoveStale
    BY <2>4 DEF RemoveStale
  <2>5. CASE PolicyInit
    BY <2>5 DEF PolicyInit
  <2>6. CASE PolicyReset
    BY <2>6 DEF PolicyReset
  <2>7. CASE PolicyReinit
    BY <2>7 DEF PolicyReinit, Abort
  <2>8. CASE BuildImage
    BY <2>8 DEF BuildImage, Abort
  <2>9. CASE LoadImage
    BY <2>9 DEF LoadImage, Abort
  <2>10. CASE NameLog
    BY <2>10 DEF NameLog, Abort
  <2>11. CASE LoadSuite
    BY <2>11 DEF LoadSuite, Unwind
  <2>12. CASE RecordName
    BY <2>12 DEF RecordName
  <2>13. CASE CreateCollides
    BY <2>13 DEF CreateCollides, Unwind
  <2>14. CASE CreateSucceeds
    BY <2>14 DEF CreateSucceeds, Bootable
  <2>15. CASE CreateFails
    BY <2>15 DEF CreateFails, Unwind
  <2>16. CASE RenameCopy
    BY <2>16 DEF RenameCopy, Unwind
  <2>17. CASE AssertContent
    BY <2>17 DEF AssertContent
  <2>18. CASE Poll
    BY <2>18 DEF Poll
  <2>19. CASE Sleep
    BY <2>19 DEF Sleep, Unwind
  <2>20. CASE Prompt
    BY <2>20 DEF Prompt, Unwind
  <2>21. CASE RunCleanup
    BY <2>21 DEF RunCleanup
  <2>22. CASE GoTestReturns
    BY <2>22 DEF GoTestReturns
  <2>23. CASE ExitTrap
    BY <2>23 DEF ExitTrap, TypeInv, TypeOK, StageOK, Positions
  <2>24. CASE OtherInit
    BY <2>24 DEF OtherInit
  <2>25. CASE Expire
    BY <2>25 DEF Expire
  <2>26. CASE Interrupt
    BY <2>26 DEF Interrupt, CreateCut, InGoTest
  <2>27. CASE Die
    BY <2>27 DEF Die, CreateCut
  <2>28. CASE UNCHANGED vars
    BY <2>28 DEF vars
  <2> QED BY <2>1, <2>2, <2>3, <2>4, <2>5, <2>6, <2>7, <2>8, <2>9,
         <2>10, <2>11, <2>12, <2>13, <2>14, <2>15, <2>16, <2>17, <2>18, <2>19,
         <2>20, <2>21, <2>22, <2>23, <2>24, <2>25, <2>26, <2>27, <2>28
         DEF Next, Step, Environment
<1> QED BY <1>1, <1>2, HarnessTypes, PTL DEF Spec
-----------------------------------------------------------------------------
(* Every temporary file has its remover: the tar the load step, the name   *)
(* log the trap, the rest a cleanup that is registered.                    *)
Registered == {cleanups[i] : i \in 1 .. Len(cleanups)}
LeftInv ==
    /\ pc \in Script => cleanups = <<>> /\ tmp \subseteq (IF pc = "load" THEN {"tar"} ELSE {})
    /\ pc \in {"suite", "record"} => cleanups = <<>>
    /\ pc \in InGoTest => tmp \subseteq {"namelog"} \cup Registered
    /\ pc \in Script \cup InGoTest => end = "none"
    /\ pc = "exit" => \/ end = "none" /\ tmp \subseteq {"namelog"}
                      \/ end = "interrupted" /\ tmp \subseteq {"namelog", "workspace", "copy"}
    /\ NothingLeftBehind

(* The script and createSbx's cleanups: a run that was not killed leaves   *)
(* no temporary file on any path, an interrupted one only what the test's  *)
(* own cleanups would have removed.                                        *)
THEOREM NothingIsLeft == Spec => []NothingLeftBehind
<1> DEFINE I == TypeInv /\ LeftInv
<1> USE DEF LeftInv, NothingLeftBehind, Registered, Script, InGoTest
<1>1. Init => LeftInv
  BY DEF Init
<1>2. I /\ [Next]_vars => LeftInv'
  <2> SUFFICES ASSUME I, [Next]_vars PROVE LeftInv'
    OBVIOUS
  <2> USE DEF Goto, InTest, Local, setup, create, report
  <2>1. ASSUME NEW k \in Kits, NEW o \in Options, Start(k, o) PROVE LeftInv'
    BY <2>1 DEF Start
  <2>2. ASSUME NEW k \in Dockerfiles, Edit(k) PROVE LeftInv'
    BY <2>2 DEF Edit
  <2>3. CASE Probe
    BY <2>3 DEF Probe, Abort
  <2>4. CASE RemoveStale
    BY <2>4 DEF RemoveStale
  <2>5. CASE PolicyInit
    BY <2>5 DEF PolicyInit
  <2>6. CASE PolicyReset
    BY <2>6 DEF PolicyReset
  <2>7. CASE PolicyReinit
    BY <2>7 DEF PolicyReinit, Abort
  <2>8. CASE BuildImage
    BY <2>8 DEF BuildImage, Abort
  <2>9. CASE LoadImage
    BY <2>9 DEF LoadImage, Abort
  <2>10. CASE NameLog
    BY <2>10 DEF NameLog, Abort
  <2>11. CASE LoadSuite
    BY <2>11 DEF LoadSuite, Unwind
  <2>12. CASE RecordName
    BY <2>12 DEF RecordName
  <2>13. CASE CreateCollides
    BY <2>13 DEF CreateCollides, Unwind
  <2>14. CASE CreateSucceeds
    BY <2>14 DEF CreateSucceeds, Bootable
  <2>15. CASE CreateFails
    BY <2>15 DEF CreateFails, Unwind
  <2>16. CASE RenameCopy
    BY <2>16 DEF RenameCopy, Unwind
  <2>17. CASE AssertContent
    BY <2>17 DEF AssertContent
  <2>18. CASE Poll
    BY <2>18 DEF Poll
  <2>19. CASE Sleep
    BY <2>19 DEF Sleep, Unwind
  <2>20. CASE Prompt
    BY <2>20 DEF Prompt, Unwind
  <2>21. CASE RunCleanup
    BY <2>21 DEF RunCleanup
  <2>22. CASE GoTestReturns
    BY <2>22 DEF GoTestReturns
  <2>23. CASE ExitTrap
    BY <2>23 DEF ExitTrap
  <2>24. CASE OtherInit
    BY <2>24 DEF OtherInit
  <2>25. CASE Expire
    BY <2>25 DEF Expire
  <2>26. CASE Interrupt
    <3>1. Registered \subseteq {"workspace", "box", "copy"} /\ tmp \subseteq Temporaries
      BY DEF TypeInv, TypeOK, CleanupsOK
    <3>2. tmp \subseteq {"namelog", "workspace", "copy"}
      BY <2>26, <3>1 DEF Interrupt, Temporaries
    <3> QED BY <2>26, <3>2 DEF Interrupt
  <2>27. CASE Die
    BY <2>27 DEF Die, CreateCut
  <2>28. CASE UNCHANGED vars
    BY <2>28 DEF vars
  <2> QED BY <2>1, <2>2, <2>3, <2>4, <2>5, <2>6, <2>7, <2>8, <2>9,
         <2>10, <2>11, <2>12, <2>13, <2>14, <2>15, <2>16, <2>17, <2>18, <2>19,
         <2>20, <2>21, <2>22, <2>23, <2>24, <2>25, <2>26, <2>27, <2>28
         DEF Next, Step, Environment
<1>3. LeftInv => NothingLeftBehind
  OBVIOUS
<1> QED BY <1>1, <1>2, <1>3, HarnessTypes, PTL DEF Spec
-----------------------------------------------------------------------------
(* From the load to the create, the store has the image of this tree, and  *)
(* sbx is told to boot from nothing else.                                  *)
Asked == run # 0 /\ Loads(kit) /\ opts.pull = "unset" /\ kit \notin Misfiled
PastLoad == {"namelog", "suite", "record", "create", "rename"}
TreeInv ==
    /\ TestsTreeImage
    /\ Asked /\ pc \in PastLoad => pull = "never" /\ store[kit] = "tree"

(* test-kit-e2e.sh: a kit with a Dockerfile is tested on the image that    *)
(* its working tree builds, whatever runs before it loaded and pulled.     *)
THEOREM TreeIsTested == Spec => []TestsTreeImage
<1> USE HarnessAssumption DEF TreeInv, Asked, PastLoad, TestsTreeImage, Loads, kit
<1>1. Init => TreeInv
  BY DEF Init
<1>2. TypeInv /\ TreeInv /\ [Next]_vars => TreeInv'
  <2> SUFFICES ASSUME TypeInv, TreeInv, [Next]_vars PROVE TreeInv'
    OBVIOUS
  <2> USE DEF Goto, InTest, Local, daemon, setup, create, report
  <2>1. ASSUME UNCHANGED <<run, kitOf, opts, image>>,
               pc' \in PastLoad => pc \in PastLoad /\ UNCHANGED <<pull, store>>
        PROVE  TreeInv'
    BY <2>1
  <2>2. ASSUME NEW k \in Kits, NEW o \in Options, Start(k, o) PROVE TreeInv'
    BY <2>2 DEF Start
  <2>3. CASE Probe \/ RemoveStale \/ PolicyInit \/ PolicyReset \/ PolicyReinit
    BY <2>1, <2>3 DEF Probe, RemoveStale, PolicyInit, PolicyReset, PolicyReinit, Abort
  <2>4. CASE BuildImage
    BY <2>4 DEF BuildImage, Abort
  <2>5. CASE LoadImage
    BY <2>5 DEF LoadImage, Abort, TypeInv, TypeOK, DaemonOK
  <2>6. CASE NameLog \/ LoadSuite \/ RecordName \/ CreateCollides \/ CreateFails
    BY <2>1, <2>6 DEF NameLog, LoadSuite, RecordName, CreateCollides, CreateFails, Unwind, Abort
  <2>7. CASE CreateSucceeds
    <3>1. Asked => image' \in {"tree"}
      BY <2>7 DEF CreateSucceeds, Bootable
    <3>2. pc' = "assert" /\ UNCHANGED <<run, kitOf, opts>>
      BY <2>7 DEF CreateSucceeds
    <3> QED BY <3>1, <3>2
  <2>8. CASE RenameCopy \/ AssertContent \/ Poll \/ Sleep \/ Prompt
    BY <2>1, <2>8 DEF RenameCopy, AssertContent, Poll, Sleep, Prompt, Unwind
  <2>9. CASE RunCleanup \/ GoTestReturns \/ ExitTrap
    BY <2>1, <2>9 DEF RunCleanup, GoTestReturns, ExitTrap
  <2>10. ASSUME NEW k \in Dockerfiles, Edit(k) PROVE TreeInv'
    BY <2>1, <2>10 DEF Edit
  <2>11. CASE OtherInit \/ Expire \/ Interrupt \/ Die
    BY <2>1, <2>11 DEF OtherInit, Expire, Interrupt, Die
  <2>12. CASE UNCHANGED vars
    BY <2>1, <2>12 DEF vars
  <2> QED
    BY <2>2, <2>3, <2>4, <2>5, <2>6, <2>7, <2>8, <2>9, <2>10, <2>11, <2>12
    DEF Next, Step, Environment
<1> QED BY <1>1, <1>2, HarnessTypes, PTL DEF Spec
=============================================================================
