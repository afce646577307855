----------------------------- MODULE E2EHarness -----------------------------
(***************************************************************************)
(* scripts/test-kit-e2e.sh and the Go test it drives (tck/e2e.go,          *)
(* tck/e2e_rename.go), run after run on one machine against one scoped sbx *)
(* daemon.  The daemon keeps its sandboxes, its network policy and its     *)
(* image store between runs; a failed run leaves its sandbox behind on     *)
(* purpose, and the next run of the kit removes it.  Runs do not overlap:  *)
(* the script says a concurrent invocation is not supported.               *)
(*                                                                         *)
(* A sandbox is named by the number of the run that created it, its random *)
(* suffix; kitOf gives the kit, the rest of the name e2e-<kit>-<suffix>.   *)
(***************************************************************************)
EXTENDS Naturals, Sequences, FiniteSets

CONSTANTS
    Kits,
    Matches,      \* Matches[k]: kits whose directory name k is a prefix of, up to a "-"
    Dockerfiles,  \* kits that ship a Dockerfile
    Shadowed,     \* kits whose name a built-in agent of some sbx holds
    Reshadowed,   \* kits whose name with -e2e appended one may hold
    Extracted,    \* kits whose tck.yaml says extractedFromBuiltin
    Prompted,     \* kits of kind sandbox whose tck.yaml has promptArgs
    ReadyFiles,   \* kits whose tck.yaml has a readyFile
    Misfiled,     \* kits whose side-loaded image lands under another reference
    Options,      \* environments a run may be started under
    MaxRuns,      \* bound on the runs
    None

ASSUME HarnessAssumption ==
    /\ Matches \in [Kits -> SUBSET Kits]
    /\ \A k \in Kits : k \in Matches[k]
    /\ Dockerfiles \subseteq Kits /\ Prompted \subseteq Kits /\ ReadyFiles \subseteq Kits
    /\ Options \subseteq [baseline : BOOLEAN, load : BOOLEAN,
                          pull : {"unset", "never", "always"}]
    /\ MaxRuns \in Nat /\ None \notin Kits

VARIABLES
    boxes,     \* sandboxes the daemon has
    policy,    \* its global network policy: none, the baseline or another one
    store,     \* store[k]: what its image store has under the image k builds
    pc,        \* the step the current run is at
    run,       \* the current run, or the last one
    kitOf,     \* kitOf[r]: the kit of run r
    opts,      \* POLICY, SBX_KIT_SKIP_IMAGE_LOAD and SBX_E2E_PULL_POLICY
    failed,    \* runs that failed (t.Failed(), a non-zero exit)
    pull,      \* the --pull of the run's sbx create
    dir,       \* the kit directory given to it: the kit's or the renamed copy
    image,     \* the image the run's sandbox was booted from
    expired,   \* the run's ten-minute context is done
    recorded,  \* is the sandbox's name in $SBX_E2E_NAME_LOG?
    blocked,   \* the policy log has blocked requests under that name
    cleanups,  \* t.Cleanup functions registered, the last one first to run
    tmp,       \* temporary files of the run
    verdict,   \* what the exit trap says of egress
    end        \* how the run ended

daemon == <<boxes, policy, store>>
setup  == <<run, kitOf, opts>>
create == <<pull, dir, image, recorded>>
report == <<verdict, end>>
vars   == <<daemon, setup, create, report, pc, failed, expired, blocked, cleanups, tmp>>

kit == kitOf[run]
AllRuns == 1 .. MaxRuns
Temporaries == {"tar", "namelog", "workspace", "copy"}
InGoTest == {"suite", "record", "create", "rename", "assert", "wait", "sleep",
             "prompt", "cleanup"}
InContext == InGoTest \ {"cleanup"}
Script == {"probe", "stale", "policy", "reset", "reinit", "image", "load", "namelog"}

DaemonOK ==
    /\ boxes \subseteq AllRuns /\ failed \subseteq AllRuns
    /\ policy \in {"none", "baseline", "other"}
    /\ store \in [Dockerfiles -> {"none", "other", "tree"}]
    /\ run \in 0 .. MaxRuns
    /\ kitOf \in [AllRuns -> Kits \cup {None}]
    /\ opts \in Options

StageOK ==
    /\ pc \in {"idle", "exit"} \cup Script \cup InGoTest
    /\ pull \in {"unset", "never", "always"}
    /\ dir \in {"kit", "copy"}
    /\ image \in {"none", "other", "tree"}
    /\ recorded \in {"no", "yes", "lost"}
    /\ verdict \in {"none", "blocked", "unread", "clean", "unrecorded"}
    /\ end \in {"none", "aborted", "exited", "interrupted", "died"}

FlagsOK == expired \in BOOLEAN /\ blocked \in BOOLEAN
CleanupsOK == cleanups \in Seq({"workspace", "box", "copy"}) /\ tmp \subseteq Temporaries

(* A sandbox's name has been written down, or its writing has failed,      *)
(* before the sandbox can exist.                                           *)
NamedFirst == pc = "create" \/ (run # 0 /\ run \in boxes) => recorded # "no"

(* Types; and NamedFirst, which the exit trap depends on.                  *)
TypeOK == DaemonOK /\ StageOK /\ FlagsOK /\ CleanupsOK /\ NamedFirst

(* A reused daemon may be under any policy and hold pulled images.         *)
Init ==
    /\ boxes = {} /\ failed = {}
    /\ policy \in {"none", "baseline", "other"}
    /\ store \in [Dockerfiles -> {"none", "other"}]
    /\ pc = "idle" /\ run = 0 /\ kitOf = [r \in AllRuns |-> None]
    /\ opts \in Options
    /\ pull = "unset" /\ dir = "kit" /\ image = "none" /\ recorded = "no"
    /\ expired = FALSE /\ blocked = FALSE
    /\ cleanups = <<>> /\ tmp = {} /\ verdict = "none" /\ end = "none"
-----------------------------------------------------------------------------
(* test-kit-e2e.sh, up to the point where its exit trap is set.            *)
Goto(step) == pc' = step
Local == <<create, report, failed, expired, blocked, cleanups>>

(* exit before the trap is set: set -e, or an explicit exit 1.             *)
Abort ==
    /\ Goto("idle")
    /\ failed' = failed \cup {run}
    /\ end' = "aborted"
    /\ UNCHANGED <<setup, create, verdict, expired, blocked, cleanups>>

Start(k, o) ==
    /\ pc = "idle" /\ run < MaxRuns
    /\ Goto("probe")
    /\ run' = run + 1
    /\ kitOf' = [kitOf EXCEPT ![run + 1] = k]
    /\ opts' = o
    /\ pull' = o.pull /\ dir' = "kit" /\ image' = "none" /\ recorded' = "no"
    /\ expired' = FALSE /\ blocked' = FALSE
    /\ cleanups' = <<>> /\ tmp' = {} /\ verdict' = "none" /\ end' = "none"
    /\ UNCHANGED <<daemon, failed>>

(* The working tree moves on between two runs: the image of it that was    *)
(* loaded before is now an old one.                                        *)
Edit(k) ==
    /\ pc = "idle" /\ store[k] = "tree"
    /\ store' = [store EXCEPT ![k] = "other"]
    /\ UNCHANGED <<boxes, policy, setup, Local, pc, tmp>>

Probe ==
    /\ pc = "probe"
    /\ \/ Goto("stale") /\ UNCHANGED <<setup, Local>>
       \/ Abort
    /\ UNCHANGED <<daemon, tmp>>

(* Every name that starts with the prefix is removed; `sbx ls` may list    *)
(* nothing and `sbx rm -f` may fail, both silently.                        *)
RemoveStale ==
    /\ pc = "stale"
    /\ \E gone \in SUBSET {r \in boxes : kitOf[r] \in Matches[kit]} :
           boxes' = boxes \ gone
    /\ Goto(IF opts.baseline THEN "policy" ELSE "image")
    /\ UNCHANGED <<policy, store, setup, Local, tmp>>

(* init fails on a policy already set, and may fail for another reason.    *)
PolicyInit ==
    /\ pc = "policy"
    /\ \/ policy = "none" /\ policy' = "baseline" /\ Goto("image")
       \/ UNCHANGED policy /\ Goto("reset")
    /\ UNCHANGED <<boxes, store, setup, Local, tmp>>

(* reset's exit code is ignored: it may have left the policy as it was.    *)
PolicyReset ==
    /\ pc = "reset"
    /\ policy' \in {"none", policy}
    /\ Goto("reinit")
    /\ UNCHANGED <<boxes, store, setup, Local, tmp>>

(* "If anything else initialized the policy first": the chooser reset      *)
(* opens, or another client of the daemon.                                 *)
OtherInit ==
    /\ pc = "reinit" /\ policy = "none"
    /\ policy' \in {"baseline", "other"}
    /\ UNCHANGED <<boxes, store, setup, Local, pc, tmp>>

PolicyReinitUnchecked ==    \* mutant: `|| true`, as after the reset
    /\ pc = "reinit"
    /\ policy' = IF policy = "none" THEN "baseline" ELSE policy
    /\ Goto("image")
    /\ UNCHANGED <<boxes, store, setup, Local, tmp>>

PolicyReinit ==
    /\ pc = "reinit"
    /\ \/ /\ policy = "none" /\ policy' = "baseline" /\ Goto("image")
          /\ UNCHANGED <<setup, Local>>
       \/ UNCHANGED policy /\ Abort
    /\ UNCHANGED <<boxes, store, tmp>>

Loads(k) == k \in Dockerfiles /\ opts.load

(* docker build and mktemp, each of which may fail.                        *)
BuildImage ==
    /\ pc = "image"
    /\ \/ ~Loads(kit) /\ Goto("namelog") /\ UNCHANGED <<setup, Local, tmp>>
       \/ Loads(kit) /\ Goto("load") /\ tmp' = {"tar"} /\ UNCHANGED <<setup, Local>>
       \/ Loads(kit) /\ Abort /\ UNCHANGED tmp
    /\ UNCHANGED daemon

LoadImageUnpinned ==    \* mutant: SBX_E2E_PULL_POLICY is not exported
    /\ pc = "load"
    /\ tmp' = tmp \ {"tar"}
    /\ \/ /\ store' = [store EXCEPT ![kit] = "tree"]
          /\ Goto("namelog") /\ UNCHANGED <<setup, Local>>
       \/ UNCHANGED store /\ Abort
    /\ UNCHANGED <<boxes, policy>>

(* docker save, template load, rm of the tar, whatever came of them.       *)
LoadImage ==
    /\ pc = "load"
    /\ tmp' = tmp \ {"tar"}
    /\ \/ /\ store' = IF kit \in Misfiled THEN store ELSE [store EXCEPT ![kit] = "tree"]
          /\ pull' = IF opts.pull = "unset" THEN "never" ELSE opts.pull
          /\ Goto("namelog")
          /\ UNCHANGED <<setup, dir, image, recorded, report, failed, expired,
                         blocked, cleanups>>
       \/ UNCHANGED store /\ Abort
    /\ UNCHANGED <<boxes, policy>>

NameLog ==
    /\ pc = "namelog"
    /\ \/ tmp' = tmp \cup {"namelog"} /\ Goto("suite") /\ UNCHANGED <<setup, Local>>
       \/ UNCHANGED tmp /\ Abort
    /\ UNCHANGED daemon
-----------------------------------------------------------------------------
(* RunE2EKit.  require.* and t.Fatal unwind to the cleanups.               *)
InTest == UNCHANGED <<policy, setup, verdict, end>>

Unwind(fails) ==
    /\ Goto("cleanup")
    /\ failed' = IF fails THEN failed \cup {run} ELSE failed

(* NewSuiteFromDir, LookPath and loadKitTCKData may fail; a credential the *)
(* host has not stored skips the test.                                     *)
LoadSuite ==
    /\ pc = "suite"
    /\ \/ Goto("record") /\ UNCHANGED failed
       \/ \E fails \in BOOLEAN : Unwind(fails)
    /\ InTest /\ UNCHANGED <<boxes, store, create, expired, blocked, cleanups, tmp>>

RecordNameLate ==    \* mutant: the name is recorded once create succeeded
    /\ pc = "record"
    /\ tmp' = tmp \cup {"workspace"}
    /\ cleanups' = <<"workspace", "box">>
    /\ Goto("create")
    /\ InTest /\ UNCHANGED <<boxes, store, create, failed, expired, blocked>>

(* createSbx up to its first sbx create: the workspace, the name recorded  *)
(* as best it can be, the removal of the sandbox registered.               *)
RecordName ==
    /\ pc = "record"
    /\ tmp' = tmp \cup {"workspace"}
    /\ recorded' \in {"yes", "lost"}
    /\ cleanups' = <<"workspace", "box">>
    /\ Goto("create")
    /\ InTest /\ UNCHANGED <<boxes, store, pull, dir, image, failed, expired, blocked>>

(* Whether a built-in holds the name depends on the sbx installed.         *)
MayCollide == kit \in (IF dir = "kit" THEN Shadowed ELSE Reshadowed)

(* What sbx may boot a sandbox of kit k from.                              *)
Bootable(k) ==
    IF k \notin Dockerfiles THEN {"other"}
    ELSE (IF pull = "never" THEN {} ELSE {"other"})
         \cup (IF pull = "always" THEN {} ELSE {store[k]} \ {"none"})

(* After a collision: one retry, from a renamed copy, of a kit that says   *)
(* it was extracted from a built-in.                                       *)
CreateCollides ==
    /\ pc = "create" /\ MayCollide /\ ~expired
    /\ IF kit \in Extracted /\ dir = "kit"
       THEN Goto("rename") /\ UNCHANGED failed
       ELSE Unwind(TRUE)
    /\ InTest /\ UNCHANGED <<boxes, store, create, expired, blocked, cleanups, tmp>>

(* The image pulled for it stays in the store.                             *)
CreateSucceeds ==
    /\ pc = "create" /\ ~expired
    /\ image' \in Bootable(kit)
    /\ store' = IF kit \in Dockerfiles THEN [store EXCEPT ![kit] = image'] ELSE store
    /\ boxes' = boxes \cup {run}
    /\ blocked' \in BOOLEAN
    /\ Goto("assert")
    /\ InTest /\ UNCHANGED <<pull, dir, recorded, failed, expired, cleanups, tmp>>

(* Most failures are rolled back by the daemon, having blocked a request   *)
(* or not; a create killed by its context may leave its sandbox.           *)
CreateFails ==
    /\ pc = "create"
    /\ boxes' \in {boxes, boxes \cup {run}}
    /\ blocked' \in BOOLEAN
    /\ Unwind(TRUE)
    /\ InTest /\ UNCHANGED <<store, create, expired, cleanups, tmp>>

RenameCopyThenRegister ==    \* mutant: t.Cleanup comes after copyKitRenamed
    /\ pc = "rename"
    /\ tmp' = tmp \cup {"copy"}
    /\ \/ /\ cleanups' = Append(cleanups, "copy")
          /\ dir' = "copy" /\ Goto("create") /\ UNCHANGED failed
       \/ UNCHANGED <<cleanups, dir>> /\ Unwind(TRUE)
    /\ InTest /\ UNCHANGED <<boxes, store, pull, image, recorded, expired, blocked>>

(* MkdirTemp, the removal of the copy registered, copyKitRenamed.          *)
RenameCopy ==
    /\ pc = "rename"
    /\ \/ /\ tmp' = tmp \cup {"copy"}
          /\ cleanups' = Append(cleanups, "copy")
          /\ \/ dir' = "copy" /\ Goto("create") /\ UNCHANGED failed
             \/ UNCHANGED dir /\ Unwind(TRUE)
       \/ UNCHANGED <<tmp, cleanups, dir>> /\ Unwind(TRUE)
    /\ InTest /\ UNCHANGED <<boxes, store, pull, image, recorded, expired, blocked>>

(* The subtests env, files, tmpfs and agentContext: one that fails marks   *)
(* the test failed and the next goes on.  tmpfs always has something to    *)
(* ask, and asks it under the context.                                     *)
AssertContent ==
    /\ pc = "assert"
    /\ \E fails \in BOOLEAN :
        /\ expired => fails
        /\ failed' = IF fails THEN failed \cup {run} ELSE failed
    /\ Goto(IF kit \notin Prompted THEN "cleanup"
            ELSE IF kit \in ReadyFiles THEN "wait" ELSE "prompt")
    /\ blocked' \in {blocked, TRUE}
    /\ InTest /\ UNCHANGED <<boxes, store, create, expired, cleanups, tmp>>

(* waitForAgentReady: poll, then sleep ten seconds unless the context is   *)
(* done.                                                                   *)
Poll ==
    /\ pc = "wait"
    /\ \/ ~expired /\ Goto("prompt")
       \/ Goto("sleep")
    /\ InTest /\ UNCHANGED <<boxes, store, create, failed, expired, blocked, cleanups, tmp>>

SleepOnly ==    \* mutant: no case <-ctx.Done()
    /\ pc = "sleep"
    /\ Goto("wait")
    /\ InTest /\ UNCHANGED <<boxes, store, create, failed, expired, blocked, cleanups, tmp>>

Sleep ==
    /\ pc = "sleep"
    /\ IF expired THEN Unwind(TRUE) ELSE Goto("wait") /\ UNCHANGED failed
    /\ InTest /\ UNCHANGED <<boxes, store, create, expired, blocked, cleanups, tmp>>

(* Only empty output fails.                                                *)
Prompt ==
    /\ pc = "prompt"
    /\ \E fails \in BOOLEAN : (expired => fails) /\ Unwind(fails)
    /\ blocked' \in {blocked, TRUE}
    /\ InTest /\ UNCHANGED <<boxes, store, create, expired, cleanups, tmp>>

RunCleanupAlways ==    \* mutant: no t.Failed()
    /\ pc = "cleanup" /\ cleanups # <<>>
    /\ LET last == cleanups[Len(cleanups)]
       IN /\ boxes' \in IF last = "box" THEN {boxes, boxes \ {run}} ELSE {boxes}
          /\ tmp' = tmp \ {last}
    /\ cleanups' = SubSeq(cleanups, 1, Len(cleanups) - 1)
    /\ InTest /\ UNCHANGED <<store, create, pc, failed, expired, blocked>>

(* The last cleanup registered runs first.  The sandbox of a failed run is *)
(* kept; an rm that fails is only logged.                                  *)
RunCleanup ==
    /\ pc = "cleanup" /\ cleanups # <<>>
    /\ LET last == cleanups[Len(cleanups)]
       IN /\ boxes' \in IF last = "box" /\ run \notin failed
                        THEN {boxes, boxes \ {run}} ELSE {boxes}
          /\ tmp' = tmp \ {last}
    /\ cleanups' = SubSeq(cleanups, 1, Len(cleanups) - 1)
    /\ InTest /\ UNCHANGED <<store, create, pc, failed, expired, blocked>>

GoTestReturns ==
    /\ pc = "cleanup" /\ cleanups = <<>>
    /\ Goto("exit")
    /\ InTest /\ UNCHANGED <<boxes, store, create, failed, expired, blocked, cleanups, tmp>>

ExitTrapConflates ==    \* mutant: a log that cannot be read counts as clean
    /\ pc = "exit"
    /\ verdict' \in
         IF run \notin failed       THEN {"none"}
         ELSE IF recorded # "yes"   THEN {"unrecorded"}
         ELSE {"clean", IF blocked THEN "blocked" ELSE "clean"}
    /\ tmp' = tmp \ {"namelog"}
    /\ end' = IF end = "none" THEN "exited" ELSE end
    /\ Goto("idle")
    /\ UNCHANGED <<daemon, setup, create, failed, expired, blocked, cleanups>>

(* The exit trap: the policy log of the name recorded, which the daemon    *)
(* has whether or not the sandbox is still there; the read may fail.       *)
ExitTrap ==
    /\ pc = "exit"
    /\ verdict' \in
         IF run \notin failed       THEN {"none"}
         ELSE IF recorded # "yes"   THEN {"unrecorded"}
         ELSE {"unread", IF blocked THEN "blocked" ELSE "clean"}
    /\ tmp' = tmp \ {"namelog"}
    /\ end' = IF end = "none" THEN "exited" ELSE end
    /\ Goto("idle")
    /\ UNCHANGED <<daemon, setup, create, failed, expired, blocked, cleanups>>
-----------------------------------------------------------------------------
(* context.WithTimeout(10 minutes).                                        *)
Expire ==
    /\ pc \in InContext /\ ~expired
    /\ expired' = TRUE
    /\ UNCHANGED <<daemon, setup, create, report, pc, failed, blocked, cleanups, tmp>>

(* What sbx may have done of a create that is cut short, or still do.      *)
CreateCut ==
    \/ UNCHANGED <<boxes, blocked>>
    \/ /\ pc = "create"
       /\ boxes' \in {boxes, boxes \cup {run}}
       /\ blocked' \in {blocked, TRUE}

(* Control-C or go test's own -timeout: the test process ends without      *)
(* unwinding, the script's trap still runs.                                *)
Interrupt ==
    /\ pc \in InGoTest
    /\ Goto("exit")
    /\ failed' = failed \cup {run}
    /\ cleanups' = <<>>
    /\ end' = "interrupted"
    /\ CreateCut
    /\ UNCHANGED <<policy, store, setup, create, verdict, expired, tmp>>

(* The whole process tree is killed.                                       *)
Die ==
    /\ pc # "idle"
    /\ Goto("idle")
    /\ failed' = failed \cup {run}
    /\ cleanups' = <<>>
    /\ end' = "died"
    /\ CreateCut
    /\ UNCHANGED <<policy, store, setup, create, verdict, expired, tmp>>

Step ==
    \/ Probe \/ RemoveStale \/ PolicyInit \/ PolicyReset \/ PolicyReinit
    \/ BuildImage \/ LoadImage \/ NameLog
    \/ LoadSuite \/ RecordName \/ CreateCollides \/ CreateSucceeds \/ CreateFails
    \/ RenameCopy \/ AssertContent \/ Poll \/ Sleep \/ Prompt
    \/ RunCleanup \/ GoTestReturns \/ ExitTrap

Environment ==
    \/ \E k \in Kits, o \in Options : Start(k, o)
    \/ \E k \in Dockerfiles : Edit(k)
    \/ OtherInit \/ Expire \/ Interrupt \/ Die

Next == Step \/ Environment

Spec == Init /\ [][Next]_vars

(* A started script goes on, each of its commands returning; time passes.  *)
FairSpec == Spec /\ WF_vars(Step) /\ WF_vars(Expire)
-----------------------------------------------------------------------------
(* Whatever policy the daemon was left under and whoever else initializes  *)
(* it after the reset, the Go test only runs under the baseline asked for: *)
(* an init that is refused aborts the run (test-kit-e2e.sh, "instead of    *)
(* testing under a baseline we did not ask for").                          *)
BaselineWhileTesting ==
    pc \in InGoTest /\ opts.baseline => policy = "baseline"

(* A kit with a Dockerfile is tested on the image this working tree        *)
(* builds: not on an older one of the store nor on the published one, for  *)
(* all that earlier runs loaded and pulled, unless the environment said    *)
(* otherwise or the load filed it under another reference.                 *)
TestsTreeImage ==
    /\ run # 0 /\ Loads(kit) /\ opts.pull = "unset" /\ kit \notin Misfiled
    => image \in {"none", "tree"}

(* Requests blocked during a run that failed are never explained away, not *)
(* even when the sandbox was rolled back or its process interrupted: the   *)
(* trap shows them, or says that it could not read the log or has no name. *)
BlockedIsReported ==
    (pc = "idle" /\ end \in {"exited", "interrupted"} /\ run \in failed /\ blocked)
    => verdict \in {"blocked", "unread"} \/ (recorded = "lost" /\ verdict = "unrecorded")

(* The sandbox of a failed run, the evidence of what went wrong, is only   *)
(* ever removed by a later run before that run creates its own.            *)
EvidenceKept ==
    [][\A r \in boxes \cap failed : r \in boxes' \/ (pc = "stale" /\ r < run)]_vars

(* A run that was not killed leaves no temporary file, on whichever path   *)
(* it ended; one whose test was interrupted leaves at most what the test's *)
(* own cleanups would have removed.                                        *)
NothingLeftBehind ==
    pc = "idle" =>
        /\ end \in {"none", "aborted", "exited"} => tmp = {}
        /\ end = "interrupted" => tmp \subseteq {"workspace", "copy"}

(* Every run ends: the wait for a sentinel that never appears is cut by    *)
(* the context, and every other step returns.                              *)
RunEnds == (pc # "idle") ~> (pc = "idle")

(* The script says it cleans up "only this kit's own sandboxes, never      *)
(* someone else's leftovers under the same --app-name".                    *)
StaleOnlyOwn ==
    [][pc = "stale" => \A r \in boxes \ boxes' : kitOf[r] = kit]_vars
=============================================================================
