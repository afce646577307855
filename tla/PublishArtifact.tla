-------------------------- MODULE PublishArtifact --------------------------
(***************************************************************************)
(* scripts/publish-artifact.sh, run by any number of workflow runs against *)
(* the one OCI repository of a kit.  Nothing in .github/workflows puts the *)
(* runs in a concurrency group, so their steps interleave; any of them can *)
(* fail, be cancelled or lose its runner between two steps, and be re-run. *)
(*                                                                         *)
(* A run belongs to one of two callers.  publish-one-kit.yml passes a tag  *)
(* <YYYYMMDD>-<sha> and MOVE_LATEST=true: these runs are the Movers.       *)
(* release-kit.yml passes a version tag and MOVE_LATEST=false.             *)
(***************************************************************************)
EXTENDS Naturals

CONSTANTS
    Runs,             \* workflow runs that publish this kit
    Movers,           \* those that run with MOVE_LATEST=true
    DryRuns,          \* those whose DRY_RUN expression is not empty
    Tags,             \* immutable tags
    Commits,          \* commits of the repository
    Valid,            \* commits whose kit directory `sbx kit validate` accepts
    Digests,          \* manifest digests the registry may come to hold
    RunTag,           \* RunTag[r]: the tag argument of run r
    RunCommit,        \* RunCommit[r]: the commit run r has checked out
    TagImmutability,  \* TRUE: the registry refuses to overwrite a tag
    MaxReruns,        \* bound: how often an ended run is re-run, in all
    None

(* A dated tag carries the commit, so runs that share one share the commit *)
(* and are all Movers; a version never has the form of a dated tag.        *)
ASSUME PublishAssumption ==
    /\ Movers \subseteq Runs
    /\ DryRuns \subseteq Runs
    /\ Valid \subseteq Commits
    /\ RunTag \in [Runs -> Tags]
    /\ RunCommit \in [Runs -> Commits]
    /\ TagImmutability \in BOOLEAN
    /\ MaxReruns \in Nat
    /\ None \notin Digests
    /\ None \notin Commits
    /\ \A r \in Movers, s \in Runs :
          RunTag[s] = RunTag[r] => s \in Movers /\ RunCommit[s] = RunCommit[r]

VARIABLES
    tags,       \* registry: what each immutable tag resolves to
    latest,     \* registry: what the rolling tag resolves to
    manifest,   \* registry: the commit whose kit a stored manifest packs
    signed,     \* registry: digests that carry a signature referrer
    pc,         \* the step each run is at
    digest,     \* the script's $digest
    reused,     \* the script's $reused
    reruns,     \* how many re-runs there have been
    mine,       \* history: the digest this attempt pushed
    overtaken,  \* history: runs whose "not published yet" has gone stale
    rolled      \* history: the tags whose manifest latest has named

registry == <<tags, latest, manifest, signed>>
script   == <<pc, digest, reused, reruns>>
history  == <<mine, overtaken, rolled>>
vars     == <<registry, script, history>>

Steps == {"idle", "validate", "probe", "push", "sign", "readback", "retag",
          "done", "failed"}
Running(r) == pc[r] \notin {"idle", "done", "failed"}

TypeOK ==
    /\ tags \in [Tags -> Digests \cup {None}]
    /\ latest \in Digests \cup {None}
    /\ manifest \in [Digests -> Commits \cup {None}]
    /\ signed \in SUBSET Digests
    /\ pc \in [Runs -> Steps]
    /\ digest \in [Runs -> Digests \cup {None}]
    /\ reused \in [Runs -> BOOLEAN]
    /\ reruns \in 0..MaxReruns
    /\ mine \in [Runs -> Digests \cup {None}]
    /\ overtaken \in SUBSET Runs
    /\ rolled \in SUBSET Tags

Init ==
    /\ tags = [t \in Tags |-> None]
    /\ latest = None
    /\ manifest = [d \in Digests |-> None]
    /\ signed = {}
    /\ pc = [r \in Runs |-> "idle"]
    /\ digest = [r \in Runs |-> None]
    /\ reused = [r \in Runs |-> FALSE]
    /\ reruns = 0
    /\ mine = [r \in Runs |-> None]
    /\ overtaken = {}
    /\ rolled = {}
-----------------------------------------------------------------------------
Goto(r, step) == pc' = [pc EXCEPT ![r] = step]

(* Faults that a change to the script could introduce; each is used in     *)
(* place of the action it is named after to show what a property notices.  *)
ValidateOrDryRun(r) ==      \* the dry run skips validation, not the publish
    /\ pc[r] = "validate"
    /\ Goto(r, IF RunCommit[r] \notin Valid /\ r \notin DryRuns
               THEN "failed" ELSE "probe")
    /\ UNCHANGED <<registry, digest, reused, reruns, history>>

ProbeAnyErrorIsAbsent(r) == \* "could not tell" taken for "not published"
    /\ pc[r] = "probe"
    /\ Goto(r, "push")
    /\ UNCHANGED <<registry, digest, reused, reruns, history>>

ProbeForgetsReused(r) ==    \* the reuse branch loses `reused=true`
    /\ pc[r] = "probe"
    /\ digest' = [digest EXCEPT ![r] = tags[RunTag[r]]]
    /\ Goto(r, IF tags[RunTag[r]] = None THEN "push" ELSE "retag")
    /\ UNCHANGED <<registry, reused, reruns, history>>

ProbeExitsEarly(r) ==       \* a tag that exists ends the run in success
    /\ pc[r] = "probe"
    /\ Goto(r, IF tags[RunTag[r]] = None THEN "push" ELSE "done")
    /\ UNCHANGED <<registry, digest, reused, reruns, history>>

SignReadsDigest(r) ==       \* signs $digest, which is read back only later
    /\ pc[r] = "sign"
    /\ signed' = signed \cup {digest[r]}
    /\ Goto(r, "readback")
    /\ UNCHANGED <<tags, latest, manifest, digest, reused, reruns, history>>

ReadBackThenRetag(r) ==     \* MOVE_LATEST no longer looked at
    /\ pc[r] = "readback"
    /\ digest' = [digest EXCEPT ![r] = tags[RunTag[r]]]
    /\ Goto(r, "retag")
    /\ UNCHANGED <<registry, reused, reruns, history>>

FailUntags(r) ==            \* a failing run "cleans up" the tag it pushed
    /\ Running(r)
    /\ Goto(r, "failed")
    /\ tags' = [tags EXCEPT ![RunTag[r]] =
                   IF @ = mine[r] THEN None ELSE @]
    /\ UNCHANGED <<latest, manifest, signed, digest, reused, reruns, history>>

(* The job starts, or is re-run after it ended: a fresh process, so the    *)
(* script's variables are unset and only the registry remembers.           *)
Start(r) ==
    /\ \/ pc[r] = "idle" /\ UNCHANGED reruns
       \/ /\ pc[r] \in {"done", "failed"}
          /\ reruns < MaxReruns
          /\ reruns' = reruns + 1
    /\ Goto(r, "validate")
    /\ digest' = [digest EXCEPT ![r] = None]
    /\ reused' = [reused EXCEPT ![r] = FALSE]
    /\ mine' = [mine EXCEPT ![r] = None]
    /\ overtaken' = overtaken \ {r}
    /\ UNCHANGED <<registry, rolled>>

(* `sbx kit validate`, and only then the dry run's exit.                   *)
Validate(r) ==
    /\ pc[r] = "validate"
    /\ Goto(r, IF RunCommit[r] \notin Valid THEN "failed"
               ELSE IF r \in DryRuns THEN "done" ELSE "probe")
    /\ UNCHANGED <<registry, digest, reused, reruns, history>>

(* `oras manifest fetch` answers.  A tag that exists is reused by a Mover  *)
(* and refused to a release; "could not tell" is Fail.                     *)
Probe(r) ==
    /\ pc[r] = "probe"
    /\ \/ /\ tags[RunTag[r]] = None
          /\ Goto(r, "push")
          /\ UNCHANGED <<digest, reused>>
       \/ /\ tags[RunTag[r]] # None
          /\ r \in Movers
          /\ Goto(r, "retag")
          /\ digest' = [digest EXCEPT ![r] = tags[RunTag[r]]]
          /\ reused' = [reused EXCEPT ![r] = TRUE]
       \/ /\ tags[RunTag[r]] # None
          /\ r \notin Movers
          /\ Goto(r, "failed")
          /\ UNCHANGED <<digest, reused>>
    /\ UNCHANGED <<registry, reruns, history>>

(* Packing stamps the second of creation, so a push mints a new digest     *)
(* unless the same kit was packed within the same second.                  *)
Packed(r) == {d \in Digests : manifest[d] \in {None, RunCommit[r]}}

(* First half of `sbx kit push --sign`: the manifest lands, unsigned,      *)
(* unless the registry enforces immutability and the tag is taken.         *)
PushManifest(r) ==
    LET t == RunTag[r] IN
    /\ pc[r] = "push"
    /\ \/ /\ TagImmutability /\ tags[t] # None
          /\ Goto(r, "failed")
          /\ UNCHANGED <<registry, mine, overtaken>>
       \/ /\ ~TagImmutability \/ tags[t] = None
          /\ \E d \in Packed(r) :
                /\ manifest' = [manifest EXCEPT ![d] = RunCommit[r]]
                /\ tags' = [tags EXCEPT ![t] = d]
                /\ mine' = [mine EXCEPT ![r] = d]
          /\ overtaken' = overtaken \cup
                {s \in Runs \ {r} : RunTag[s] = t /\ pc[s] = "push"}
          /\ Goto(r, "sign")
          /\ UNCHANGED <<latest, signed>>
    /\ UNCHANGED <<digest, reused, reruns, rolled>>

(* Second half: the signature is attached to the digest just pushed.       *)
Sign(r) ==
    /\ pc[r] = "sign"
    /\ signed' = signed \cup {mine[r]}
    /\ Goto(r, "readback")
    /\ UNCHANGED <<tags, latest, manifest, digest, reused, reruns, history>>

(* The push does not echo the digest, so the script resolves the tag again.*)
ReadBack(r) ==
    /\ pc[r] = "readback"
    /\ digest' = [digest EXCEPT ![r] = tags[RunTag[r]]]
    /\ Goto(r, IF r \in Movers THEN "retag" ELSE "done")
    /\ UNCHANGED <<registry, reused, reruns, history>>

(* `oras tag <ref>@<digest> latest`.                                       *)
Retag(r) ==
    /\ pc[r] = "retag"
    /\ latest' = digest[r]
    /\ rolled' = rolled \cup {RunTag[r]}
    /\ Goto(r, "done")
    /\ UNCHANGED <<tags, manifest, signed, digest, reused, reruns, mine,
                   overtaken>>

(* set -e on a failing command, a registry error, a cancelled job, a       *)
(* runner lost or timed out: the run ends where it stands.                 *)
Fail(r) ==
    /\ Running(r)
    /\ Goto(r, "failed")
    /\ UNCHANGED <<registry, digest, reused, reruns, history>>

Step(r) == \/ Validate(r) \/ Probe(r) \/ PushManifest(r) \/ Sign(r)
           \/ ReadBack(r) \/ Retag(r)

Next == \E r \in Runs : Start(r) \/ Step(r) \/ Fail(r)

Spec == Init /\ [][Next]_vars

(* A started job keeps being scheduled, every run is triggered once, and   *)
(* somebody re-runs a continuous run that failed.                          *)
Fairness == \A r \in Runs :
               /\ WF_vars(Step(r))
               /\ WF_vars(pc[r] \in {"idle", "failed"} /\ Start(r))

FairSpec == Spec /\ Fairness
-----------------------------------------------------------------------------
(* Safety.                                                                 *)

(* A tag names the kit of a commit that a run was started for with that    *)
(* very tag, and that commit's kit had passed validation: whatever         *)
(* overwrites, re-runs and half-done pushes happen (publish-artifact.sh    *)
(* composes the reference itself and validates before anything else).      *)
TagNamesItsCommit ==
    \A t \in Tags : tags[t] # None =>
        \E r \in Runs \ DryRuns : /\ RunTag[r] = t
                                  /\ manifest[tags[t]] = RunCommit[r]
                                  /\ RunCommit[r] \in Valid

(* "latest follows main": the rolling tag only ever names the kit of a     *)
(* commit that a continuous run published, never a release's, and it has   *)
(* named no tag that is not published.                                     *)
LatestIsContinuous ==
    latest # None =>
        \E r \in Movers \ DryRuns : /\ manifest[latest] = RunCommit[r]
                                    /\ RunTag[r] \in rolled
                                    /\ tags[RunTag[r]] # None

(* A published tag changes only under a run that found it absent before    *)
(* another run's push landed.  Without that overlap the probe protects it: *)
(* no re-run, retry or probe failure ever overwrites a tag.                *)
OverwriteNeedsRace ==
    [][\A t \in Tags : tags[t] # None /\ tags'[t] # tags[t] =>
          \E r \in overtaken : RunTag[r] = t /\ pc[r] = "push"]_vars

(* Where the registry enforces immutability: a run that reports pushed=true*)
(* and a digest reports the manifest it pushed itself, that its tag still  *)
(* names, and whose signature was attached.                                *)
ReportsOwnSignedPush ==
    \A r \in Runs \ DryRuns :
        pc[r] \in {"retag", "done"} /\ ~reused[r] =>
            /\ digest[r] = mine[r]
            /\ digest[r] = tags[RunTag[r]]
            /\ digest[r] \in signed

(* Liveness: once a dated tag is published, the rolling tag gets to name   *)
(* it, by the run that pushed it or by a re-run that finds it and reuses   *)
(* it; unless every run of that tag failed and nobody re-runs it any more. *)
GivenUp(t) == \A r \in Movers \ DryRuns :
                 RunTag[r] = t => pc[r] = "failed" /\ reruns = MaxReruns
PublishedTagRolls ==
    \A r \in Movers : tags[RunTag[r]] # None ~>
                         RunTag[r] \in rolled \/ GivenUp(RunTag[r])
-----------------------------------------------------------------------------
(* What the repository's text says and its code does not guarantee.        *)

(* publish-artifact.sh: the retag is by digest "so a racing push cannot    *)
(* swap what `latest` ends up pointing at".                                *)
RacingPushCannotSwap ==
    \A r \in Movers : pc[r] = "retag" /\ ~reused[r] => digest[r] = mine[r]

(* PUBLISHING.md: each push is signed, "giving one digest, one signature   *)
(* and one provenance referrer across both tags".                          *)
LatestSigned == latest # None => latest \in signed
-----------------------------------------------------------------------------
(* The abstract repository this one implements where TagImmutability.      *)
Repository == INSTANCE KitRepository
RepositorySpec == Repository!Spec
=============================================================================
