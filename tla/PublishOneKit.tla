--------------------------- MODULE PublishOneKit ---------------------------
(***************************************************************************)
(* The job graph image -> artifact -> overview that publish-one-kit.yml    *)
(* runs for one kit, over three shared places: the image repository        *)
(* <kit>-image, the artifact repository <kit>-kit (PublishArtifact) and    *)
(* the Hub page.  Runs come from build-and-publish-kits.yml (push,         *)
(* dispatch, schedule, pull_request), from release-kit.yml (release: the   *)
(* artifact job alone) and from a README edit (docs: the overview alone).  *)
(* They overlap freely: no workflow declares a concurrency group.          *)
(***************************************************************************)
EXTENDS PublishArtifact

CONSTANTS
    Event,          \* Event[r]: what triggered run r
    Worlds,         \* what a behaviour may be set in
    ImageDigests,   \* digests of images, each of one multi-arch build
    ImageDryRuns    \* runs whose image job's DRY_RUN is not empty

Events == {"push", "dispatch", "schedule", "pull_request", "release", "docs"}
GraphRuns == {r \in Runs : Event[r] \notin {"release", "docs"}}

(* The artifact's DRY_RUN expression has every disjunct of the image's.    *)
ASSUME GraphAssumption ==
    /\ Event \in [Runs -> Events]
    /\ Worlds \subseteq [dockerfiles : SUBSET Commits, triggered : SUBSET Runs,
                         credential : BOOLEAN, public : BOOLEAN]
    /\ ImageDryRuns \subseteq DryRuns
    /\ None \notin ImageDigests
    /\ \A r \in Runs : Event[r] = "pull_request" => r \in ImageDryRuns
    /\ \A r \in Runs : r \in Movers <=> r \in GraphRuns

VARIABLES
    world,          \* .dockerfiles: the commits at which the kit ships a Dockerfile
                    \* .triggered: the runs there are
                    \* .credential: the Hub user and token of hub-overview.yml are set
                    \* .public: <kit>-kit is a repository everybody sees
    image,          \* state of run r's image job
    imageTags,      \* image repository: immutable tags
    imageLatest,    \* image repository: the rolling tag
    overview,       \* state of run r's overview job
    page,           \* the commit whose README the Hub page of <kit>-kit shows
    cancelled       \* runs cancelled as a whole

imageVars == <<image, imageTags, imageLatest>>
pageVars  == <<overview, page>>
graphVars == <<vars, world, imageVars, pageVars, cancelled>>

JobStates == {"waiting", "success", "failure", "skipped"}

GraphTypeOK ==
    /\ TypeOK
    /\ world \in Worlds
    /\ image \in [Runs -> JobStates \cup {"build", "repoint"}]
    /\ imageTags \in [Tags -> ImageDigests \cup {None}]
    /\ imageLatest \in ImageDigests \cup {None}
    /\ overview \in [Runs -> JobStates \cup {"gate", "write"}]
    /\ page \in Commits \cup {None}
    /\ cancelled \in SUBSET Runs

GraphInit ==
    /\ Init
    /\ world \in Worlds
    /\ image = [r \in Runs |-> "waiting"]
    /\ imageTags = [t \in Tags |-> None]
    /\ imageLatest = None
    /\ overview = [r \in Runs |-> "waiting"]
    /\ page = None
    /\ cancelled = {}
-----------------------------------------------------------------------------
(* There is such a run, and its jobs' `!cancelled()` is true.              *)
Triggered(r) == r \in world.triggered \ cancelled

(* Job image.                                                              *)
SetImage(r, state) == image' = [image EXCEPT ![r] = state]

(* `if: inputs.has-image`: is there a Dockerfile in the commit checked out?*)
HasImage(r) == RunCommit[r] \in world.dockerfiles

StartImage(r) ==
    /\ Triggered(r) /\ r \in GraphRuns
    /\ image[r] = "waiting"
    /\ SetImage(r, IF HasImage(r) THEN "build" ELSE "skipped")
    /\ UNCHANGED <<imageTags, imageLatest>>

(* Build, verify, build again and push the dated tag.  The agent and the   *)
(* base float, so every build may be a digest of its own; and nothing asks *)
(* whether the tag exists.  A dry run builds and pushes nothing.           *)
PushImage(r) ==
    /\ image[r] = "build"
    /\ IF r \in ImageDryRuns
       THEN SetImage(r, "success") /\ UNCHANGED imageTags
       ELSE /\ \E d \in ImageDigests :
                 imageTags' = [imageTags EXCEPT ![RunTag[r]] = d]
            /\ SetImage(r, "repoint")
    /\ UNCHANGED imageLatest

(* `imagetools create --tag latest <image>:<dated>`: by tag.               *)
RepointImage(r) ==
    /\ image[r] = "repoint"
    /\ imageLatest' = imageTags[RunTag[r]]
    /\ SetImage(r, "success")
    /\ UNCHANGED imageTags

FailImage(r) ==
    /\ image[r] \in {"build", "repoint"}
    /\ SetImage(r, "failure")
    /\ UNCHANGED <<imageTags, imageLatest>>

ImageStep(r) == StartImage(r) \/ PushImage(r) \/ RepointImage(r)
-----------------------------------------------------------------------------
(* Job artifact: its `if:`, and then scripts/publish-artifact.sh.          *)
PublishInput(r) == Event[r] # "schedule"

ArtifactAlways(r) ==        \* fault: `!cancelled()` without the result check
    Event[r] = "release" \/ (PublishInput(r) /\ image[r] # "waiting")

ArtifactMayStart(r) ==
    \/ Event[r] = "release"
    \/ /\ r \in GraphRuns
       /\ PublishInput(r)
       /\ image[r] \in {"success", "skipped"}

StartArtifact(r) ==
    /\ Triggered(r)
    /\ pc[r] = "idle"
    /\ ArtifactMayStart(r)
    /\ Start(r)
-----------------------------------------------------------------------------
(* Job overview.                                                           *)
SetOverview(r, state) == overview' = [overview EXCEPT ![r] = state]

OverviewImplicitSuccess(r) ==   \* fault: the bare `if: inputs.publish-artifact`
    \/ Event[r] = "docs"
    \/ r \in GraphRuns /\ pc[r] = "done" /\ image[r] = "success"

(* `!cancelled() && needs.artifact.result == 'success'`.                   *)
OverviewMayStart(r) ==
    \/ Event[r] = "docs"
    \/ r \in GraphRuns /\ pc[r] = "done"

(* Job resolve: without the Hub credentials the page is skipped, and the   *)
(* run is green; a pull request reads no credential and goes on.           *)
StartOverview(r) ==
    /\ Triggered(r)
    /\ overview[r] = "waiting"
    /\ OverviewMayStart(r)
    /\ SetOverview(r, IF world.credential \/ Event[r] = "pull_request"
                      THEN "gate" ELSE "skipped")
    /\ UNCHANGED page

(* scripts/hub-repo-ready.sh, which asks without a login: a repository     *)
(* that is absent, private or without a tag is not ready.                  *)
HubRepoReady == world.public /\ \E t \in Tags : tags[t] # None

GateLetsEmptyThrough(r) ==      \* fault: "no tags yet" is not a skip
    /\ overview[r] = "gate"
    /\ SetOverview(r, IF Event[r] # "pull_request" THEN "write" ELSE "skipped")
    /\ UNCHANGED page

GateForgetsDryRun(r) ==         \* fault: a pull request writes what it validated
    /\ overview[r] = "gate"
    /\ SetOverview(r, IF HubRepoReady THEN "write" ELSE "skipped")
    /\ UNCHANGED page

(* A repository that is not ready is a skip; a pull request asks too, and  *)
(* writes nothing.                                                         *)
GateOverview(r) ==
    /\ overview[r] = "gate"
    /\ SetOverview(r, IF HubRepoReady /\ Event[r] # "pull_request"
                      THEN "write" ELSE "skipped")
    /\ UNCHANGED page

(* The page is PATCHed with the README of the commit checked out.          *)
WriteOverview(r) ==
    /\ overview[r] = "write"
    /\ page' = RunCommit[r]
    /\ SetOverview(r, "success")

FailOverview(r) ==
    /\ overview[r] \in {"gate", "write"}
    /\ SetOverview(r, "failure")
    /\ UNCHANGED page

OverviewStep(r) == StartOverview(r) \/ GateOverview(r) \/ WriteOverview(r)
-----------------------------------------------------------------------------
(* A whole run.                                                            *)
InProgress(r) == \/ image[r] \in {"build", "repoint"}
                 \/ Running(r)
                 \/ overview[r] \in {"gate", "write"}

(* Cancelling ends the jobs in progress and keeps `!cancelled()` false.    *)
Cancel(r) ==
    /\ InProgress(r)
    /\ cancelled' = cancelled \cup {r}
    /\ SetImage(r, IF image[r] \in {"build", "repoint"}
                   THEN "failure" ELSE image[r])
    /\ Goto(r, IF Running(r) THEN "failed" ELSE pc[r])
    /\ SetOverview(r, IF overview[r] \in {"gate", "write"}
                      THEN "failure" ELSE overview[r])
    /\ UNCHANGED <<imageTags, imageLatest, page, registry, digest, reused,
                   reruns, history>>

(* "Re-run failed jobs" restarts what failed and everything that needs it; *)
(* "Re-run all jobs" restarts everything.  The tag stays: `dated` is an    *)
(* output of detect-changes, and on the same day it is computed the same.  *)
Rerun(r) ==
    /\ ~InProgress(r)
    /\ reruns < MaxReruns
    /\ reruns' = reruns + 1
    /\ \E all \in BOOLEAN :
          LET redoImage    == r \in GraphRuns /\ (all \/ image[r] = "failure")
              redoArtifact == redoImage \/ all \/ pc[r] = "failed"
              redoOverview == redoArtifact \/ overview[r] = "failure"
          IN  /\ all => image[r] # "waiting" \/ pc[r] # "idle"
                        \/ overview[r] # "waiting"
              /\ redoOverview
              /\ SetImage(r, IF redoImage THEN "waiting" ELSE image[r])
              /\ Goto(r, IF redoArtifact THEN "idle" ELSE pc[r])
              /\ SetOverview(r, "waiting")
    /\ cancelled' = cancelled \ {r}
    /\ UNCHANGED <<imageTags, imageLatest, page, registry, digest, reused,
                   history>>

Jobs(r) ==
    \/ (ImageStep(r) \/ FailImage(r)) /\ UNCHANGED <<vars, pageVars, cancelled>>
    \/ /\ StartArtifact(r) \/ Step(r) \/ Fail(r)
       /\ UNCHANGED <<imageVars, pageVars, cancelled>>
    \/ /\ OverviewStep(r) \/ FailOverview(r)
       /\ UNCHANGED <<vars, imageVars, cancelled>>

GraphNext ==
    /\ \E r \in Runs : Jobs(r) \/ Cancel(r) \/ Rerun(r)
    /\ UNCHANGED world

GraphSpec == GraphInit /\ [][GraphNext]_graphVars

(* GitHub starts a job whose conditions hold and keeps running it.  The    *)
(* jobs of a run follow each other, so one condition per run says it.      *)
RunStep(r) ==
    /\ \/ ImageStep(r) /\ UNCHANGED <<vars, pageVars, cancelled>>
       \/ (StartArtifact(r) \/ Step(r)) /\ UNCHANGED <<imageVars, pageVars, cancelled>>
       \/ OverviewStep(r) /\ UNCHANGED <<vars, imageVars, cancelled>>
    /\ UNCHANGED world
GraphFairness == \A r \in Runs : WF_graphVars(RunStep(r))

FairGraphSpec == GraphSpec /\ GraphFairness
-----------------------------------------------------------------------------
(* A dated kit tag is published only over an image: a kit that builds one  *)
(* is never published by the graph before its dated image tag and the      *)
(* rolling image tag exist, in whatever order its runs interleave, fail    *)
(* and are re-run (publish-one-kit.yml: "so a kit is never published       *)
(* pointing at an image that was not").                                    *)
ArtifactNeedsImage ==
    \A r \in Movers : HasImage(r) /\ tags[RunTag[r]] # None =>
                          imageTags[RunTag[r]] # None /\ imageLatest # None

(* The Hub page is never written from a pull request's commit nor from a   *)
(* release's, and only once everybody can see a tag of the repository      *)
(* (hub-overview.yml: an unmerged branch has no business overwriting it).  *)
PageIsPublished ==
    page # None => /\ world.credential /\ world.public
                   /\ \E t \in Tags : tags[t] # None
                   /\ \E r \in Runs : /\ RunCommit[r] = page
                                      /\ Event[r] \notin
                                            {"pull_request", "release"}

(* Neither job gets ahead of what it publishes: the kit of its image, the  *)
(* page of its kit; whatever is skipped, cancelled, failed or re-run.      *)
JobsFollowTheirInputs == ArtifactNeedsImage /\ PageIsPublished

(* Liveness: a run that is not a dry run, not cancelled and whose jobs do  *)
(* not fail publishes its kit, also when the kit ships no Dockerfile and   *)
(* its image job is skipped; and it gives the repository a page if the Hub *)
(* credentials are set and the repository is public.                       *)
Gone(r) == \/ r \in cancelled
           \/ image[r] = "failure" \/ pc[r] = "failed"
           \/ overview[r] = "failure"
PublishGetsPage ==
    \A r \in GraphRuns \ DryRuns : PublishInput(r) =>
        (image[r] # "waiting" ~>
            \/ Gone(r)
            \/ /\ tags[RunTag[r]] # None
               /\ world.credential /\ world.public => page # None)
=============================================================================
