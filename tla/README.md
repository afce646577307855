# Verification of sbx-kits-contrib

TLA+ models of the parts of this repository in which something can go wrong that
a unit test would hardly reach: workflow runs that publish a kit at the same
time, an end-to-end harness on a daemon that outlives its runs, a conformance
suite that loads a kit through a temporary tree and tries it in one container, a
migrator that rewrites a kit in place, a deprecated grammar folded into the
current one, and a sandbox bootstrap that two processes may run at once. TLC
checks every model on small instances; all of them but the grammar's also have
theorems that TLAPS proves for every instance.

- [Inventory](#inventory): the parts of the system, their state, operations and
  interactions, and what makes each correct
- [Modules](#modules): which module models which part, and how it corresponds to
  the code
- [Runs](#runs): what each TLC run asks, its bounds, and the fairness it assumes
- [Proofs](#proofs): what is proved, from what, and along which argument
- [Divergences](#divergences): where the code does not do what a text says
- [Not modelled](#not-modelled)
- [Plan](#plan): the order of the work, and what is left

Line numbers of the code are in `PROJECT.json` (`map`, `hazards`, `findings`).

## Inventory

The repository holds a Go library (`spec/`) that decodes kits, a conformance
suite (`tck/`), shell scripts and GitHub workflows that test and publish the
kits, and the kits themselves, some of which carry programs that run inside the
sandbox. The engine that runs sandboxes (`sbx`) is not here: it is modelled from
how the code uses it.

### Publishing

**Kit artifact publishing** — `scripts/publish-artifact.sh`, called by
`publish-artifact.yml` for a continuous build and by `release-kit.yml` for a
release.
- *State*: none of its own but shell variables; the shared state is the OCI
  repository `<kit>-kit`: immutable tags, the rolling tag `latest`, manifests,
  signature referrers.
- *Operations*: validate, probe the tag, push (manifest, then signature), read the
  digest back, retag `latest`.
- *Interactions*: no concurrency group, so runs of one repository interleave at
  every registry call.
- *Hard*: every step is a remote call after which the runner may be lost; a
  re-run starts with nothing but what the registry has; check-then-act on a tag.
- *Correct when*: a tag names the commit it says; a published tag is not
  overwritten; a run reports what it pushed and signed; `latest` follows main and
  gets there in spite of failures.

**Per-kit job graph** — `publish-one-kit.yml` under `build-and-publish-kits.yml`:
image → artifact → overview.
- *State*: the image repository, the artifact repository, the Hub page, and
  GitHub's memory of each job's last result.
- *Operations*: start, succeed, fail, skip a job; cancel a run; re-run all or the
  failed jobs.
- *Hard*: conditions (`if:`) that read results of other jobs, implicit
  `success()`, skipped jobs, two runs of one commit on one day.
- *Correct when*: no kit is published whose image is not; every kit that is
  published gets a page, where Hub lets it have one; nothing unmerged reaches the
  page.

**Hub overview sync** — `hub-overview.yml`, `hub-repo-ready.sh`, `kit-meta.sh`.
Without the Hub credentials the page is skipped; a gate then asks, without a
login, whether the repository is there and holds a tag; then the page is
overwritten with the README of the commit checked out. Its callers are the graph,
a README edit and a dispatch.

**Detection and tags** — `discover-kits.sh`, the `detect-changes` jobs,
`check-release-tag.sh`, `check-image-ref.sh`: pure functions of a diff, a tag or
a text.

### Testing

**E2E harness** — `scripts/test-kit-e2e.sh` and `tck/e2e.go`, `tck/e2e_rename.go`.
- *State*: the scoped daemon's sandboxes, its global network policy and image
  store, all of which outlive a run; temporary files; a log of sandbox names; the
  test's cleanup stack; a ten-minute context.
- *Operations*: probe, remove stale sandboxes, set the policy, build and side-load
  the image, create (with one retry from a renamed copy), assert, wait for
  readiness, prompt, clean up, explain the policy log.
- *Hard*: the daemon is in whatever state the last run left it; the process may
  be interrupted or killed at any step; a create may be rolled back or half done;
  another client may set the policy.
- *Correct when*: the kit is tested under the policy and on the image asked for;
  evidence of a failure survives; a run ends and cleans up; blocked requests are
  never reported as a clean log.

**Kit argument staging and the artifact loader** — `tck/args.go`,
`spec/artifact.go`.
- *State*: the kit directory, a temporary tree, a list of files whose contents are
  read lazily.
- *Operations*: expand, plan, write, narrow modes, open, materialize, remove.
- *Hard*: lazy reads out of a tree that is deleted; read-only directories to be
  filled and removed; links; a failure at any system call.
- *Correct when*: the artifact is the kit with its references replaced, readable
  as long as the caller likes, and no tree is left behind.

**TCK suite** — `tck/suite.go`, `tck/derive.go`.
- *State*: what the kit's spec says, an image, one container with the kit's
  files, the subtests that failed.
- *Operations*: load the kit, derive an image, seven tests of the spec alone,
  start the container, inject files and initFiles, run the install commands, look
  at variables, files and mounts, merge (below), clean up.
- *Hard*: a failed `require` ends the test whose `t` it was given and all that
  follows in it; any call to Docker may fail and the container be there all the
  same; install commands run between the injection and the assertions.
- *Correct when*: a run without a failure has earned it, a sound kit raises no
  alarm, one failure does not hide the others, and no container is left.

**MCP registration tests** — `tck/mcp.go`, called by the suite.
- *State*: a registration script, what `testdata/tck.yaml` expects of it, and for
  the merge test a config file that already holds another server.
- *Hard*: the script is text of one syntax, searched with patterns of another; it
  runs on every start of a sandbox, and is tried twice.
- *Correct when*: a kit that passes keeps the user's server over any number of
  starts, and no forbidden key is overlooked.

### Decoding

**v1 normalization** — `spec/normalize.go`: passes that each fold one deprecated
surface of the grammar into the current one, on each other's output, ranging over
Go maps.
- *Correct when*: no route or sentinel is lost, a listed credential wins, quiet
  specs are unchanged, and one file has one meaning.

**Migrator** — `scripts/migrate-v1-to-v2.go`, `scripts/verify-kit-spec/main.go`,
over the v2 grammar and view (`spec/v2.go`, `spec/v2view.go`).
- *State*: `spec.yaml`, `spec.yaml.bak`, and the author, who edits in between.
- *Operations*: read, decode, project, re-parse, back up, overwrite; compare;
  remove or put back the backup.
- *Hard*: two writes that are each a truncation and a write, with a second run
  after a first that was killed; a projection that must say what v1 said with
  another vocabulary for command lines.
- *Correct when*: the author's text is never lost, the new text says the same, a
  match found by the comparison is sound, and a migrated kit needs no migration.

**Validation** — `spec/types.go`, `spec/validate.go`: tables of single-field
checks.

**Bindings** — `spec/bindings/`: a path, a decode, an emptiness check.

### In the sandbox

**OpenClaw gateway bootstrap** — `openclaw-gateway-up.sh` and
`openclaw-start.sh`.
- *State*: the home directory, which survives stops (sentinel file, credential
  files, a `.profile` hook, the configuration with its token), the nested image
  store, and the processes of one start.
- *Operations*: the bootstrap (clear the sentinel, configure, write the credential
  state, pull in the background, launch, wait, signal), the entrypoint (wait,
  bootstrap itself, enter the chat), a stop and a start.
- *Hard*: startup command and terminals overlap; a background process outlives
  the script; every wait has a bound; the credential may change between starts.
- *Correct when*: the sentinel is honest, gateway and configuration share a token,
  everybody runs with this start's credential state, and everything ends.

**Other kits** — Devin's launcher (a credential file in four states), the
credential hooks of six kits, Codex's attach script and proxy (a cache of a host
port), AI-DLC's merges (project-wins, run on every start), and straight-line
launchers.

## Modules

| Module | Models | Proofs |
|---|---|---|
| `KitRepository` | abstract: what PUBLISHING.md promises of a repository | |
| `PublishArtifact` | `publish-artifact.sh` over the registry | in `PublishOneKit_proofs` |
| `PublishOneKit` | the job graph; EXTENDS `PublishArtifact` | `PublishOneKit_proofs` |
| `E2EHarness` | the harness script, the Go test, the daemon | `E2EHarness_proofs` |
| `KitArgs` | what a reference is and what replaces it (`args.go`) | `KitArgs_proofs` |
| `StagedKit` | `openKitArtifact`, `copyKitRenamed`, `OpenFromDirectory`; EXTENDS `KitArgs` | in `TCKSuite_proofs` |
| `MCPRegistration` | the assertions on a registration, and `mcp_merge` | in `TCKSuite_proofs` |
| `TCKSuite` | the suite; EXTENDS `StagedKit` and `MCPRegistration` | `TCKSuite_proofs` |
| `NormalizeCredentials` | the credential passes of `normalize.go` | `NormalizeCredentials_proofs` |
| `KitSpec` | the text of a spec as the migrator sees it: decode, project, compare | |
| `KitRewrite` | abstract: what the migrator promises of the two files | |
| `MigrateKit` | `migrate-v1-to-v2.go`, `verify-kit-spec`, the author; EXTENDS `KitSpec` | `MigrateKit_proofs` |
| `OpenClawGateway` | bootstrap, entrypoint, processes, stops | `OpenClawGateway_proofs` |
| `DataLemmas` | nothing: facts on finite sets and sequences that proofs share | itself |

Each that is run has an `MC` module that instantiates it for TLC (`MCTCKSuite`
for the suite and all it extends). Operators marked `mutant`, `fault` or
`Mutation` in a module are plausible bugs, each the mutated form of a definition
that follows it; no specification uses them. They show what each property would
notice (`mutants` in `PROJECT.json`).

### PublishArtifact

`Runs` are workflow runs, `RunTag` and `RunCommit` their arguments; `Movers` run
with `MOVE_LATEST=true`, which is what tells a continuous build from a release.
Variables are the registry (`tags`, `latest`, `manifest`, `signed`), each
script's place and variables (`pc`, `digest`, `reused`), and history.

| Code | Action |
|---|---|
| job starts or is re-run | `Start` (variables of the shell are fresh) |
| `sbx kit validate`, dry-run exit | `Validate` |
| `oras manifest fetch` and its three outcomes | `Probe` (absent, present), `Fail` (could not tell) |
| `sbx kit push --sign` | `PushManifest`, then `Sign`: the manifest lands unsigned first |
| `oras manifest fetch` of the tag again | `ReadBack` |
| `oras tag <ref>@<digest> latest` | `Retag` |
| `set -e`, cancellation, a lost runner | `Fail` |

`Packed` says which digest a push may get: a new one, or that of another push of
the same kit within the same second. History: `mine`, what this attempt pushed;
`overtaken`, the runs whose "absent" has gone stale; `rolled`, the tags whose
manifest `latest` has named. `PublishAssumption` says what the two callers pass:
a dated tag carries its commit, and no release has a tag of that form.

`TagImmutability` is a setting of the registry, on which this repository has no
hold (publish-artifact.sh:125: the registry does not enforce immutability "unless
Hub tag-immutability is on"). With it the script implements `KitRepository`;
without it the tags are protected by the probe alone.

### PublishOneKit

Extends the script with the image and overview jobs. `world` is what the graph is
set in and never changes, chosen at the start among `Worlds`: the commits at which
the kit ships a Dockerfile, the runs that are triggered, whether the Hub
credentials are set and whether the repository is public. `image[r]` and
`overview[r]` are job states, `pc[r]` is the artifact job. `ArtifactMayStart` and
`OverviewMayStart` are the jobs' `if:` expressions evaluated over the last
results; `Cancel` ends what is in progress and makes `!cancelled()` false;
`Rerun` is "re-run failed jobs" (what failed and all that needs it) or "re-run
all jobs". The image job pushes without asking, and re-points its `latest` by
tag. Building and verifying an image is success or failure. The overview job ends
green without a page in three ways: `StartOverview` skips it without the
credentials, unless the run is of a pull request, which is let through and reads
none; `GateOverview` skips it when `hub-repo-ready.sh` answers that the repository
is absent, private or empty (`HubRepoReady`), and for a pull request whatever the
answer. A gate that could not tell is `FailOverview`.

### E2EHarness

The state of the daemon (`boxes`, `policy`, `store`), of a run (`pc`, `opts`,
`pull`, `dir`, `recorded`, `cleanups`, `tmp`, `expired`) and of its outcome
(`failed`, `verdict`, `end`). One action per step of the script and of
`RunE2EKit`; a sandbox is named by the run that made it. `Abort` is an exit
before the trap is set, `Unwind` a `t.Fatal`. `Environment` is everything the
code does not decide: a new run, an edit of the working tree, another client's
`policy init`, the context's expiry, an interrupt (which skips the Go cleanups
and still runs the shell's trap) and a kill (which skips both). What a create
boots from is `Bootable`, by `--pull`. The four content assertions are one
action that passes or fails. Runs do not overlap: the script says so.

### KitArgs and StagedKit

A text is a sequence of tokens: the opener, the closer, a dollar, the namespace,
names, line ends and words. `scanArgs` is the scanner with its escapes: `Round` is
one turn of its loop from a position (what it writes up to and with the next
opener, and where the next turn goes on), `After` puts it before what the rest
gives, and the scan is a function over the positions of the text. `Legal` and `Substituted` are the
reference definition it is compared with, `expandSpecDocument` the walk over the scalars
of a YAML document, `resolveKitArgs` the declared values.

A directory tree maps paths to nodes; of a mode the owner's write bit is kept.
`call` is what is loaded: a tree, its declarations and arguments, and whether it
is copied under another name first (`RenameSpec`, then `WriteEntry` and
`NarrowEntry` with nothing replaced, then `OpenCopy`). `ExpandKit` reads and
checks everything before anything is written. `Staged(p)` is how each path is
recreated; `WriteEntry` and `NarrowEntry` are the two loops of `writeStaging`;
`OpenFromDirectory` lists what lies under `files/home` and resolves it without
reading; `Materialize` reads one content at a time; `RemoveStaging` is the
deferred removal, with `os.RemoveAll` modelled by what it can remove.
`MaxFaults` system calls may fail, anywhere.

### MCPRegistration

Of a script's text the model keeps what the assertions look for (the guard, the
URL, the sentinel, the user, keys and the keys bound to the URL, the syntax).
What the script does to a config is not assumed but found out: `does` grows by
one pair at each run of it on a config not seen before, so the model covers every
deterministic script. `Register` and `RegisterAgain` are the subtest's two runs,
`Restart` every later start.

### TCKSuite

Variables of the load, those of the merge, and `testing`: the suite's step, the
container, its files and the failed subtests. One action per step of
`NewSuiteFromDir`, `RunAll` and `RunContainerTests`, each with the outcomes of
the calls it makes. A `require` that fails in a subtest is `Fails(test)` and the
next step; one that was given `RunAll`'s own `t` (`Unwinds`) ends the run.
`CleanupContainer` is the registered cleanup, reached from wherever the
container tests end. The tests of a single field each (absolute paths,
extensions, numbers) are facts a kit has or has not.

### NormalizeCredentials

`spec` is the decoded `SpecFile`; each pass of `normalize` that touches
credentials is an action, in the code's order. Strings the code sorts are
numbers. A pass is an operator from spec to spec (`WithSecrets`, `WithEgress`,
`WithCredentials`, `WithOAuth`, `WithSentinels`), with its refusal beside it
(`SecretsClash`, `EgressClashes`, `NamelessBlock`), and an action that applies it.
The range over `LegacySources` is a choice of an order (`Orders`), the only place
the code ranges over a map without sorting afterwards. `LoadAgain` is
a second load, of the same bytes or of what `Marshal` wrote.

### KitSpec, KitRewrite and MigrateKit

Of a spec's text `KitSpec` keeps the version it declares, whether it has the
`sandbox:` block its kind calls for, the entrypoint in its grammar's own spelling
(a mapping, an alias of one, the flat form, none) with its `run`/`args`/`ttyArgs`
or `entrypoint`/`default`/`interactive`, whether the loader warns and of what,
comments, and one value for all other fields. Only a declared `"2"` is read in the
grammar of version 2: a text with no version, or with one that does not exist, is
decoded as version 1 and not validated by the migrator, which therefore rewrites
it (`"other"`). Two kinds of body are told apart because a projection can lose
what it needs: `Bare` sandboxes, whose block is left out when nothing is in it,
and `V1Only` ones, which version 2 does not decode. `LoadArtifactFromBytes`,
`NewV2View`, `v1Entrypoint`, `SetSandboxEntrypoint` and `buildV2` are the functions
of these names.

`SaysTheSame` compares texts by the command lines they mean, detached and
attached, not by what they decode to: version 1 forgets its `ttyArgs` on the way.
Of the attached one it says exactly what comes out: what the author spelled
(`SpelledArgv`), or what was run with the old text (`AttachedArgv`) if that is of
version 2 or spells its `ttyArgs` in one of the two ways a migration loses
(`LosesTtyArgs`: an empty list, and an entrypoint that is a YAML alias).

| Code | Action |
|---|---|
| read, decode, project, re-parse | `ReadSpec`, which ends in an error and writes nothing when the text or its projection does not decode; `ReadTornSpec` for what a torn file may look like |
| `os.Stat` of the backup | `StatBackup` |
| `os.WriteFile`, twice: empty, then write | `CreateBackup`, `WriteBackup`; `TruncateSpec`, `WriteSpec` |
| a kill, a full disk | `Kill`, the second disjunct of each write |
| the author between runs | `EditSpec`, `Verify`, `RemoveBackup`, `PutBack` |

`authored` is the text the author stands by: what he wrote, until he takes the
migrator's by removing the backup. He does so when `verify-kit-spec` has matched
it or when nothing has replaced his own text. `KitRewrite` has every write as one
step, and `MigrateKit` implements it with a torn spec read as its backup and a
torn backup as none.

### OpenClawGateway

`Callers` are the startup command and the terminals; one `pc` per caller, whose
steps are the script's. `ready`, `authEnv`, `legacy`, `hook`, `token`, `lan` are
files of the home directory and `Restart` keeps exactly those and the image
store. `> file; printf` is two steps (`AuthState` truncates, `WriteAuthEnv`
writes), `config get || config set` is two, the pull and its `: > sentinel` are
two. A bounded wait is a step that may give up at any time, so every time-out
the code has, and any other, is covered. History variables name the windows in
which a property cannot hold (`stale`, `doubled`, `torn`), and are false
otherwise.

## Runs

States are distinct states; no run takes two minutes with two workers.

| Run | States | Asks |
|---|---|---|
| `publish_immutable` | 87 k | On a registry that refuses to overwrite: does the script implement the repository, report its own signed push, and get `latest` there? |
| `kit_graph` | 180 k | On one that does not: what do races, re-runs and cancellations of the whole graph do to tags, `latest`, images and the page, and does every run that is to publish do so, and get its kit a page where Hub lets it? |
| `e2e_runs` | 719 k | Three runs of two kits on one daemon: all harness properties |
| `tck_runs` | 210 k | 3434 kits and calls, loaded, copied and tested in one container, a fault at any point |
| `normalizing` | 120 k | 21168 specs, loaded twice, in every map order |
| `migrating` | 436 k | 152 texts, migrated any number of times with two faults and two edits |
| `gateway_boots` | 267 k | Two starts, a startup command and a terminal |
| `racing_push`, `unsigned_reuse`, `stale_siblings`, `map_order`, `early_sentinel` | | violations, see [Divergences](#divergences) |

`CHECK_DEADLOCK FALSE` everywhere: all runs are triggered, ended and out of
re-runs at some point, a load and a suite end, a migrated kit may be left alone,
and a chat that is open has nothing left to do.

### publish_immutable

*Properties.* `TypeOK`; `TagNamesItsCommit`: a tag names a validated kit of a
commit that some run, not a dry run, was started for with that tag;
`ReportsOwnSignedPush`: a run that did not reuse a tag ends with the digest it
pushed, which its tag still names and which is signed; `LatestIsContinuous`:
`latest` names the kit of a commit that a continuous run published, never of a
release or of a dry run; `RepositorySpec`: every
step is one of `KitRepository` or a stutter; `PublishedTagRolls`: a dated tag,
once published, gets `latest` moved to it, unless all runs of the tag failed and
the re-runs are used up.

*Bounds.* Two runs of one dated tag are what a race needs; a release of another
commit and a broken pull request are what must stay out of it; one re-run (in
all) is what a half-done publish needs. Three digests, for three pushes that may
land. *Fairness.* A started job goes on (`WF(Step(r))`; it may also fail at every
step), a triggered run starts, and a failed run is re-run while re-runs are left.
The last is a person's act, which `GivenUp` and the bound take back: without it
the property could only say that a run nobody re-runs leaves `latest` behind.

### kit_graph

*Properties.* `JobsFollowTheirInputs`: a published kit with a Dockerfile has its
dated and its rolling image, and the page is never from a pull request or a
release, nor there before a tag, without the credentials or in a private
repository; `OverwriteNeedsRace`: without immutability, a
published tag changes only under a run that had found it absent before another
push landed; `PublishGetsPage`: a run that is no dry run and whose image job began
publishes its kit, with or without an image, and gets its repository a page if the
credentials are set and the repository is public, unless one of its jobs fails or
it is cancelled; and `GraphTypeOK`.

*Bounds.* The push of the tip is in every world. Beside it: a dispatch of the same
day, which shares its dated tag and races it; a pull request and the release of an
older commit, neither of which may reach the page; that pull request and a README
edit, the other caller of the overview job; and, without the credentials or in a
private repository, a README edit alone, since these only take the page away. Each
with a kit that ships a Dockerfile and one that does not, whose image job is
skipped. Two digests for two pushes, one for the image (nothing tells two images
apart but their tags); one re-run. No symmetry, since liveness is checked on the
same instance. *Fairness.* GitHub starts a job whose conditions hold and keeps running
it: one weak fairness condition per run, since the jobs of a run follow each
other. Failures and cancellations are never fair.

The release's commit may be published by `release-kit.yml` before its image ever
was: the maintainer's step (PUBLISHING.md). The image half of
`JobsFollowTheirInputs` is therefore about continuous runs.

### e2e_runs

*Properties.* `BaselineWhileTesting`; `TestsTreeImage`; `BlockedIsReported`;
`EvidenceKept` (an action property: a failed run's sandbox goes only in a later
run's stale step); `NothingLeftBehind`; `RunEnds`; and `TypeOK`, which includes
that no sandbox exists before its name was recorded, or its recording failed.

*Bounds.* Two kits, one whose name is a prefix of the other's: the first takes
every branch (Dockerfile, collision, retry, wait, prompt), the second the short
way. Three runs: one that leaves a sandbox, a store and a policy behind, one that
meets them, and a third that meets what the second did of them. Two environments:
the defaults, and published images with no baseline. *Fairness.* `WF(Step)`: a
started script goes on, since each of its commands returns; `WF(Expire)`: time
passes. Without the latter, a readiness file that never appears is waited for
forever, which is what the context is for.

### tck_runs

*Properties.* `NothingOutlives`: neither a staging tree nor a container outlives
the call that made it, or its failed removal is told; `LoadsAsWritten`: an
artifact is the author's kit with its references replaced; `GreenIsEarned`: a run
without a failure means that every install command exited zero, that what the
kit ships is in the container after them and not of zero length, as written where
nothing replaced it, and that a registration is one (a file of nothing but line
ends passes, see [Divergences](#divergences)); `SoundKitPasses`: a sound kit loads,
and passes when no call fails; `FailuresAreSeparate`; `ForbiddenAreChecked`;
`SiblingsSurvive`; `SuiteTypeOK`.

*Bounds.* Three families of calls. Every combination of five specs, a directory
that is read-only or not, two texts and six kinds of link or special file, opened
and copied: ten paths, so that every case of `Staged` occurs beside every other.
Every text of up to four tokens in a file and in a scalar of the spec: a
reference is four tokens. Twenty kits of which each fails one test, or passes it
by one detail, and every combination of a script and expectations that an
assertion tells apart. One fault: the load never goes on after one, and of two in
one container the second could only hit the cleanup, which a single one hits too.

### normalizing

*Properties.* `FoldIsFaithful`, which is `RoutesAreKept` (no host is lost between
two passes), `ListedWins` (a listed credential is left as written and nothing
stands beside it) and `SentinelsAreKept`; `LoadsAgree`: loading the same bytes
again, or what `Marshal` wrote, gives the same artifact; `TypeOK`.
*Bounds.* Two services, two hosts, three
variables of which two are named for one service: enough for two surfaces to
disagree about one service while another is there to be confused with it. Every
surface is absent, alone or combined with every other one. Three exceptions are in
the properties, because the code has them: a service with two token endpoints
(`TwoEndpoints`), a variable with two sources (`Unambiguous`), and a written-back
spec whose managed variables are named for no service with a credential
(`Rereadable`); see below.

### migrating

*Properties.* `OriginalKept`; `ImplementsRewrite` (the refinement);
`MigrationSaysTheSame`: a text the migrator has just written says what the backup
says, with the two losses of `ttyArgs` named in `LosesTtyArgs`;
`MatchSaysTheSame`: what `verify-kit-spec` matches says the same, whatever was
edited by hand; `MigratedSettles`: what a run has written decodes, and the next
run leaves it alone exactly if it uses nothing that version 2 warns of as well
(with mixins or `sandbox.build` every run rewrites it again); `TypeOK`.

*Bounds.* Every spelling of an entrypoint with up to one argument in its prefix,
default and tail, the tail left out or spelled empty; both versions, and none; texts
that warn, do not decode, decode and are not valid, or decode while their
projection does not. Two faults, for a run that is
killed in the recovery from another; two edits, for one of the author's text and
one of the migrator's. Runs are not bounded.

### gateway_boots

*Properties.* `SentinelNeedsImage`, `TokenIsShared`, `CredentialsOfThisStart`
(the gateway, the terminals and the shells of a start all go by its own
credential), `ScriptsEnd`, `SentinelComes`, and `TypeOK`, with which no gateway is
launched without its bind and a token. *Bounds.* One terminal beside the
startup command is what an overlap needs; two starts are what a leftover needs;
the sandbox is new or upgraded from the release with `anthropic-oauth.env`; the
stored credential is any of three, at each start. *Fairness.* Commands return and
sleeps end (`WF` of each caller), a pull ends in success or failure, a launched
gateway answers or ends. Stops, attaches and failures are not fair.

## Proofs

TLAPS proves the 38 theorems that `PROJECT.json` lists, for all values of the
constants that satisfy the named assumptions: any number of runs, tags, kits,
trees, texts of any length, specs, scripts, terminals and starts. Every invariant
and every action property that a passing run checks is among them; what is left
to TLC is liveness ([below](#left-to-tlc)). The assumptions say what the constants
are and nothing about the code's behaviour, and TLC evaluates each of them:

- `PublishAssumption`, `GraphAssumption`, `HarnessAssumption`, `GatewayAssumption`,
  `MigrateKitAssumption`, `RegistrationAssumption`: arguments of the callers, names
  and place-holders.
- `StagedKitAssumption`: paths lie in directories that the walk visits first;
  `spec.yaml` is in none, and what it may be a link to is not under `files/`.
  `KitsHaveSpecs`: the calls are for directories that hold a spec that parses, in
  which no link leads to another link; the name a copy is given has no opener in
  it. `SpecsListCommands`: initFiles and install commands are sequences.
  `ArgNamesAreNames`: an argument's name is none of the five tokens of the syntax.
- `NamesAreOrdered`, `KeysAreServices`, `DocumentsDecode`: strings that Go sorts
  are numbers, a variable is named for a service, a document is a `SpecFile`.
- `NoneIsNothing` (twice): the place-holder is none of the values.

### PublishOneKit_proofs, on the script

`TypeCorrect` carries `SignHasDigest` along: a run about to sign has pushed
something (without it `signed` would not be a set of digests).

`TagsNameTheirCommit` and `LatestFollowsMain` share an inductive invariant,
`TagInv`: types, both properties, and `ScriptInv`, what each script knows at each
step: past validation its commit is valid and it is no dry run; past the push its
tag names something; at the retag it is a Mover whose digest packs its commit.
The properties are not inductive alone: `ReadBack` resolves a tag that another
run may have overwritten, and only because runs that share a Mover's tag share
its commit (`PublishAssumption`, lemma `MoverTag`) is what it reads still right.

`OverwritesAreRaces` needs `RaceInv`: a run about to push whose tag is taken has
been overtaken.

Under `TagImmutability`: `FreshPushIsOwn`, by `ImmutableInv`: `OwnInv` says that
from the push to the retag the tag names what this run pushed, which holds because
a tag, once set, stays (lemma `TagsStay`) and a step of one run leaves another's
variables alone (`OthersKeep`). `ImplementsRepository`: initial states map to
initial states; `PushManifest` is `PublishTag`, `Retag` is `MoveLatest` of the
run's own tag (again by `OwnInv`), every other step stutters. The refinement
mapping is the identity on `tags` and `latest`.

### PublishOneKit_proofs, on the graph

The graph takes the script's steps and two more: a cancellation and a re-run,
which only set shell variables back (`SetBack`). Lemma `ScriptSteps` says so, and
carries the script's `TagInv` and `RaceInv` over; `GraphOverwritesAreRaces`
follows as it did for the script alone. `GraphTypeCorrect` is types, job by job.
`InputsComeFirst` needs what a job's results say at a distance: `ImageInv` (an
artifact job that was started has its image job behind it, because whatever
restarts the image job sets the artifact job back; an image job that succeeded
and was to publish has published) and `OverviewInv` (at the gate there are
credentials, unless it is a pull request's; past it, which a pull request and a
repository that is not public never get, there is a tag). The property is not
inductive without the first: `Rerun` could otherwise leave an artifact job running
over an image job that is being built anew.

### E2EHarness_proofs

`HarnessTypes` proves `TypeInv`: types with `NamedFirst`, and `Positions`, where a
run may be when it has a sandbox or a recorded name. `BaselineHolds` strengthens
the property to the steps between the policy and the test (`BaselineInv`): the
only steps that change the policy come before them, and `OtherInit` only where
there is none. `EvidenceIsKept` and `BlockedAreReported` follow from types and
positions, action by action: `RunCleanup` keeps the sandbox of a failed run, and
a failed run's verdict is only "clean" with no blocked request under its name.
`NothingIsLeft` needs `LeftInv`: every temporary file is at each step either the
script's own or has its removal registered. `TreeIsTested` uses `TreeInv`: from
the load of the image to the create, the store has the image of this tree under
the kit's name and the create is told to pull nothing. `HarnessTypeOK` is the
type invariant of the run, from `TypeInv`.

### DataLemmas

The library states induction with an operator as a parameter, which the provers
cannot instantiate. What needs induction is proved here from a least
counterexample instead: `SmallestSubset` (of some subsets of a finite set, one is
minimal) rests on the library's well-founded orderings, `Least` and `Greatest` on
it, and `InductiveSet`, `StrongInductiveSet` on those. `AscendingExists` and
`AscendingCovers` say that a finite set of numbers has a sorted sequence, and what
is in it.

### KitArgs_proofs

`ScannerIsRight`: for every text, of any length, and all values, `scanArgs` refuses
exactly the texts that are not `Legal`, and writes of the others what
`Substituted` says position by position. The scan is a function defined by
`CHOOSE`, as recursive functions are, so that `ScanExists` first builds one, from
the end of the text backwards, and `ScanEquation` states what it is at each
position. `RoundCases` is the case distinction of one turn of the loop (no opener
left; an escaped one; one that opens something else; a malformed reference; a
reference), `RoundAdvances` its progress. `RefusedIffIllegal` and
`LegalIsSubstituted` then go through the positions from the last to the first
(`Backwards`); the second needs that references do not overlap
(`ReferencesApart`) and that what a round copies is literal text up to the next
opener (`LiteralBefore`).

### NormalizeCredentials_proofs

The inductive invariant is `IInv`: types, `Progress` and `History`. `Progress`
says at each pass what the spec is in terms of the input: the composition of the
passes so far, for some order of the range over the sources, and that no refusal
has been passed over. `History` says what the load before was, and that the
present input is its file or what `Marshal` wrote of it. None of the properties is
inductive: after the first pass nothing in the spec remembers what it was.

`CredentialTypes`: each pass keeps a spec a spec (`SecretsKeepSpec` to
`SentinelsKeepSpec`). `FoldKeepsWhatIsDeclared` is three lemmas about a whole
load: `LoadKeepsRoutes`, `LoadKeepsListed`, `LoadKeepsSentinels`.
`LoadsGiveOneArtifact`: an input that is unambiguous loads the same in every order
(`LoadIsDeterministic`, since each folded variable has one owner), and a spec that
was written back is left as it is (`MarshalledLoad`). The proof showed the
condition of the property to be wrong as it was first stated: it asked whether
the second input is one of the `Documents`, which a written-back spec can be too;
`WrittenBack` asks what is meant.

### TCKSuite_proofs, on registration

`TwoRunsAreEnough`: the two configs that `mcp_merge` finds equal make the config a
fixed point of the script (`FixedPoint`), since a deterministic script that took
it to itself once does so for ever. Without the comparison the second run would
show nothing about the third. `SuiteRegisters`: the suite implements
`Registering`, so that `SiblingsSurvive` holds of it.

### TCKSuite_proofs, on the suite

`SuiteInv` follows the suite: at the i-th pure test, those before it failed if and
only if they do not hold, and later ones not yet; what they ask does not change
(`HoldsStay`); past the start there is a container or its start has failed. From
it `FailuresStaySeparate`, `ForbiddenStayChecked` (the last test held, so the
format it searched with is that of the file) and the container half of
`NothingIsLeft`. The other half is `StagingInv`: both trees are `Shaped` (what
lies in a directory lies in directories), what is staged was in the kit, and the
directories among the entries written so far are staged as directories. It needs
the order of the walk: a file is only written once its directories are. Then
widening makes everything removable (`WidenedIsRemoved`), wherever the load
failed.

### TCKSuite_proofs, on the load

`LoadedIsAsWritten` (`LoadsAsWritten`) speaks of the end of a load that may have
written two trees, removed both and read the files one at a time. `LoadInv` is
what must hold on the way:

- `Origin`: the kit opened is the author's, or, once copied, the author's with
  each path as `Copied` says.
- `Progress`: the entries of `Order` written so far are `Staged`; while modes are
  narrowed, in the other direction, each path is staged or has its goal
  (`Copied` or `Expanded`), and those behind are at it; a tree that is loaded has
  everything `Expanded`, and its references were `Accepted`.
- `Gathered`, with `Found`: what the artifact lists is what the tree it was found
  in lists, resolved as there, with that tree's modes and texts. It is about
  `Tree`, which is defined by the call and outlives the directory.

Each step of the load preserves it (`LoadFacts`); `RecreatedIsKit` says that what
was written is again a kit, so that a copy can be expanded; `ScannerIsRight` turns
what the scanner wrote into `Substituted`.

### TCKSuite_proofs, on runs

`RunInv` is what a run without a failure so far has behind it: a load that gave an
artifact, in the container only texts and specs that a link leads to (of a file
nothing replaces, its own content), all install commands before the present one with exit status zero, and past
`AssertFiles` everything expected found, no file of it of zero length. `SuiteTypes` and
`GreenStaysEarned` follow from it, the second with `LoadedIsAsWritten`'s lemmas
for what "as the author wrote it" is.

`SoundKitsPass` is the converse. `SoundLoads`: nothing of a sound kit is refused
when no call fails. Every refusal of the code is met by a clause of `Sound`
(`SoundIsAccepted`, `SoundResolves`), and a read-only directory is none of them,
since directories are widened while they are written to (`ParentsAreWide`). Then
`SoundInv`: no test has failed, the files are in the container from the injection
on, the initFiles from their writing on, nothing there is of zero length, and an
install command finds what it needs. The proof found `SoundRun` to promise too
much in two places where no instance of the run reached: a link to a file of zero
length, and an install command that needs a file of the kit from outside `files/home`.
Both are now conditions of a sound run.

### MigrateKit_proofs

One invariant, `IInv`: types, `OriginalKept`, `FilesInv` (where the two files are
at each step of a run, and that a backup that exists is of a text that needed
migration) and `VerdictInv` (a verdict is about the files as they are). Then
`AuthorsTextIsKept`, `MatchIsSound` and `FilesImplementRewrite`, which maps each
of the two writes to one step of `KitRewrite` and its first half to a stutter.
`MigrationIsFaithful` and `MigrationSettles` rest on lemmas about `KitSpec`: what
a projection decodes to, and that taking a command line apart and putting it
together is the identity on sequences of any length. Both are about every text the
migrator rewrites, of whichever version: the first says of each spelling of
`ttyArgs` what becomes of it, the second that what is written decodes (because
`ReadSpec` tried, not because a projection always does) and which of it is
rewritten again.

### OpenClawGateway_proofs

`GatewayTypes` proves `TypeOK` by `Inv`, which adds `BindInv`: a bootstrap past
the settings leaves them set, and a gateway is launched only past them; that
makes `Gateways` (all of them with a token) the type of what is launched.
`SentinelIsHonest` uses `ImageInv`: the sentinel, a pull that has pulled and a
bootstrap that wants no image each imply the image, and images stay.
`TokenIsHeld` uses `TokenInv`: while no two bootstraps were between asking and
setting at once, a bootstrap that is about to set the token found none, so
nothing has been launched with another. `CredentialsAreFresh` uses `FileInv`
(once a bootstrap of this start has begun, the files a start may leave behind are
settled) and `EnvInv` (what a caller sourced, and what it launched, is what this
start's credential calls for, unless it read the file half written).

### Left to TLC

Liveness under fairness (`PublishedTagRolls`, `PublishGetsPage`, `RunEnds`,
`ScriptsEnd`, `SentinelComes`): the provers have no `ENABLED`. The five violations
are TLC's too, each being a counterexample.

## Divergences

Shown by a run that TLC ends with a counterexample; the lines are quoted in
`PROJECT.json`, `findings`.

- `racing_push`: the digest that is to keep a racing push from swapping `latest`
  is itself read from the tag after the push; two runs of one dated tag suffice.
  Tag immutability removes it (`ReportsOwnSignedPush`).
- `unsigned_reuse`: a push whose signature failed is reused by the re-run, which
  moves `latest` to it and never signs it.
- `stale_siblings`: the stale-sandbox step of `claude` removes what a failed run
  of `claude-acp` left: names are matched by prefix.
- `map_order`: a variable that two sources name is managed by whichever service
  the range over a Go map came to last; one file loads as two artifacts.
- `early_sentinel`: the background pull writes the readiness sentinel before, or
  without, a gateway that answers.

Met while modelling, and left out of the properties that would otherwise fail:

- PUBLISHING.md:72 says a dated image tag is never overwritten; the image job
  pushes it without a probe, and the push and the nightly of one commit on one
  day have the same tag. `PushImage` does this.
- `latest` of the kit can go back: retags are unconditional and runs are not
  ordered. `latest` of the image is re-pointed by tag. The page may be that of an
  older commit, and a dispatch on a branch writes the branch's README.
- `normalize.go:648` promises that routing is never lost: the token endpoint of
  the standalone block is left out of the merge even when the credential's own
  OAuth block has another one (`TwoEndpoints`).
- `Marshal` writes `environment.proxyManaged`, a v1 surface, so a written-back
  spec whose managed variable is named for another service than its credential's
  reads back with a credential more (`Rereadable`).
- An injection with a username and no header counts as routing only, and is taken
  apart by the OAuth pass (`RoutesOnly` has what the code asks).
- A link under `files/` to a file of the kit outside `files/` is recreated as a
  link, and what it leads to is copied unexpanded; a kit with an absolute link
  into itself, or a link to a directory, loads or not depending on whether it is
  copied and whether anything in it references an argument (`Sound` leaves both
  out).
- A special file under `files/home` of a kit without references is listed by
  `enumerateDirFiles`, and the injection never ends reading a fifo;
  `planKitTree` leaves such files out.
- The extends test of the suite fails a sandbox that extends an agent, which
  `containerImage` calls the recommended shape; an unknown agent that `WithImage`
  rescues fails it too. `m.Kind == spec.KindAgent` is never true after
  normalization. What network_policy expects and what it finds come from the
  same data: only the verb of a service's first injection is checked (`Auth`).
- `initFiles` paths must start with `/`, so the `${WORKDIR}/` paths that
  derive.go resolves do not validate; `onlyIfMissing` is not looked at.
- `readOutput` trims trailing line ends so that a file of nothing else would count
  as empty (suite.go:231, 576), but the files are read without
  `tcexec.Multiplexed()`, unlike the output of install commands: Docker's frame
  header stays in front of what was trimmed, and such a file passes. Only a file
  of zero length is told (`ZeroLength`), as by the e2e test's `test -s`.
- `mcp_merge` never tries a start without a config. With no `configPath`, the
  format falls back to JSON and is checked against nothing
  (`ForbiddenAreChecked` says which case is sound).
- A v2 spec that warns (mixins, `sandbox.build`, a mixin's instructions file) is
  rewritten and backed up although scripts/README.md:26 and v1-migration.md:15-16
  say v2 is a no-op; it still warns, `verify-kit-spec` refuses it, and the next
  run refuses because of the backup, or without one rewrites it again
  (`MigratedSettles` says exactly this).
- A text with no `schemaVersion`, or with one that does not exist, is decoded as
  version 1 and not validated: the migrator rewrites it as a version 2 spec
  (`Decodes`), where `ValidateArtifact` refuses it.
- After a migrator that was killed or could not write, every run refuses; "clean
  the previous backup before re-running" loses the original when `spec.yaml` is
  what was torn. The author of the model looks first (`RemoveBackup`).
- v1 `ttyArgs: []`, or v2 `interactive: []` on an entrypoint without a tail, is
  attached with the default arguments; v1-migration.md:85-93 and the v2 spec show
  none. A v1 entrypoint that is a YAML alias loses its `ttyArgs` silently, where
  migrate-v1-to-v2.go:233-238 calls the migration lossless. `LosesTtyArgs` names
  the two, and `SaysTheSame` says what a migration makes of them.
- scripts/README.md calls the scripts standalone; migrate-v1-to-v2.go says it is
  not.
- `--pull=never` boots an older image of the store when `sbx template load` files
  the new one under another reference (`Misfiled`).
- A terminal that attaches before the startup command has cleared the last
  start's sentinel goes by it (`stale`); one that gives up after 45 seconds runs a
  second bootstrap that may set a second token (`doubled`); one may source the
  credential file between its truncation and its writing (`torn`).

## Not modelled

`PROJECT.json`, `components`, lists every part with its status. In short:

- Within the modelled parts: the contents of images and of the four content
  assertions, what a word of a text or of YAML says, wording of logs and
  summaries, times (a wait may end whenever it likes), overlapping e2e runs
  (documented as unsupported), a kit that changes while it is loaded or migrated, a
  directory without a spec that parses, a link that leads to another link,
  a gateway that dies after it was up, a flaky `/readyz`, two `openclaw config
  set` that lose each other's update, an image removed by hand, temporary files
  left by a signal between `mktemp` and `trap`.
- `spec/validate.go`, `spec/types.go`, the fields of `spec/v2.go` and
  `spec/v2view.go` beside the command, the block renames of `normalize.go`:
  single-field checks and moves, which table tests reach.
- Detection and release tags: pure functions of a diff and a tag.
- Devin's launcher, the credential hooks, the AI-DLC merges, Codex's attachment
  and the cached host port of its proxy: they have states and failures worth a
  model each; see the plan.
- Bindings, the image reference check, installation, the scorecard workflow,
  straight-line launchers, specs and Dockerfiles: no state of their own, pure
  I/O, or inputs.

## Plan

Done, in this order: `KitRepository`, `PublishArtifact` (the core: what users
pull), `PublishOneKit`, `E2EHarness`, `StagedKit`, `NormalizeCredentials`,
`OpenClawGateway`; then `KitSpec`, `KitRewrite`, `MigrateKit`, `KitArgs` with
`StagedKit` rewritten over it, `MCPRegistration`, `TCKSuite`; and the proofs of
every invariant and action property.

What is left, in the order of what it would add:

1. `CodexAttachment`: attach, detach and the proxy, over sandboxes that stop,
   start and swap ports; a connection reaches the sandbox it names or fails.
2. `DevinLauncher`: four states of a file, a login, a placeholder; no real key is
   on disk once the agent runs, and a failed step never throws a user's key away.
3. `SpecLoading`: the whole of `normalize` around `NormalizeCredentials`,
   validation with its warning classes, and the rest of the v2 view, so that
   `KitSpec` compares whole artifacts.
4. `KitDetection`: what a diff builds and tests, in both workflows' ways, against
   a reference definition; the release tag check as an operator in place of
   `Valid`.
5. The credential hooks (the provider pin leaves a user's choice alone) and the
   AI-DLC merges (idempotent, project-wins).
6. More proofs: that the five named violations are the only ways their properties
   fail (as `OverwritesAreRaces` does for the first), and that `SaysTheSame` is an
   equivalence on what a loader accepts.
