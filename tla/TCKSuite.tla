------------------------------ MODULE TCKSuite ------------------------------
(***************************************************************************)
(* The TCK, tck/derive.go and tck/suite.go: NewSuiteFromDir loads a kit    *)
(* (StagedKit) and finds an image for it; RunAll tests what the kit says,  *)
(* then puts its files into one container, runs its install commands,      *)
(* looks at what is there, and ends with mcp_merge (MCPRegistration).      *)
(*                                                                         *)
(* A failed require ends its subtest and those around it down to the one   *)
(* whose t it was given; failed holds the subtests that failed.  facts is  *)
(* what the spec says once it is decoded, and how the suite is run.        *)
(***************************************************************************)
EXTENDS StagedKit, MCPRegistration

CONSTANTS
    WellKnown,  \* agents whose template the TCK knows; an image has its agent's name
    Shell       \* the agent of the default image

(* The initFiles and the install commands of a spec.                       *)
ASSUME SpecsListCommands ==
    \A c \in Calls :
        /\ c.facts.initFiles \in Seq(Range(c.facts.initFiles))
        /\ \A i \in DOMAIN c.facts.initFiles :
              c.facts.initFiles[i].path # None /\ c.facts.initFiles[i].content \in Text
        /\ c.facts.installs \in Seq(Range(c.facts.installs))

VARIABLES
    facts,
    suite,   \* the step of NewSuiteFromDir and RunAll
    at,      \* the test, initFile or install command it is at
    image,   \* the image resolved
    box,     \* the container
    inside,  \* inside[p]: the text of a file of the container
    failed

testing == <<facts, suite, at, image, box, inside, failed>>
vars == <<loading, mcp, testing>>

PureTests == <<"validation", "network_policy", "credential_policy", "environment_policy",
               "commands_validation", "oauth_policy", "mcp_registration">>
TestNames == {PureTests[i] : i \in DOMAIN PureTests}
Subtests == TestNames \cup {"load", "run", "container", "install_execution",
                         "environment_variables", "files", "tmpfs_mounts",
                         "mcp_merge", "cleanup"}

(* Types; those of the load are StagedKit's.                               *)
SuiteTypeOK ==
    /\ TypeOK
    /\ suite \in {"load", "pure", "start", "inject", "init", "install", "env", "files",
                  "tmpfs", "merge", "cleanup", "ended"}
    /\ at \in Nat
    /\ box \in {"none", "up", "removed"}
    /\ \A p \in DOMAIN inside : inside[p] \in Text \cup Documents
    /\ failed \subseteq Subtests
    /\ suite \in {"pure", "start", "inject"} => image # None

SuiteInit ==
    /\ Init /\ InitMerge
    /\ facts = call.facts /\ script = call.script /\ want = call.want
    /\ suite = "load" /\ at = 1 /\ image = None
    /\ box = "none" /\ inside = <<>> /\ failed = {}
-----------------------------------------------------------------------------
Fails(subtest) == failed' = failed \cup {subtest}
Kept == UNCHANGED <<facts, mcp>>

(* The system calls of the load are done when the suite is.                *)
StillLoaded == UNCHANGED <<call, kit, staging, pc, next, from, read, files, pending, result>>

LoadKit == suite = "load" /\ Load /\ UNCHANGED <<mcp, testing>>

(* containerImage: a sandbox's template; else the image of the well-known  *)
(* agent it extends; for a mixin that extends none, of the agent it        *)
(* requires or the shell.                                                  *)
containerImage(f) ==
    IF f.kind = "sandbox" /\ f.template # None THEN f.template
    ELSE IF f.kind = "sandbox" \/ f.extends # None
    THEN IF f.extends \in WellKnown THEN f.extends ELSE None
    ELSE IF f.agent \in WellKnown THEN f.agent ELSE Shell

(* NewSuiteFromDir: options first, so that WithImage saves a kit whose     *)
(* image cannot be derived.                                                *)
NewSuite ==
    /\ suite = "load" /\ pc = "done" /\ ~call.copied
    /\ image' = IF result = "error" THEN None
                ELSE IF facts.withImage # None THEN facts.withImage ELSE containerImage(facts)
    /\ IF image' = None THEN suite' = "ended" /\ Fails("load")
                        ELSE suite' = "pure" /\ UNCHANGED failed
    /\ UNCHANGED <<at, box, inside>>
    /\ Kept /\ StillLoaded /\ NoFault
-----------------------------------------------------------------------------
(* deriveAuth: the first injection of a service is what it expects, and    *)
(* what it finds.                                                          *)
Routed(creds) == {i \in DOMAIN creds : creds[i].inject # <<>>}
Auth(creds) == {creds[i].inject[1] : i \in {j \in Routed(creds) :
                    \A k \in Routed(creds) : creds[k].service = creds[j].service => j <= k}}

(* What each of the tests without a container asks of the kit.             *)
Validation(f) ==
    /\ f.described /\ f.tidy
    /\ f.kind = "mixin" => f.template = None /\ ~f.binary
    /\ f.extends # None => f.kind = "mixin" /\ f.extends \in WellKnown
NetworkPolicy(f) == \A verb \in Auth(f.creds) : verb
CredentialPolicy(f) ==
    \A i \in DOMAIN f.creds :
        (f.creds[i].apiKey # None \/ f.creds[i].oauth # None) /\ f.creds[i].apiKey # "malformed"
OAuthPolicy(f) ==
    \A i \in DOMAIN f.creds :
        f.creds[i].oauth # None =>
            LET oauth == f.creds[i].oauth
            IN oauth.endpoint /\ (oauth.passthrough \/ oauth.sentinels) /\ oauth.file

Holds(test) ==
    CASE test = "validation"          -> Validation(facts)
      [] test = "network_policy"      -> NetworkPolicy(facts)
      [] test = "credential_policy"   -> CredentialPolicy(facts)
      [] test = "environment_policy"  -> facts.environment
      [] test = "commands_validation" -> facts.commands
      [] test = "oauth_policy"        -> OAuthPolicy(facts)
      [] test = "mcp_registration"    -> script # Absent => Registers

(* loadMCPExpectations is given the t of RunAll, and so is the require     *)
(* that a kit with expectations has a script.                              *)
Unwinds(test) ==
    test = "mcp_registration" /\ (facts.unreadable \/ (script = Absent /\ want # Absent))

RunPureTestOnT ==    \* mutant: the subtests' require is given the outer t
    /\ suite = "pure"
    /\ LET test == PureTests[at]
           over == Unwinds(test) \/ ~Holds(test)
       IN /\ failed' = failed \cup (IF Unwinds(test) THEN {"run"} ELSE {})
                              \cup (IF ~Unwinds(test) /\ ~Holds(test) THEN {test} ELSE {})
          /\ suite' = IF over THEN "ended" ELSE IF at = Len(PureTests) THEN "start" ELSE "pure"
          /\ at' = IF at = Len(PureTests) THEN 1 ELSE at + 1
    /\ UNCHANGED <<image, box, inside>>
    /\ Kept /\ StillLoaded /\ NoFault

RunPureTest ==
    /\ suite = "pure"
    /\ LET test == PureTests[at]
           last == at = Len(PureTests)
       IN /\ IF Unwinds(test) THEN Fails("run")
             ELSE IF Holds(test) THEN UNCHANGED failed ELSE Fails(test)
          /\ suite' = IF Unwinds(test) THEN "ended" ELSE IF last THEN "start" ELSE "pure"
          /\ at' = IF last THEN 1 ELSE at + 1
    /\ UNCHANGED <<image, box, inside>>
    /\ Kept /\ StillLoaded /\ NoFault
-----------------------------------------------------------------------------
Goto(step) == suite' = step

StartContainerThenRegister ==    \* mutant: CleanupContainer comes after the require
    /\ suite = "start"
    /\ \/ NoFault /\ box' = "up" /\ Goto("inject") /\ UNCHANGED failed
       \/ Fault /\ box' \in {"none", "up"} /\ Goto("ended") /\ Fails("container")
    /\ UNCHANGED <<at, image, inside>>
    /\ Kept /\ StillLoaded

(* startContainer; a container that did not start may still be there.      *)
StartContainer ==
    /\ suite = "start"
    /\ \/ NoFault /\ box' = "up" /\ Goto("inject") /\ UNCHANGED failed
       \/ Fault /\ box' \in {"none", "up"} /\ Goto("cleanup") /\ Fails("container")
    /\ UNCHANGED <<at, image, inside>>
    /\ Kept /\ StillLoaded

Put(p, text) == inside' = [q \in DOMAIN inside \cup {p} |-> IF q = p THEN text ELSE inside[q]]

(* mkdir, Open, ReadAll and CopyToContainer, of one file of the artifact   *)
(* after the other.  A fifo is never done being read.                      *)
Readable(f) == f.text # None \/ IsKind(Loaded, f.at, "file")
Injected == {p \in DOMAIN files : p \in DOMAIN inside}
InjectFile ==
    /\ suite = "inject"
    /\ \/ /\ Injected = DOMAIN files
          /\ Goto("init") /\ NoFault /\ UNCHANGED <<inside, failed>>
       \/ \E p \in DOMAIN files \ Injected :
            \/ /\ Readable(files[p]) /\ Put(p, Content(files[p]))
               /\ NoFault /\ UNCHANGED <<suite, failed>>
            \/ /\ IF Readable(files[p]) THEN Fault
                  ELSE NoFault /\ ~IsKind(Loaded, files[p].at, "other")
               /\ Goto("cleanup") /\ Fails("container") /\ UNCHANGED inside
    /\ UNCHANGED <<at, image, box>>
    /\ Kept /\ StillLoaded

(* initFiles are written over what is there.                               *)
WriteInitFile ==
    /\ suite = "init"
    /\ \/ /\ at > Len(facts.initFiles)
          /\ Goto("install") /\ at' = 1 /\ NoFault /\ UNCHANGED <<inside, failed>>
       \/ /\ at <= Len(facts.initFiles)
          /\ Put(facts.initFiles[at].path, facts.initFiles[at].content)
          /\ at' = at + 1 /\ NoFault /\ UNCHANGED <<suite, failed>>
       \/ /\ at <= Len(facts.initFiles)
          /\ Fault /\ Goto("cleanup") /\ Fails("container") /\ UNCHANGED <<at, inside>>
    /\ UNCHANGED <<image, box>>
    /\ Kept /\ StillLoaded

(* An install command needs a file to be there or not, may remove or empty *)
(* one, and exits zero or not; each is a subtest, so the next runs anyway. *)
Exits0(cmd) == cmd.ok /\ (cmd.needs # None => cmd.needs \in DOMAIN inside)
InstallExecution ==
    /\ suite = "install"
    /\ IF facts.short \/ at > Len(facts.installs)
       THEN Goto("env") /\ at' = 1 /\ NoFault /\ UNCHANGED <<inside, failed>>
       ELSE LET cmd == facts.installs[at]
            IN /\ at' = at + 1 /\ UNCHANGED suite
               /\ \/ /\ Exits0(cmd) /\ NoFault /\ UNCHANGED failed
                     /\ inside' = [p \in DOMAIN inside \ {cmd.removes} |->
                                     IF p = cmd.empties THEN <<>> ELSE inside[p]]
                  \/ /\ IF Exits0(cmd) THEN Fault ELSE NoFault
                     /\ Fails("install_execution") /\ UNCHANGED inside
    /\ UNCHANGED <<image, box>>
    /\ Kept /\ StillLoaded

(* The variables and the mounts are the ones the container was started     *)
(* with: only the command that lists them can fail.                        *)
AssertEnvVars ==
    /\ suite = "env" /\ Goto("files")
    /\ \/ NoFault /\ UNCHANGED failed
       \/ Fault /\ Fails("environment_variables")
    /\ UNCHANGED <<at, image, box, inside>> /\ Kept /\ StillLoaded

(* deriveContainerFiles.  The suite asks that something be left of what    *)
(* `cat` prints once its trailing line ends are trimmed; but it reads the  *)
(* output as Docker frames it, so any byte of a file brings a frame header *)
(* that no trimming removes: only a file of no bytes at all is told.       *)
InitFiles == {facts.initFiles[i].path : i \in DOMAIN facts.initFiles}
Expected == DOMAIN files \cup InitFiles
ZeroLength(text) == text = <<>>

AssertFilesExist ==    \* mutant: a file's content is not looked at
    /\ suite = "files" /\ Goto("tmpfs")
    /\ \/ Expected \subseteq DOMAIN inside /\ NoFault /\ UNCHANGED failed
       \/ ~(Expected \subseteq DOMAIN inside) /\ NoFault /\ Fails("files")
       \/ Expected # {} /\ Fault /\ Fails("files")
    /\ UNCHANGED <<at, image, box, inside>> /\ Kept /\ StillLoaded

AssertFiles ==
    /\ suite = "files" /\ Goto("tmpfs")
    /\ LET found == \A p \in Expected : p \in DOMAIN inside /\ ~ZeroLength(inside[p])
       IN \/ found /\ NoFault /\ UNCHANGED failed
          \/ ~found /\ NoFault /\ Fails("files")
          \/ Expected # {} /\ Fault /\ Fails("files")
    /\ UNCHANGED <<at, image, box, inside>> /\ Kept /\ StillLoaded

AssertTmpfs ==
    /\ suite = "tmpfs" /\ Goto("merge")
    /\ \/ NoFault /\ UNCHANGED failed
       \/ Fault /\ Fails("tmpfs_mounts")
    /\ UNCHANGED <<at, image, box, inside>> /\ Kept /\ StillLoaded

RunMerge ==
    /\ suite = "merge" /\ Merge
    /\ Goto(IF merge' \in {"skipped", "passed", "failed"} THEN "cleanup" ELSE "merge")
    /\ IF merge' = "failed" THEN Fails("mcp_merge") ELSE UNCHANGED failed
    /\ UNCHANGED <<facts, at, image, box, inside>> /\ StillLoaded /\ NoFault

(* testcontainers.CleanupContainer, registered before anything may fail;   *)
(* a failed removal is reported.                                           *)
CleanupContainer ==
    /\ suite = "cleanup" /\ Goto("ended")
    /\ \/ box' = (IF box = "up" THEN "removed" ELSE box) /\ NoFault /\ UNCHANGED failed
       \/ box = "up" /\ UNCHANGED box /\ Fault /\ Fails("cleanup")
    /\ UNCHANGED <<at, image, inside>> /\ Kept /\ StillLoaded

(* Later, a sandbox of the kit is started again and again.                 *)
StartAgain ==
    /\ suite = "ended" /\ Restart
    /\ UNCHANGED testing /\ StillLoaded /\ NoFault

SuiteNext ==
    \/ LoadKit \/ NewSuite \/ RunPureTest \/ StartContainer \/ InjectFile \/ WriteInitFile
    \/ InstallExecution \/ AssertEnvVars \/ AssertFiles \/ AssertTmpfs \/ RunMerge
    \/ CleanupContainer \/ StartAgain

Testing == SuiteInit /\ [][SuiteNext]_vars
-----------------------------------------------------------------------------
(* Neither a staging tree nor a container outlives the call that made it,  *)
(* wherever that call failed; a container that cannot be removed is told.  *)
NothingOutlives ==
    /\ StagingRemoved
    /\ suite = "ended" => box # "up" \/ "cleanup" \in failed

(* A run without a failure has earned it: every install command exited     *)
(* zero, what the kit ships is in the container after them and not of zero *)
(* length, as the author wrote it where no install command or initFile     *)
(* replaced it, and a registration of the MCP gateway is one.              *)
Replaced == InitFiles \cup {facts.installs[i].empties : i \in DOMAIN facts.installs}
GreenIsEarned ==
    suite = "ended" /\ failed = {} =>
        /\ box = "removed"
        /\ \A p \in Expected : p \in DOMAIN inside /\ ~ZeroLength(inside[p])
        /\ \A p \in AuthoredFiles \ Replaced : In(p, Home) =>
              inside[p] = Substituted(call.tree[p].text, Values)
        /\ ~facts.short => \A i \in DOMAIN facts.installs : facts.installs[i].ok
        /\ script # Absent => Registers

(* No false alarm: a sound kit loads, and passes when no call fails; what  *)
(* it ships, writes at the start or links to has a byte at least, and its  *)
(* install commands need nothing else.                                     *)
KeepsRules == \A i \in DOMAIN PureTests : Holds(PureTests[i])
SoundRun ==
    /\ Sound /\ KeepsRules /\ ~facts.unreadable
    /\ facts.withImage # None \/ containerImage(facts) # None
    /\ \A p \in AuthoredFiles : ~ZeroLength(Substituted(call.tree[p].text, Values))
    /\ \A p \in Paths : In(p, Home) /\ IsKind(call.tree, p, "link") =>
          LET to == call.tree[p].to
          IN to \in AuthoredFiles \/ (to \notin Specs /\ ~ZeroLength(call.tree[to].text))
    /\ \A i \in DOMAIN facts.initFiles : ~ZeroLength(facts.initFiles[i].content)
    /\ \A i \in DOMAIN facts.installs :
          LET cmd == facts.installs[i]
          IN /\ cmd.ok /\ cmd.removes = None /\ cmd.empties = None
             /\ cmd.needs \in {p \in AuthoredFiles : In(p, Home)} \cup InitFiles \cup {None}
    /\ want # Absent => script # Absent /\ ~want.preserves
SoundKitPasses ==
    /\ SoundKitLoads
    /\ suite = "ended" /\ SoundRun /\ faults = 0 => failed = {}

(* A kit that fails one test is still told of the others: unless its       *)
(* tck.yaml is unusable, the tests that fail are those that do not hold,   *)
(* and the container is tried.                                             *)
FailuresAreSeparate ==
    suite = "ended" /\ failed \cap {"load", "run"} = {} =>
        /\ \A i \in DOMAIN PureTests : PureTests[i] \in failed <=> ~Holds(PureTests[i])
        /\ box # "none" \/ "container" \in failed

(* No key tck.yaml forbids is in a registration that passes, in whichever  *)
(* syntax the config file has: the check cannot be made to look for the    *)
(* wrong one, when the file's extension tells which is right.              *)
ForbiddenAreChecked ==
    /\ suite = "ended" /\ failed = {} /\ script # Absent /\ want # Absent
    /\ want.path # Absent /\ Extension[want.path] \in {script.syntax} \ {Absent}
    => script.keys \cap want.forbidden = {}
=============================================================================
