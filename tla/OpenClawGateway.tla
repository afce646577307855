-------------------------- MODULE OpenClawGateway --------------------------
(***************************************************************************)
(* openclaw-gateway-up.sh, the bootstrap of the OpenClaw kit's gateway, and*)
(* openclaw-start.sh, its entrypoint.  The sandbox runs the bootstrap on   *)
(* every start of its container and does not wait for it; every terminal   *)
(* that attaches runs the entrypoint, which waits for the sentinel file    *)
(* and, when that does not come, runs the bootstrap itself.  So bootstraps *)
(* may overlap.  A stop kills every process; the home directory and the    *)
(* store of nested images survive it.                                      *)
(***************************************************************************)
EXTENDS Naturals

CONSTANTS
    Startup,    \* the run of setup.startup
    Terminals,  \* the attached entrypoints
    HasDocker,  \* is there a docker command in the sandbox?
    MaxBoots,   \* bound on the starts of the container
    None

Callers == Terminals \cup {Startup}
Creds   == {"oauth", "apikey", "none"}
Tokens  == Callers \X (1 .. MaxBoots)    \* minted by a caller in one start

ASSUME GatewayAssumption ==
    /\ Startup \notin Terminals
    /\ HasDocker \in BOOLEAN
    /\ MaxBoots \in Nat \ {0}
    /\ None \notin Tokens

VARIABLES
    ready,     \* home: $STATE_DIR/gateway-ready, the sentinel
    authEnv,   \* home: $STATE_DIR/anthropic-auth.env
    legacy,    \* home: anthropic-oauth.env of an earlier release, hooked
    hook,      \* home: .profile sources authEnv
    token,     \* home: gateway.auth.token of openclaw.json
    lan,       \* home: its gateway.mode and gateway.bind are set
    image,     \* the nested store has the tool-call image
    boot,      \* how often the container was started
    cred,      \* what the host has stored, as this start materialized it
    pc,        \* the step each caller is at
    env,       \* the credential variables of its process
    wanted,    \* SANDBOX_TOOL_IMAGE_WANTED=yes
    gateway,   \* the gateway that answers /readyz
    launched,  \* gateways launched that do not answer yet
    pull,      \* the background pull of each caller
    cleared,   \* history: this start's sentinel is not the last one's
    stale,     \* history: terminals that went by the last start's sentinel
    doubled,   \* history: two bootstraps found no token at once
    torn       \* history: authEnv was sourced before it was written

home    == <<ready, authEnv, legacy, hook, token, lan, image>>
script  == <<pc, env, wanted>>
spawned == <<gateway, launched, pull>>
history == <<cleared, stale, doubled, torn>>
vars    == <<home, boot, cred, script, spawned, history>>

Contents == {"absent", "empty", "oauth", "unset"}
Envs     == {"injected", "oauth", "unset"}

(* OpenClaw binds to the outside only with a token: a gateway launched     *)
(* without one would end before it ever listened.                          *)
Gateways == [token : Tokens, lan : {TRUE}, env : Envs]

InBootstrap == {"probe", "clear", "config", "asktoken", "settoken", "legacy", "auth",
                "write", "source", "pull", "launch", "await", "image", "finish"}
Waiting == {"wait", "enter"}
Ended   == {"off", "done", "failed", "chat"}

(* Types; and every gateway launched has its bind and a token.             *)
TypeOK ==
    /\ ready \in BOOLEAN /\ authEnv \in Contents /\ legacy \in BOOLEAN
    /\ hook \in BOOLEAN /\ token \in Tokens \cup {None} /\ lan \in BOOLEAN
    /\ image \in BOOLEAN /\ boot \in 1 .. MaxBoots /\ cred \in Creds
    /\ pc \in [Callers -> InBootstrap \cup Waiting \cup Ended]
    /\ env \in [Callers -> Envs] /\ wanted \in [Callers -> BOOLEAN]
    /\ gateway \in Gateways \cup {None} /\ launched \subseteq Gateways
    /\ pull \in [Callers -> {"none", "pulling", "pulled", "ended", "failed"}]
    /\ cleared \in BOOLEAN /\ stale \subseteq Terminals
    /\ doubled \in BOOLEAN /\ torn \in BOOLEAN

(* A container starts with one process, the startup command's.             *)
AtStart == [c \in Callers |-> IF c = Startup THEN "probe" ELSE "off"]
Each(v) == [c \in Callers |-> v]

(* A new sandbox, or one upgraded from the release with anthropic-oauth.env.*)
Init ==
    /\ ready = FALSE /\ authEnv = "absent" /\ legacy \in BOOLEAN /\ hook = FALSE
    /\ token = None /\ lan = FALSE /\ image = FALSE
    /\ boot = 1 /\ cred \in Creds
    /\ pc = AtStart /\ env = Each("injected") /\ wanted = Each(FALSE)
    /\ gateway = None /\ launched = {} /\ pull = Each("none")
    /\ cleared = FALSE /\ stale = {} /\ doubled = FALSE /\ torn = FALSE
-----------------------------------------------------------------------------
Goto(c, step) == pc' = [pc EXCEPT ![c] = step]
Sourced(e)    == IF authEnv \in Envs THEN authEnv ELSE e
Settings      == <<legacy, hook, token, lan, image>>

(* gateway_ready || rm -f gateway-ready: the answer, then the removal.     *)
ProbeReady(c) ==
    /\ pc[c] = "probe"
    /\ Goto(c, IF gateway = None THEN "clear" ELSE "config")
    /\ UNCHANGED <<home, boot, cred, env, wanted, spawned, history>>

ClearSentinel(c) ==
    /\ pc[c] = "clear"
    /\ ready' = FALSE
    /\ cleared' = TRUE
    /\ Goto(c, "config")
    /\ UNCHANGED <<authEnv, Settings, boot, cred, env, wanted, spawned, stale, doubled, torn>>

ConfigureBindWithToken(c) ==    \* mutant: the token only where the bind was not set
    /\ pc[c] = "config"
    /\ lan' = TRUE
    /\ Goto(c, IF lan THEN "legacy" ELSE "asktoken")
    /\ UNCHANGED <<ready, authEnv, legacy, hook, token, image, boot, cred, env, wanted,
                   spawned, history>>

(* gateway.mode and gateway.bind, each set unless it is.                   *)
ConfigureBind(c) ==
    /\ pc[c] = "config"
    /\ lan' = TRUE
    /\ Goto(c, "asktoken")
    /\ UNCHANGED <<ready, authEnv, legacy, hook, token, image, boot, cred, env, wanted,
                   spawned, history>>

AskTokenNever(c) ==    \* mutant: the token is set without asking for one
    /\ pc[c] = "asktoken"
    /\ Goto(c, "settoken")
    /\ UNCHANGED <<home, boot, cred, env, wanted, spawned, history>>

(* openclaw config get || openclaw config set: two commands.               *)
AskToken(c) ==
    /\ pc[c] = "asktoken"
    /\ Goto(c, IF token = None THEN "settoken" ELSE "legacy")
    /\ doubled' = (doubled \/ (token = None /\ \E d \in Callers \ {c} : pc[d] = "settoken"))
    /\ UNCHANGED <<home, boot, cred, env, wanted, spawned, cleared, stale, torn>>

SetToken(c) ==
    /\ pc[c] = "settoken"
    /\ token' = <<c, boot>>
    /\ Goto(c, "legacy")
    /\ UNCHANGED <<ready, authEnv, legacy, hook, lan, image, boot, cred, env, wanted,
                   spawned, history>>

RemoveLegacyUnlessOAuth(c) ==    \* mutant: only where the new file replaces it
    /\ pc[c] = "legacy"
    /\ legacy' = (legacy /\ cred # "oauth")
    /\ Goto(c, "auth")
    /\ UNCHANGED <<ready, authEnv, hook, token, lan, image, boot, cred, env, wanted,
                   spawned, history>>

RemoveLegacy(c) ==
    /\ pc[c] = "legacy"
    /\ legacy' = FALSE
    /\ Goto(c, "auth")
    /\ UNCHANGED <<ready, authEnv, hook, token, lan, image, boot, cred, env, wanted,
                   spawned, history>>

AuthStateKept(c) ==    \* mutant: an API key writes nothing and removes nothing
    /\ pc[c] = "auth"
    /\ authEnv' = IF cred = "apikey" THEN authEnv ELSE "empty"
    /\ Goto(c, IF cred = "apikey" THEN "source" ELSE "write")
    /\ UNCHANGED <<ready, Settings, boot, cred, env, wanted, spawned, history>>

(* The file of this start's credential state: `>` truncates it before      *)
(* printf writes it; an API key needs none.                                *)
AuthState(c) ==
    /\ pc[c] = "auth"
    /\ authEnv' = IF cred = "apikey" THEN "absent" ELSE "empty"
    /\ Goto(c, IF cred = "apikey" THEN "source" ELSE "write")
    /\ UNCHANGED <<ready, Settings, boot, cred, env, wanted, spawned, history>>

WriteAuthEnv(c) ==
    /\ pc[c] = "write"
    /\ authEnv' = IF cred = "oauth" THEN "oauth" ELSE "unset"
    /\ Goto(c, "source")
    /\ UNCHANGED <<ready, Settings, boot, cred, env, wanted, spawned, history>>

(* The file, if there is one, is sourced and hooked into .profile.         *)
SourceAuthEnv(c) ==
    /\ pc[c] = "source"
    /\ env' = [env EXCEPT ![c] = Sourced(@)]
    /\ hook' = (hook \/ authEnv # "absent")
    /\ torn' = (torn \/ authEnv = "empty")
    /\ Goto(c, "pull")
    /\ UNCHANGED <<ready, authEnv, legacy, token, lan, image, boot, cred, wanted, spawned,
                   cleared, stale, doubled>>

StartPull(c) ==
    /\ pc[c] = "pull"
    /\ LET want == HasDocker /\ ~image
       IN /\ wanted' = [wanted EXCEPT ![c] = want]
          /\ pull' = [pull EXCEPT ![c] = IF want THEN "pulling" ELSE "none"]
    /\ Goto(c, "launch")
    /\ UNCHANGED <<home, boot, cred, env, gateway, launched, history>>

LaunchGateway(c) ==
    /\ pc[c] = "launch"
    /\ IF gateway # None THEN Goto(c, "image") /\ UNCHANGED launched
       ELSE /\ launched' = launched \cup {[token |-> token, lan |-> lan, env |-> env[c]]}
            /\ Goto(c, "await")
    /\ UNCHANGED <<home, boot, cred, env, wanted, gateway, pull, history>>

AwaitForever(c) ==    \* mutant: the wait for /readyz has no bound
    /\ pc[c] = "await" /\ gateway # None
    /\ Goto(c, "image")
    /\ UNCHANGED <<home, boot, cred, env, wanted, spawned, history>>

(* Sixty seconds at most, then the bootstrap fails.                        *)
AwaitGateway(c) ==
    /\ pc[c] = "await"
    /\ \/ gateway # None /\ Goto(c, "image")
       \/ gateway = None /\ Goto(c, "failed")
    /\ UNCHANGED <<home, boot, cred, env, wanted, spawned, history>>

(* A hundred and eighty seconds at most, then it goes on without.          *)
AwaitImage(c) ==
    /\ pc[c] = "image"
    /\ Goto(c, "finish")
    /\ UNCHANGED <<home, boot, cred, env, wanted, spawned, history>>

(* The sentinel; a terminal's own bootstrap returns to its entrypoint.     *)
Finish(c) ==
    /\ pc[c] = "finish"
    /\ ready' = (ready \/ ~wanted[c] \/ image)
    /\ Goto(c, IF c = Startup THEN "done" ELSE "enter")
    /\ UNCHANGED <<authEnv, Settings, boot, cred, env, wanted, spawned, history>>

(* set -e: a command that fails ends the bootstrap and its entrypoint.     *)
Fail(c) ==
    /\ pc[c] \in {"config", "settoken", "write"}
    /\ Goto(c, "failed")
    /\ UNCHANGED <<home, boot, cred, env, wanted, spawned, history>>
-----------------------------------------------------------------------------
(* openclaw-start.sh.                                                      *)
Attach(c) ==
    /\ c \in Terminals /\ pc[c] = "off"
    /\ Goto(c, "wait")
    /\ UNCHANGED <<home, boot, cred, env, wanted, spawned, history>>

(* Forty-five seconds at most for the sentinel, then its own bootstrap.    *)
AwaitSentinel(c) ==
    /\ c \in Terminals /\ pc[c] = "wait"
    /\ \/ /\ ready /\ Goto(c, "enter")
          /\ stale' = IF cleared THEN stale ELSE stale \cup {c}
       \/ /\ ~ready /\ Goto(c, "probe")
          /\ UNCHANGED stale
    /\ UNCHANGED <<home, boot, cred, env, wanted, spawned, cleared, doubled, torn>>

(* The credential state is sourced once more: the bootstrap was a child.   *)
Enter(c) ==
    /\ c \in Terminals /\ pc[c] = "enter"
    /\ env' = [env EXCEPT ![c] = Sourced("injected")]
    /\ torn' = (torn \/ authEnv = "empty")
    /\ Goto(c, "chat")
    /\ UNCHANGED <<home, boot, cred, wanted, spawned, cleared, stale, doubled>>
-----------------------------------------------------------------------------
(* The processes the bootstrap leaves behind.                              *)

(* A gateway reads its configuration as it starts; one that is up already  *)
(* has the port, and the second ends.  It may also end by itself.          *)
GatewayStarts ==
    \E g \in launched :
        /\ launched' = launched \ {g}
        /\ \/ /\ gateway = None
              /\ gateway' \in {g, [g EXCEPT !.token = token, !.lan = lan]}
           \/ UNCHANGED gateway
        /\ UNCHANGED <<home, boot, cred, script, pull, history>>

(* docker pull && : > gateway-ready.                                       *)
PullEnds(c) ==
    /\ pull[c] = "pulling"
    /\ \/ image' = TRUE /\ pull' = [pull EXCEPT ![c] = "pulled"]
       \/ UNCHANGED image /\ pull' = [pull EXCEPT ![c] = "failed"]
    /\ UNCHANGED <<ready, authEnv, legacy, hook, token, lan, boot, cred, script, gateway,
                   launched, history>>

PullSignalsNot(c) ==    \* mutant: the pull leaves the sentinel to the script
    /\ pull[c] = "pulled"
    /\ pull' = [pull EXCEPT ![c] = "ended"]
    /\ UNCHANGED <<home, boot, cred, script, gateway, launched, history>>

PullSignalsAlways(c) ==    \* mutant: `;` for `&&`
    /\ pull[c] \in {"pulled", "failed"}
    /\ ready' = TRUE
    /\ pull' = [pull EXCEPT ![c] = "ended"]
    /\ UNCHANGED <<authEnv, Settings, boot, cred, script, gateway, launched, history>>

PullSignals(c) ==
    /\ pull[c] = "pulled"
    /\ ready' = TRUE
    /\ pull' = [pull EXCEPT ![c] = "ended"]
    /\ UNCHANGED <<authEnv, Settings, boot, cred, script, gateway, launched, history>>

(* The container is stopped, at any time, and started again, with what the *)
(* host has stored by then.                                                *)
Restart ==
    /\ boot < MaxBoots
    /\ boot' = boot + 1
    /\ cred' \in Creds
    /\ pc' = AtStart /\ env' = Each("injected") /\ wanted' = Each(FALSE)
    /\ gateway' = None /\ launched' = {} /\ pull' = Each("none")
    /\ cleared' = FALSE /\ stale' = {} /\ doubled' = FALSE /\ torn' = FALSE
    /\ UNCHANGED home

Bootstrap(c) ==
    \/ ProbeReady(c) \/ ClearSentinel(c) \/ ConfigureBind(c) \/ AskToken(c) \/ SetToken(c)
    \/ RemoveLegacy(c) \/ AuthState(c) \/ WriteAuthEnv(c) \/ SourceAuthEnv(c)
    \/ StartPull(c) \/ LaunchGateway(c) \/ AwaitGateway(c) \/ AwaitImage(c) \/ Finish(c)
Entrypoint(c) == AwaitSentinel(c) \/ Enter(c)
Background == GatewayStarts \/ \E c \in Callers : PullEnds(c) \/ PullSignals(c)

Next ==
    \/ \E c \in Callers : Bootstrap(c) \/ Fail(c) \/ Attach(c) \/ Entrypoint(c)
    \/ Background
    \/ Restart

Spec == Init /\ [][Next]_vars

(* Commands return, sleeps end, a pull and a gateway come to something.    *)
FairSpec ==
    /\ Spec
    /\ \A c \in Callers : WF_vars(Bootstrap(c) \/ Entrypoint(c))
    /\ \A c \in Callers : WF_vars(PullEnds(c) \/ PullSignals(c))
    /\ WF_vars(GatewayStarts)
-----------------------------------------------------------------------------
(* The sentinel promises tool calls that work: in whatever order pulls and *)
(* bootstraps of this start and the last end, it is never there without    *)
(* the image they need (openclaw-gateway-up.sh: "so the sentinel does not  *)
(* promise a working sandbox before the pull lands").                      *)
SentinelNeedsImage == ready /\ HasDocker => image

(* The gateway holds the token that every later `openclaw` call reads from *)
(* the configuration, over any number of stops and starts; but where two   *)
(* bootstraps of one start both found none.                                *)
TokenIsShared ==
    gateway # None /\ ~doubled => gateway.token = token

(* The gateway and the terminals run with the credential state of this     *)
(* start, not with that of the one before, whatever file that one left.    *)
(* Exempt: who sourced a file that another bootstrap was writing, and a    *)
(* terminal that went by the last start's sentinel.                        *)
Expected == [oauth |-> "oauth", apikey |-> "injected", none |-> "unset"][cred]
ProcessesFollow ==
    ~torn => /\ gateway # None => gateway.env = Expected
             /\ \A c \in Terminals \ stale : pc[c] = "chat" => env[c] = Expected

(* A login shell sees that state as well, once a bootstrap has come past   *)
(* the file: hooks and files of earlier starts and releases do not stand   *)
(* in its way, whatever the credential was then.                           *)
LoginShell == IF legacy THEN "oauth" ELSE IF hook THEN Sourced("injected") ELSE "injected"
ShellsFollow ==
    /\ \E c \in Callers : pc[c] \in {"pull", "launch", "await", "image", "finish", "done"}
    /\ \A d \in Callers : pc[d] \notin {"write", "failed"}
    => LoginShell = Expected

(* No credential state of an earlier start is seen by anything of this one.*)
CredentialsOfThisStart == ProcessesFollow /\ ShellsFollow

(* Everything the scripts wait for is bounded: each of them comes to its   *)
(* end, a terminal in the chat or with an error.                           *)
ScriptsEnd == \A c \in Callers : pc[c] \notin Ended ~> pc[c] \in Ended

(* A startup command that got through is answered by a sentinel, also when *)
(* the pull outlives its wait, unless the pull fails, or another bootstrap *)
(* removed it and failed, or the container is stopped.                     *)
Spoilt == \/ \E c \in Callers : pull[c] = "failed" \/ pc[c] = "failed"
          \/ pc[Startup] # "done"
SentinelComes == pc[Startup] = "done" ~> ready \/ Spoilt
-----------------------------------------------------------------------------
(* openclaw-gateway-up.sh: "while /readyz is not green the sentinel must   *)
(* read absent".                                                           *)
SentinelWaitsForGateway == cleared /\ ready => gateway # None
=============================================================================
