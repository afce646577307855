----------------------- MODULE OpenClawGateway_proofs -----------------------
(***************************************************************************)
(* Proofs about OpenClawGateway, for any number of terminals, any number of*)
(* starts of the container, and sandboxes with and without docker.         *)
(***************************************************************************)
EXTENDS OpenClawGateway, TLAPS

(* What a bootstrap has seen to by the step it is at.                      *)
PastBind  == {"asktoken", "settoken", "legacy", "auth", "write", "source", "pull", "launch"}
PastToken == {"legacy", "auth", "write", "source", "pull", "launch"}

BindInv ==
    /\ \A c \in Callers : /\ pc[c] \in PastBind => lan
                          /\ pc[c] \in PastToken => token # None
    /\ launched # {} => lan /\ token # None
Inv == TypeOK /\ BindInv

(* A gateway is launched by a bootstrap that has come past both settings,  *)
(* and no step takes them back.                                            *)
LEMMA LaunchedOK ==
    ASSUME Inv, NEW c \in Callers, LaunchGateway(c)
    PROVE  launched' \subseteq Gateways
<1>1. CASE gateway # None
  BY <1>1 DEF LaunchGateway, Inv, TypeOK
<1>2. CASE gateway = None
  <2>1. lan = TRUE /\ token \in Tokens
    BY DEF Inv, TypeOK, BindInv, LaunchGateway, PastBind, PastToken
  <2>2. env[c] \in Envs
    BY DEF Inv, TypeOK
  <2>3. [token |-> token, lan |-> lan, env |-> env[c]] \in Gateways
    BY <2>1, <2>2 DEF Gateways
  <2> QED BY <1>2, <2>3 DEF LaunchGateway, Inv, TypeOK
<1> QED BY <1>1, <1>2

LEMMA StartedOK ==
    ASSUME Inv, GatewayStarts
    PROVE  launched' \subseteq Gateways /\ gateway' \in Gateways \cup {None}
<1>1. PICK g \in launched :
        /\ launched' = launched \ {g}
        /\ \/ gateway' \in {g, [g EXCEPT !.token = token, !.lan = lan]}
           \/ gateway' = gateway
  BY DEF GatewayStarts
<1>2. g \in Gateways /\ token \in Tokens /\ lan = TRUE
  BY <1>1 DEF Inv, TypeOK, BindInv
<1>3. [g EXCEPT !.token = token, !.lan = lan] \in Gateways
  BY <1>2 DEF Gateways
<1> QED BY <1>1, <1>2, <1>3 DEF Inv, TypeOK

(* openclaw-gateway-up.sh and openclaw-start.sh: every variable keeps its  *)
(* type; above all, no gateway is ever launched before its bind and its    *)
(* token are set, whichever of two bootstraps set them.                    *)
THEOREM GatewayTypes == Spec => []TypeOK
<1> USE GatewayAssumption
<1>1. Init => Inv
  <2> SUFFICES ASSUME Init PROVE TypeOK /\ BindInv
    BY DEF Inv
  <2> USE DEF Init, AtStart, Each
  <2>1. pc \in [Callers -> {"probe", "off"}] /\ gateway = None /\ launched = {}
    OBVIOUS
  <2>2. boot \in 1 .. MaxBoots
    OBVIOUS
  <2>3. TypeOK
    BY <2>1, <2>2 DEF TypeOK, Contents, Envs, Creds, InBootstrap, Waiting, Ended
  <2>4. BindInv
    BY <2>1 DEF BindInv, PastBind, PastToken
  <2> QED BY <2>3, <2>4
<1>2. Inv /\ [Next]_vars => Inv'
  <2> SUFFICES ASSUME Inv, [Next]_vars PROVE Inv'
    OBVIOUS
  <2> USE DEF Inv, TypeOK, BindInv, home, script, spawned, history, Settings, Goto,
              InBootstrap, Waiting, Ended, PastBind, PastToken, Contents
  <2>1. ASSUME NEW c \in Callers, ProbeReady(c) PROVE Inv'
    BY <2>1 DEF ProbeReady
  <2>2. ASSUME NEW c \in Callers, ClearSentinel(c) PROVE Inv'
    BY <2>2 DEF ClearSentinel
  <2>3. ASSUME NEW c \in Callers, ConfigureBind(c) PROVE Inv'
    BY <2>3 DEF ConfigureBind
  <2>4. ASSUME NEW c \in Callers, AskToken(c) PROVE Inv'
    BY <2>4 DEF AskToken
  <2>5. ASSUME NEW c \in Callers, SetToken(c) PROVE Inv'
    BY <2>5 DEF SetToken, Tokens
  <2>6. ASSUME NEW c \in Callers, RemoveLegacy(c) PROVE Inv'
    BY <2>6 DEF RemoveLegacy
  <2>7. ASSUME NEW c \in Callers, AuthState(c) PROVE Inv'
    BY <2>7 DEF AuthState
  <2>8. ASSUME NEW c \in Callers, WriteAuthEnv(c) PROVE Inv'
    BY <2>8 DEF WriteAuthEnv
  <2>9. ASSUME NEW c \in Callers, SourceAuthEnv(c) PROVE Inv'
    BY <2>9 DEF SourceAuthEnv, Sourced, Envs
  <2>10. ASSUME NEW c \in Callers, StartPull(c) PROVE Inv'
    BY <2>10 DEF StartPull
  <2>11. ASSUME NEW c \in Callers, LaunchGateway(c) PROVE Inv'
    BY <2>11, LaunchedOK DEF LaunchGateway
  <2>12. ASSUME NEW c \in Callers, AwaitGateway(c) PROVE Inv'
    BY <2>12 DEF AwaitGateway
  <2>13. ASSUME NEW c \in Callers, AwaitImage(c) PROVE Inv'
    BY <2>13 DEF AwaitImage
  <2>14. ASSUME NEW c \in Callers, Finish(c) PROVE Inv'
    BY <2>14 DEF Finish
  <2>15. ASSUME NEW c \in Callers, Fail(c) PROVE Inv'
    BY <2>15 DEF Fail
  <2>16. ASSUME NEW c \in Callers, Attach(c) PROVE Inv'
    BY <2>16 DEF Attach
  <2>17. ASSUME NEW c \in Callers, AwaitSentinel(c) PROVE Inv'
    BY <2>17 DEF AwaitSentinel
  <2>18. ASSUME NEW c \in Callers, Enter(c) PROVE Inv'
    BY <2>18 DEF Enter, Sourced, Envs
  <2>19. ASSUME GatewayStarts PROVE Inv'
    <3>1. launched' \subseteq Gateways /\ gateway' \in Gateways \cup {None}
      BY <2>19, StartedOK
    <3>2. launched # {} /\ UNCHANGED <<home, boot, cred, script, pull, history>>
      BY <2>19 DEF GatewayStarts
    <3> QED BY <3>1, <3>2
  <2>20. ASSUME NEW c \in Callers, PullEnds(c) PROVE Inv'
    <3>1. image' \in BOOLEAN
      BY <2>20 DEF PullEnds
    <3>2. pull' \in [Callers -> {"none", "pulling", "pulled", "ended", "failed"}]
      BY <2>20 DEF PullEnds
    <3>3. UNCHANGED <<ready, authEnv, legacy, hook, token, lan, boot, cred, script, gateway,
                      launched, history>>
      BY <2>20 DEF PullEnds
    <3> QED BY <3>1, <3>2, <3>3
  <2>21. ASSUME NEW c \in Callers, PullSignals(c) PROVE Inv'
    BY <2>21 DEF PullSignals
  <2>22. ASSUME Restart PROVE Inv'
    <3> USE <2>22 DEF Restart, AtStart, Each
    <3>1. pc' \in [Callers -> {"probe", "off"}] /\ gateway' = None /\ launched' = {}
      OBVIOUS
    <3>2. boot' \in 1 .. MaxBoots /\ cred' \in Creds
      OBVIOUS
    <3>3. env' \in [Callers -> Envs] /\ wanted' \in [Callers -> BOOLEAN]
      BY DEF Envs
    <3>4. pull' \in [Callers -> {"none", "pulling", "pulled", "ended", "failed"}]
      OBVIOUS
    <3>5. TypeOK'
      BY <3>1, <3>2, <3>3, <3>4
    <3>6. BindInv'
      BY <3>1
    <3> QED BY <3>5, <3>6
  <2>23. CASE UNCHANGED vars
    BY <2>23 DEF vars
  <2> QED
    BY <2>1, <2>2, <2>3, <2>4, <2>5, <2>6, <2>7, <2>8, <2>9, <2>10, <2>11, <2>12, <2>13,
       <2>14, <2>15, <2>16, <2>17, <2>18, <2>19, <2>20, <2>21, <2>22, <2>23
    DEF Next, Bootstrap, Entrypoint, Background
<1> QED BY <1>1, <1>2, PTL DEF Spec, Inv
-----------------------------------------------------------------------------
(* The sentinel is written by a pull that landed, or by a bootstrap that   *)
(* had no image to wait for or finds it there.                             *)
PastPull == {"launch", "await", "image", "finish"}
ImageInv ==
    /\ SentinelNeedsImage
    /\ \A c \in Callers : pull[c] = "pulled" => image
    /\ \A c \in Callers : pc[c] \in PastPull /\ ~wanted[c] /\ HasDocker => image

(* openclaw-gateway-up.sh: whatever bootstraps, pulls and stops interleave,*)
(* the sentinel never promises tool calls without the image they need.     *)
THEOREM SentinelIsHonest == Spec => []SentinelNeedsImage
<1> USE DEF ImageInv, SentinelNeedsImage, PastPull
<1>1. Init => ImageInv
  BY DEF Init, AtStart, Each
<1>2. TypeOK /\ ImageInv /\ [Next]_vars => ImageInv'
  <2> SUFFICES ASSUME TypeOK, ImageInv, [Next]_vars PROVE ImageInv'
    OBVIOUS
  <2> USE DEF home, script, spawned, history, Settings, Goto
  <2>1. ASSUME NEW c \in Callers, ClearSentinel(c) PROVE ImageInv'
    BY <2>1 DEF ClearSentinel, TypeOK
  <2>2. ASSUME NEW c \in Callers, StartPull(c) PROVE ImageInv'
    BY <2>2 DEF StartPull, TypeOK
  <2>3. ASSUME NEW c \in Callers, Finish(c) PROVE ImageInv'
    BY <2>3 DEF Finish, TypeOK
  <2>4. ASSUME NEW c \in Callers, PullEnds(c) PROVE ImageInv'
    BY <2>4 DEF PullEnds, TypeOK
  <2>5. ASSUME NEW c \in Callers, PullSignals(c) PROVE ImageInv'
    BY <2>5 DEF PullSignals, TypeOK
  <2>6. ASSUME Restart PROVE ImageInv'
    BY <2>6 DEF Restart, AtStart, Each
  <2>7. ASSUME NEW c \in Callers, LaunchGateway(c) \/ AwaitGateway(c) \/ AwaitImage(c)
        PROVE  ImageInv'
    BY <2>7 DEF LaunchGateway, AwaitGateway, AwaitImage, TypeOK
  <2>8. ASSUME NEW c \in Callers,
               \/ ProbeReady(c) \/ ConfigureBind(c) \/ AskToken(c) \/ SetToken(c)
               \/ RemoveLegacy(c) \/ AuthState(c) \/ WriteAuthEnv(c) \/ SourceAuthEnv(c)
               \/ Fail(c) \/ Attach(c) \/ AwaitSentinel(c) \/ Enter(c)
        PROVE  ImageInv'
    <3>1. UNCHANGED <<ready, image, pull, wanted>>
      BY <2>8 DEF ProbeReady, ConfigureBind, AskToken, SetToken, RemoveLegacy, AuthState,
                  WriteAuthEnv, SourceAuthEnv, Fail, Attach, AwaitSentinel, Enter
    <3>2. \A d \in Callers : pc'[d] \in PastPull => pc[d] \in PastPull
      BY <2>8 DEF ProbeReady, ConfigureBind, AskToken, SetToken, RemoveLegacy, AuthState,
                  WriteAuthEnv, SourceAuthEnv, Fail, Attach, AwaitSentinel, Enter, TypeOK
    <3> QED BY <3>1, <3>2
  <2>9. CASE GatewayStarts \/ UNCHANGED vars
    <3>1. UNCHANGED <<ready, image, pull, pc, wanted>>
      BY <2>9 DEF GatewayStarts, vars
    <3> QED BY <3>1
  <2> QED
    BY <2>1, <2>2, <2>3, <2>4, <2>5, <2>6, <2>7, <2>8, <2>9
    DEF Next, Bootstrap, Entrypoint, Background
<1> QED BY <1>1, <1>2, GatewayTypes, PTL DEF Spec
-----------------------------------------------------------------------------
(* A token is set once: a bootstrap about to set one has found none, and so*)
(* has none other of this start.  What is launched has read it.            *)
TokenInv ==
    ~doubled =>
        /\ \A c \in Callers : pc[c] = "settoken" => token = None
        /\ \A c, d \in Callers : pc[c] = "settoken" /\ pc[d] = "settoken" => c = d
        /\ \A g \in launched : g.token = token
        /\ TokenIsShared

(* openclaw-gateway-up.sh: over any number of stops, starts and overlapping*)
(* bootstraps, a gateway that answers holds the configuration's token, but *)
(* where two bootstraps of one start both found none.                      *)
THEOREM TokenIsHeld == Spec => []TokenIsShared
<1> USE GatewayAssumption DEF TokenInv, TokenIsShared
<1>1. Init => TokenInv
  BY DEF Init, AtStart
<1>2. TypeOK /\ TokenInv /\ [Next]_vars => TokenInv'
  <2> SUFFICES ASSUME TypeOK, TokenInv, [Next]_vars PROVE TokenInv'
    OBVIOUS
  <2> USE DEF home, script, spawned, history, Settings, Goto
  <2>1. ASSUME NEW c \in Callers, AskToken(c) PROVE TokenInv'
    BY <2>1 DEF AskToken, TypeOK
  <2>2. ASSUME NEW c \in Callers, SetToken(c) PROVE TokenInv'
    <3> SUFFICES ASSUME ~doubled PROVE TokenInv'
      BY <2>2 DEF SetToken
    <3>1. token = None
      BY <2>2 DEF SetToken
    <3>2. \A g \in Gateways : g.token # None
      BY DEF Gateways
    <3>3. launched = {} /\ gateway = None
      BY <3>1, <3>2 DEF TypeOK
    <3>4. \A d \in Callers : pc'[d] # "settoken"
      BY <2>2 DEF SetToken, TypeOK
    <3> QED BY <2>2, <3>3, <3>4 DEF SetToken
  <2>3. ASSUME NEW c \in Callers, LaunchGateway(c) PROVE TokenInv'
    BY <2>3 DEF LaunchGateway, TypeOK
  <2>4. ASSUME GatewayStarts PROVE TokenInv'
    <3>1. PICK g \in launched :
            /\ launched' = launched \ {g}
            /\ \/ gateway' \in {g, [g EXCEPT !.token = token, !.lan = lan]}
               \/ gateway' = gateway
      BY <2>4 DEF GatewayStarts
    <3>2. UNCHANGED <<token, pc, doubled>>
      BY <2>4 DEF GatewayStarts
    <3>3. g \in Gateways
      BY DEF TypeOK
    <3>4. [g EXCEPT !.token = token, !.lan = lan].token = token
      BY <3>3 DEF Gateways
    <3> SUFFICES ASSUME ~doubled PROVE TokenInv'
      BY <3>2
    <3>5. gateway' = None \/ gateway'.token = token
      <4>1. CASE gateway' = gateway
        BY <4>1
      <4>2. CASE gateway' = g
        BY <4>2
      <4>3. CASE gateway' = [g EXCEPT !.token = token, !.lan = lan]
        BY <4>3, <3>4
      <4> QED BY <3>1, <4>1, <4>2, <4>3
    <3> QED BY <3>1, <3>2, <3>5
  <2>5. ASSUME Restart PROVE TokenInv'
    BY <2>5 DEF Restart, AtStart
  <2>6. ASSUME NEW c \in Callers,
               \/ ProbeReady(c) \/ ClearSentinel(c) \/ ConfigureBind(c) \/ RemoveLegacy(c)
               \/ AuthState(c) \/ WriteAuthEnv(c) \/ SourceAuthEnv(c) \/ StartPull(c)
               \/ AwaitGateway(c) \/ AwaitImage(c) \/ Finish(c) \/ Fail(c)
               \/ Attach(c) \/ AwaitSentinel(c) \/ Enter(c)
        PROVE  TokenInv'
    <3>1. UNCHANGED <<token, gateway, launched, doubled>>
      BY <2>6 DEF ProbeReady, ClearSentinel, ConfigureBind, RemoveLegacy, AuthState,
                  WriteAuthEnv, SourceAuthEnv, StartPull, AwaitGateway, AwaitImage, Finish,
                  Fail, Attach, AwaitSentinel, Enter
    <3>2. \A d \in Callers : pc'[d] = "settoken" => pc[d] = "settoken"
      BY <2>6 DEF ProbeReady, ClearSentinel, ConfigureBind, RemoveLegacy, AuthState,
                  WriteAuthEnv, SourceAuthEnv, StartPull, AwaitGateway, AwaitImage, Finish,
                  Fail, Attach, AwaitSentinel, Enter, TypeOK
    <3> QED BY <3>1, <3>2
  <2>7. ASSUME NEW c \in Callers, PullEnds(c) \/ PullSignals(c) PROVE TokenInv'
    BY <2>7 DEF PullEnds, PullSignals
  <2>8. CASE UNCHANGED vars
    BY <2>8 DEF vars
  <2> QED
    BY <2>1, <2>2, <2>3, <2>4, <2>5, <2>6, <2>7, <2>8
    DEF Next, Bootstrap, Entrypoint, Background
<1> QED BY <1>1, <1>2, GatewayTypes, PTL DEF Spec
-----------------------------------------------------------------------------
(* The credential file of this start.  From the first bootstrap that has   *)
(* come to it, it is what the stored credential asks for, or empty while   *)
(* somebody writes it or after he failed to; nothing is launched, entered, *)
(* pulled or signalled before that.                                        *)
AtSource   == {"probe", "clear", "config", "asktoken", "settoken", "legacy", "auth",
               "write", "source", "off", "wait"}
PastSource == {"pull", "launch", "await", "image", "finish", "done"}
PastAuth   == {"write", "source"} \cup PastSource

Target == IF cred = "oauth" THEN "oauth" ELSE IF cred = "apikey" THEN "absent" ELSE "unset"
Settled ==
    /\ ~legacy
    /\ \/ authEnv = Target
       \/ /\ authEnv = "empty" /\ cred # "apikey"
          /\ \E c \in Callers : pc[c] \in {"write", "failed"}
Begun ==
    \/ \E c \in Callers : \/ pc[c] \in PastAuth
                          \/ pc[c] \in {"enter", "chat"} /\ c \notin stale
                          \/ pull[c] # "none"
    \/ gateway # None
    \/ launched # {}
    \/ cleared /\ ready

FileInv ==
    /\ Begun => Settled
    /\ \A c \in Callers : /\ pc[c] = "auth" => ~legacy
                          /\ pc[c] = "write" => cred # "apikey"
                          /\ pc[c] \in PastSource /\ cred # "apikey" => hook

EnvInv ==
    /\ \A c \in Callers : pc[c] \in AtSource => env[c] = "injected"
    /\ ~torn =>
          /\ \A c \in Callers : pc[c] \in PastSource => env[c] = Expected
          /\ \A g \in launched : g.env = Expected
          /\ ProcessesFollow

LEMMA ExpectedIs ==
    ASSUME cred \in Creds
    PROVE  Expected = IF cred = "oauth" THEN "oauth"
                      ELSE IF cred = "apikey" THEN "injected" ELSE "unset"
BY DEF Creds, Expected

(* Whoever sources a file that is not torn gets what is expected.          *)
LEMMA SourcedIs ==
    ASSUME cred \in Creds, Settled, authEnv # "empty"
    PROVE  Sourced("injected") = Expected /\ (cred # "apikey" => authEnv # "absent")
BY ExpectedIs DEF Creds, Settled, Target, Sourced, Envs

LEMMA BegunBefore ==
    ASSUME TypeOK, Next, Begun', ~Begun
    PROVE  Restart \/ \E c \in Callers : AuthState(c)
<1> SUFFICES ASSUME ~Restart, \A c \in Callers : ~AuthState(c) PROVE FALSE
  OBVIOUS
<1> USE DEF Begun, PastAuth, PastSource, home, script, spawned, history, Settings, Goto
<1>1. ASSUME NEW c \in Callers, Bootstrap(c) PROVE FALSE
  <2> USE DEF TypeOK
  <2>1. CASE ProbeReady(c) \/ ClearSentinel(c) \/ ConfigureBind(c) \/ AskToken(c)
    BY <2>1 DEF ProbeReady, ClearSentinel, ConfigureBind, AskToken
  <2>2. CASE SetToken(c) \/ RemoveLegacy(c) \/ WriteAuthEnv(c) \/ SourceAuthEnv(c)
    BY <2>2 DEF SetToken, RemoveLegacy, WriteAuthEnv, SourceAuthEnv
  <2>3. CASE StartPull(c) \/ LaunchGateway(c) \/ AwaitGateway(c) \/ AwaitImage(c) \/ Finish(c)
    BY <2>3 DEF StartPull, LaunchGateway, AwaitGateway, AwaitImage, Finish
  <2> QED BY <1>1, <2>1, <2>2, <2>3 DEF Bootstrap
<1>2. ASSUME NEW c \in Callers, Fail(c) \/ Attach(c) \/ Entrypoint(c) PROVE FALSE
  BY <1>2 DEF Fail, Attach, Entrypoint, AwaitSentinel, Enter, TypeOK
<1>3. ASSUME NEW c \in Callers, PullEnds(c) \/ PullSignals(c) PROVE FALSE
  BY <1>3 DEF PullEnds, PullSignals, TypeOK
<1>4. ASSUME GatewayStarts PROVE FALSE
  BY <1>4 DEF GatewayStarts
<1> QED BY <1>1, <1>2, <1>3, <1>4 DEF Next, Background

LEMMA FileInvStep ==
    ASSUME TypeOK, FileInv, [Next]_vars
    PROVE  FileInv'
<1> USE DEF FileInv, home, script, spawned, history, Settings, Goto
<1>1. CASE UNCHANGED vars
  BY <1>1 DEF vars, Begun, Settled, Target
<1>2. CASE Restart
  BY <1>2 DEF Restart, AtStart, Each, Begun, PastAuth, PastSource
<1>3. ASSUME NEW c \in Callers, AuthState(c) PROVE FileInv'
  <2>1. Settled'
    BY <1>3 DEF AuthState, TypeOK, Settled, Target
  <2>2. \A d \in Callers : /\ pc'[d] = "auth" => ~legacy'
                           /\ pc'[d] = "write" => cred' # "apikey"
                           /\ pc'[d] \in PastSource /\ cred' # "apikey" => hook'
    BY <1>3 DEF AuthState, TypeOK, PastSource
  <2> QED BY <2>1, <2>2
<1>4. ASSUME Next, ~Restart, \A c \in Callers : ~AuthState(c) PROVE FileInv'
  <2>1. Begun' => Settled
    BY <1>4, BegunBefore
  <2>2. ASSUME UNCHANGED <<authEnv, legacy, cred, hook>>,
               \A d \in Callers : /\ pc[d] \in {"write", "failed"} => pc'[d] \in {"write", "failed"}
                                  /\ pc'[d] \in {"auth", "write"} => pc[d] = pc'[d]
                                  /\ pc'[d] \in PastSource => pc[d] \in PastSource
        PROVE  FileInv'
    BY <2>1, <2>2 DEF Settled, Target
  <2>3. ASSUME NEW c \in Callers, Bootstrap(c) PROVE FileInv'
    <3> USE DEF TypeOK, PastSource
    <3>1. CASE ProbeReady(c) \/ ClearSentinel(c) \/ ConfigureBind(c) \/ AskToken(c) \/ SetToken(c)
      BY <2>2, <3>1 DEF ProbeReady, ClearSentinel, ConfigureBind, AskToken, SetToken
    <3>2. CASE RemoveLegacy(c)
      BY <2>1, <3>2 DEF RemoveLegacy, Settled, Target
    <3>3. CASE WriteAuthEnv(c)
      <4>1. pc[c] = "write" /\ cred # "apikey" /\ UNCHANGED <<legacy, hook, cred>>
        BY <3>3 DEF WriteAuthEnv
      <4>2. ~legacy
        BY <4>1 DEF Begun, PastAuth, Settled
      <4>3. Settled'
        BY <3>3, <4>1, <4>2 DEF WriteAuthEnv, Settled, Target
      <4>4. \A d \in Callers : pc'[d] = pc[d] \/ pc'[d] = "source"
        BY <3>3 DEF WriteAuthEnv
      <4> QED BY <4>1, <4>3, <4>4
    <3>4. CASE SourceAuthEnv(c)
      <4>1. Settled /\ pc[c] = "source"
        BY <3>4 DEF SourceAuthEnv, Begun, PastAuth
      <4>2. UNCHANGED <<authEnv, legacy, cred>>
        BY <3>4 DEF SourceAuthEnv
      <4>3. \A d \in Callers : d # c => pc'[d] = pc[d]
        BY <3>4 DEF SourceAuthEnv
      <4>4. pc'[c] = "pull" /\ (authEnv # "absent" => hook') /\ (hook => hook')
        BY <3>4 DEF SourceAuthEnv
      <4>5. cred # "apikey" => authEnv # "absent"
        BY <4>1 DEF Settled, Target
      <4>6. Settled'
        BY <4>1, <4>2, <4>3 DEF Settled, Target
      <4> QED BY <4>2, <4>3, <4>4, <4>5, <4>6
    <3>5. CASE StartPull(c) \/ LaunchGateway(c) \/ AwaitGateway(c) \/ AwaitImage(c) \/ Finish(c)
      BY <2>2, <3>5 DEF StartPull, LaunchGateway, AwaitGateway, AwaitImage, Finish
    <3> QED BY <1>4, <2>3, <3>1, <3>2, <3>3, <3>4, <3>5 DEF Bootstrap
  <2>4. ASSUME NEW c \in Callers, Fail(c) \/ Attach(c) \/ Entrypoint(c) PROVE FileInv'
    BY <2>2, <2>4 DEF Fail, Attach, Entrypoint, AwaitSentinel, Enter, TypeOK, PastSource
  <2>5. CASE Background
    BY <2>2, <2>5 DEF Background, GatewayStarts, PullEnds, PullSignals
  <2> QED BY <1>4, <2>3, <2>4, <2>5 DEF Next
<1> QED BY <1>1, <1>2, <1>3, <1>4

LEMMA EnvInvStep ==
    ASSUME TypeOK, FileInv, EnvInv, [Next]_vars
    PROVE  EnvInv'
<1> USE DEF EnvInv, ProcessesFollow, home, script, spawned, history, Settings, Goto
<1>2. CASE Restart
  <2>1. /\ \A d \in Callers : env'[d] = "injected" /\ pc'[d] \in {"probe", "off"}
        /\ gateway' = None /\ launched' = {}
    BY <1>2 DEF Restart, AtStart, Each
  <2>2. \A d \in Terminals : d \in Callers
    BY DEF Callers
  <2> QED BY <2>1, <2>2 DEF PastSource
<1>3. ASSUME UNCHANGED <<env, cred, torn, launched, gateway>>, stale \subseteq stale',
             \A d \in Callers : /\ pc'[d] \in AtSource => pc[d] \in AtSource
                                /\ pc'[d] \in PastSource => pc[d] \in PastSource
                                /\ pc'[d] = "chat" => pc[d] = "chat"
      PROVE  EnvInv'
  <2>1. Expected' = Expected
    BY <1>3 DEF Expected
  <2>2. \A d \in Terminals : d \in Callers
    BY DEF Callers
  <2> QED BY <1>3, <2>1, <2>2
<1>1. CASE UNCHANGED vars
  BY <1>1, <1>3 DEF vars
<1>4. ASSUME NEW c \in Callers, Bootstrap(c) PROVE EnvInv'
  <2> USE DEF TypeOK, AtSource, PastSource
  <2>1. CASE ProbeReady(c) \/ ClearSentinel(c) \/ ConfigureBind(c) \/ AskToken(c) \/ SetToken(c)
    BY <1>3, <2>1 DEF ProbeReady, ClearSentinel, ConfigureBind, AskToken, SetToken
  <2>2. CASE RemoveLegacy(c) \/ AuthState(c) \/ WriteAuthEnv(c)
    BY <1>3, <2>2 DEF RemoveLegacy, AuthState, WriteAuthEnv
  <2>3. CASE SourceAuthEnv(c)
    <3>1. Settled /\ pc[c] = "source" /\ env[c] = "injected"
      BY <2>3 DEF SourceAuthEnv, FileInv, Begun, PastAuth
    <3>2. authEnv # "empty" => Sourced("injected") = Expected
      BY <3>1, SourcedIs
    <3>3. UNCHANGED <<cred, launched, gateway, stale>> /\ Expected' = Expected
      BY <2>3 DEF SourceAuthEnv, Expected
    <3>4. /\ env' = [env EXCEPT ![c] = Sourced("injected")]
          /\ torn' = (torn \/ authEnv = "empty") /\ pc' = [pc EXCEPT ![c] = "pull"]
      BY <2>3, <3>1 DEF SourceAuthEnv
    <3>5. \A d \in Callers : /\ d # c => pc'[d] = pc[d] /\ env'[d] = env[d]
                             /\ d = c => pc'[d] = "pull" /\ env'[d] = Sourced("injected")
      BY <3>4
    <3>6. \A d \in Terminals : d \in Callers
      BY DEF Callers
    <3>7. \A d \in Callers : pc'[d] \in AtSource => env'[d] = "injected"
      BY <3>5
    <3>8. ~torn' => \A d \in Callers : pc'[d] \in PastSource => env'[d] = Expected
      BY <3>2, <3>4, <3>5
    <3>9. ~torn' => \A d \in Terminals \ stale : pc'[d] = "chat" => env'[d] = Expected
      BY <3>4, <3>5, <3>6
    <3> QED BY <3>3, <3>4, <3>7, <3>8, <3>9
  <2>4. CASE LaunchGateway(c)
    <3>1. UNCHANGED <<env, cred, gateway, torn, stale>> /\ Expected' = Expected
      BY <2>4 DEF LaunchGateway, Expected
    <3>2. \A d \in Callers : /\ pc'[d] \in AtSource => pc[d] \in AtSource
                             /\ pc'[d] \in PastSource => pc[d] \in PastSource
                             /\ pc'[d] = "chat" => pc[d] = "chat"
      BY <2>4 DEF LaunchGateway
    <3>3. \A g \in launched' : g \in launched \/ g.env = env[c]
      BY <2>4 DEF LaunchGateway
    <3>4. ~torn => env[c] = Expected
      BY <2>4 DEF LaunchGateway
    <3>5. \A d \in Terminals : d \in Callers
      BY DEF Callers
    <3> QED BY <3>1, <3>2, <3>3, <3>4, <3>5
  <2>5. CASE StartPull(c) \/ AwaitGateway(c) \/ AwaitImage(c) \/ Finish(c)
    BY <1>3, <2>5 DEF StartPull, AwaitGateway, AwaitImage, Finish
  <2> QED BY <1>4, <2>1, <2>2, <2>3, <2>4, <2>5 DEF Bootstrap
<1>5. ASSUME NEW c \in Callers, Fail(c) \/ Attach(c) \/ AwaitSentinel(c) PROVE EnvInv'
  BY <1>3, <1>5 DEF Fail, Attach, AwaitSentinel, TypeOK, AtSource, PastSource
<1>6. ASSUME NEW c \in Callers, Enter(c) PROVE EnvInv'
  <2>1. /\ pc[c] = "enter" /\ UNCHANGED <<cred, launched, gateway, stale>>
        /\ env' = [env EXCEPT ![c] = Sourced("injected")]
        /\ torn' = (torn \/ authEnv = "empty") /\ pc' = [pc EXCEPT ![c] = "chat"]
    BY <1>6 DEF Enter
  <2>2. c \notin stale /\ authEnv # "empty" => Sourced("injected") = Expected
    <3> SUFFICES ASSUME c \notin stale, authEnv # "empty" PROVE Sourced("injected") = Expected
      OBVIOUS
    <3>1. Settled
      BY <2>1 DEF FileInv, Begun
    <3> QED BY <3>1, SourcedIs DEF TypeOK
  <2>3. Expected' = Expected
    BY <2>1 DEF Expected
  <2>4. c \in Callers /\ \A d \in Terminals : d \in Callers
    BY DEF Callers
  <2>5. \A d \in Callers : /\ d # c => pc'[d] = pc[d] /\ env'[d] = env[d]
                           /\ d = c => pc'[d] = "chat" /\ env'[d] = Sourced("injected")
    BY <2>1 DEF TypeOK
  <2>6. \A d \in Callers : pc'[d] \in AtSource => env'[d] = "injected"
    BY <2>5 DEF AtSource
  <2>7. ~torn' => \A d \in Callers : pc'[d] \in PastSource => env'[d] = Expected
    BY <2>1, <2>5 DEF PastSource
  <2>8. ~torn' => \A d \in Terminals \ stale : pc'[d] = "chat" => env'[d] = Expected
    BY <2>1, <2>2, <2>4, <2>5
  <2> QED BY <2>1, <2>3, <2>6, <2>7, <2>8
<1>7. ASSUME NEW c \in Callers, PullEnds(c) \/ PullSignals(c) PROVE EnvInv'
  BY <1>3, <1>7 DEF PullEnds, PullSignals
<1>8. CASE GatewayStarts
  <2>1. PICK g \in launched :
          /\ launched' = launched \ {g}
          /\ \/ gateway' \in {g, [g EXCEPT !.token = token, !.lan = lan]}
             \/ gateway' = gateway
    BY <1>8 DEF GatewayStarts
  <2>2. g \in Gateways /\ [g EXCEPT !.token = token, !.lan = lan].env = g.env
    BY DEF TypeOK, Gateways
  <2>3. UNCHANGED <<pc, env, cred, torn, stale>> /\ Expected' = Expected
    BY <1>8 DEF GatewayStarts, Expected
  <2>4. ~torn => gateway' = gateway \/ gateway'.env = Expected
    BY <2>1, <2>2
  <2> QED BY <2>1, <2>3, <2>4
<1> QED BY <1>1, <1>2, <1>4, <1>5, <1>6, <1>7, <1>8 DEF Next, Entrypoint, Background

(* openclaw-gateway-up.sh: the gateway, the terminals and a login shell see*)
(* the credential state of this start, whatever the starts before it and   *)
(* other bootstraps of this one left in the home directory.                *)
THEOREM CredentialsAreFresh == Spec => []CredentialsOfThisStart
<1>1. Init => FileInv /\ EnvInv
  <2> SUFFICES ASSUME Init PROVE FileInv /\ EnvInv
    OBVIOUS
  <2>1. /\ \A c \in Callers : /\ pc[c] \in {"probe", "off"} /\ env[c] = "injected"
                              /\ pull[c] = "none"
        /\ gateway = None /\ launched = {} /\ ~cleared
    BY DEF Init, AtStart, Each
  <2>2. \A c \in Terminals : c \in Callers
    BY DEF Callers
  <2>3. ~Begun
    BY <2>1 DEF Begun, PastAuth, PastSource
  <2> QED BY <2>1, <2>2, <2>3 DEF FileInv, EnvInv, ProcessesFollow, PastSource
<1>2. TypeOK /\ FileInv /\ EnvInv /\ [Next]_vars => FileInv' /\ EnvInv'
  BY FileInvStep, EnvInvStep
<1>3. TypeOK /\ FileInv /\ EnvInv => CredentialsOfThisStart
  <2> SUFFICES ASSUME TypeOK, FileInv, EnvInv,
                      NEW c \in Callers, pc[c] \in PastSource,
                      \A d \in Callers : pc[d] \notin {"write", "failed"}
               PROVE  LoginShell = Expected
    <3>1. TypeOK /\ FileInv /\ EnvInv => ProcessesFollow
      BY DEF EnvInv, ProcessesFollow
    <3> QED BY <3>1, Zenon DEF CredentialsOfThisStart, ShellsFollow, PastSource
  <2>1. Settled
    BY DEF FileInv, Begun, PastAuth
  <2>2. ~legacy /\ authEnv # "empty" /\ Sourced("injected") = Expected
    <3>1. ~legacy /\ authEnv # "empty"
      BY <2>1 DEF Settled, Target
    <3> QED BY <2>1, <3>1, SourcedIs DEF TypeOK
  <2>3. hook \/ cred = "apikey"
    BY DEF FileInv
  <2>4. cred = "apikey" => Expected = "injected"
    BY ExpectedIs DEF TypeOK
  <2> QED BY <2>2, <2>3, <2>4 DEF LoginShell
<1> QED BY <1>1, <1>2, <1>3, GatewayTypes, PTL DEF Spec
=============================================================================
