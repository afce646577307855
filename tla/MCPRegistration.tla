-------------------------- MODULE MCPRegistration --------------------------
(***************************************************************************)
(* The MCP subtests of the suite, tck/mcp.go.  A kit registers the MCP     *)
(* gateway with a startup script, and testdata/tck.yaml says what to       *)
(* expect of it.  mcp_registration reads the script; mcp_merge runs it     *)
(* twice against a config file that already holds another server.          *)
(*                                                                         *)
(* Of a script's text what the assertions look for is kept.  What it does  *)
(* to a config is unknown, but the same each time: does is a function that *)
(* is found out as the script is run.                                      *)
(***************************************************************************)
CONSTANTS
    Configs,      \* what the agent's config file may hold
    Seed,         \* the config seeded: a server the user added
    Siblings,     \* the configs that have that server, under its own URL
    Gateways,     \* those that have the gateway under the injected URL
    Extension,    \* Extension[path]: the syntax its extension tells, or Absent
    Absent        \* no script, no expectation, no file

ASSUME RegistrationAssumption ==
    Seed \in Siblings /\ Siblings \subseteq Configs /\ Gateways \subseteq Configs

VARIABLES
    script,  \* the startup command that reads $MCP_GATEWAY_URL, or Absent
    want,    \* the mcp: block of testdata/tck.yaml, or Absent
    merge,   \* where mcp_merge is
    config,  \* the config file
    does,    \* does[c]: what the script makes of c, as far as it was seen
    first    \* the config read after the first registration

merging == <<merge, config, does, first>>
mcp == <<script, want, merging>>
-----------------------------------------------------------------------------
format(expected) == IF expected.format = Absent THEN "json" ELSE expected.format

validateFormat(expected) ==    \* mutant: the extension is not cross-checked
    format(expected) \in {"json", "toml"}

validate(expected) ==
    /\ format(expected) \in {"json", "toml"}
    /\ expected.path # Absent /\ Extension[expected.path] # Absent =>
          Extension[expected.path] = format(expected)

(* A pattern of one syntax finds no key in a script of the other.          *)
Present(key, syntax) == syntax = script.syntax /\ key \in script.keys
Assigned(key, syntax) == Present(key, syntax) /\ key \in script.bound

(* assertMCPRegistration, in its order: the guard, the URL outside it, the *)
(* sentinel and no token, the user; then what tck.yaml adds.               *)
Registers ==
    /\ script.guard /\ script.url /\ script.sentinel /\ ~script.token
    /\ script.user \notin {Absent, "root"}
    /\ want # Absent =>
          /\ validate(want)
          /\ want.path \in {Absent, script.path}
          /\ want.transport # Absent => Assigned(want.transport, format(want))
          /\ \A key \in want.forbidden : ~Present(key, format(want))
-----------------------------------------------------------------------------
InitMerge ==
    /\ merge = "idle" /\ config = Absent /\ does = <<>> /\ first = Absent

Skips == want = Absent \/ ~want.preserves
Runnable ==
    /\ script # Absent
    /\ want.path # Absent /\ want.transport # Absent /\ format(want) = "json"

(* RunMCPMergeTests: opt-in, and only for a config it can read with jq.    *)
BeginMerge ==
    /\ merge = "idle"
    /\ merge' = IF Skips THEN "skipped" ELSE IF Runnable THEN "seed" ELSE "failed"
    /\ UNCHANGED <<config, does, first>>

SeedConfig ==
    /\ merge = "seed"
    /\ config' = Seed /\ merge' = "register"
    /\ UNCHANGED <<does, first>>

(* One run of the script: what it did to this config before, it does again.*)
RunScript ==
    /\ config' \in IF config \in DOMAIN does THEN {does[config]} ELSE Configs
    /\ does' = [c \in DOMAIN does \cup {config} |-> IF c = config THEN config' ELSE does[c]]

(* "registration on first start", and the config read after it.            *)
Register ==
    /\ merge = "register"
    /\ RunScript
    /\ first' = config' /\ merge' = "again"

RegisterOnce ==    \* mutant: no second registration
    /\ merge = "again"
    /\ merge' = "compare"
    /\ UNCHANGED <<config, does, first>>

(* "registration on restart".                                              *)
RegisterAgain ==
    /\ merge = "again"
    /\ RunScript
    /\ merge' = "compare"
    /\ UNCHANGED first

CompareNot ==    \* mutant: the two configs read are not compared
    /\ merge = "compare"
    /\ merge' = IF config \in Siblings \cap Gateways THEN "passed" ELSE "failed"
    /\ UNCHANGED <<config, does, first>>

(* The two configs are equal, the sibling survives, the gateway is there.  *)
Compare ==
    /\ merge = "compare"
    /\ merge' = IF config = first /\ config \in Siblings \cap Gateways
                THEN "passed" ELSE "failed"
    /\ UNCHANGED <<config, does, first>>

(* A command of the subtest exits non-zero, the script among them.         *)
GiveUp ==
    /\ merge \in {"seed", "register", "again", "compare"}
    /\ merge' = "failed"
    /\ config' \in Configs \cup {Absent}
    /\ UNCHANGED <<does, first>>

Merge ==
    /\ BeginMerge \/ SeedConfig \/ Register \/ RegisterAgain \/ Compare \/ GiveUp
    /\ UNCHANGED <<script, want>>

(* A container starts again, now that the kit has passed: startup commands *)
(* replay on every start.                                                  *)
Restart ==
    /\ merge = "passed"
    /\ RunScript
    /\ UNCHANGED <<script, want, merge, first>>

Registering == InitMerge /\ [][Merge \/ Restart]_mcp
-----------------------------------------------------------------------------
(* Once mcp_merge has passed, the server the user added and the gateway    *)
(* are there after any number of starts, not only after the two it made.   *)
SiblingsSurvive == merge = "passed" => config \in Siblings \cap Gateways
=============================================================================
