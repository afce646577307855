------------------------------ MODULE KitSpec ------------------------------
(***************************************************************************)
(* The text of a spec.yaml as the migrator sees it: the version it         *)
(* declares, the entrypoint in its grammar's own spelling, and whether the *)
(* loader warns of it.  Only a declared "2" is read in the grammar of      *)
(* version 2; "1", no version and any other are read in that of version 1. *)
(* run, default and interactive are the entrypoint's run/args/ttyArgs of   *)
(* version 1 and entrypoint/command.default/command.interactive of         *)
(* version 2.  All other fields are one value, the body.                   *)
(***************************************************************************)
EXTENDS Sequences

CONSTANTS
    Words,    \* arguments of a command line
    Bodies,   \* the values of all other fields
    Valid,    \* the bodies ValidateArtifact accepts
    Bare,     \* root sandboxes without image, build or resources
    V1Only,   \* bodies only version 1 decodes, such as a scheme without its username
    None

Argv == Seq(Words)

Texts == [schema : {"1", "2", "other"},   \* other: none, or one that is not supported
          block : BOOLEAN,            \* a sandbox: block, or a kind that needs none
          entrypoint : {"mapping", "alias", "flat", "none"},
          run : Argv, default : Argv, interactive : Argv \cup {None},
          deprecated : BOOLEAN,       \* v1 spellings that warn
          notImplemented : BOOLEAN,   \* mixins or sandbox.build: warns in both
          comments : BOOLEAN,
          body : Bodies]

(* LoadArtifactFromBytes does not fail; whether the version is one of the  *)
(* supported is for ValidateArtifact.                                      *)
Decodes(t) ==
    /\ t.block
    /\ t.schema = "2" => t.entrypoint # "mapping" /\ t.body \notin V1Only
    /\ t.schema # "2" => t.entrypoint # "flat"

FirstOf(s) == IF s = <<>> THEN <<>> ELSE <<Head(s)>>
RestOf(s) == IF s = <<>> THEN <<>> ELSE Tail(s)
OrUnset(s) == IF s = <<>> THEN None ELSE s

(* The artifact: version 1 forgets ttyArgs; version 2 folds the tail of    *)
(* the entrypoint into the arguments of both modes.                        *)
LoadArtifactFromBytes(t) ==
    [schema             |-> t.schema,
     binary             |-> FirstOf(t.run),
     runOptions         |-> RestOf(t.run) \o t.default,
     interactiveOptions |->
        IF t.schema # "2" THEN <<>>
        ELSE RestOf(t.run) \o (IF t.interactive = None THEN t.default ELSE t.interactive),
     warnings           |-> t.deprecated \/ t.notImplemented,
     notImplemented     |-> t.notImplemented,
     body               |-> t.body]

(* NewV2View, encoded: a field that is empty is not there, and neither is  *)
(* the sandbox: block when nothing is in it.                               *)
NewV2View(a) ==
    [schema |-> a.schema,
     block |-> \/ a.body \notin Bare
               \/ <<a.binary, a.runOptions, a.interactiveOptions>> # <<<<>>, <<>>, <<>>>>,
     entrypoint |-> "flat", run |-> a.binary,
     default |-> a.runOptions, interactive |-> OrUnset(a.interactiveOptions),
     deprecated |-> FALSE, notImplemented |-> a.notImplemented,
     comments |-> FALSE, body |-> a.body]

SetSandboxEntrypoint(view, entry) ==
    [view EXCEPT !.block = TRUE, !.run = entry.run, !.default = entry.default,
                 !.interactive = IF entry.interactive = None THEN None
                                 ELSE OrUnset(entry.interactive)]

v1EntrypointNever(src) == None    \* mutant: the raw entrypoint is not re-read

(* The author's own entrypoint, when it is written as a mapping.           *)
v1Entrypoint(src) == IF src.entrypoint = "mapping" THEN src ELSE None

buildV2(a, src) ==
    LET out == [NewV2View(a) EXCEPT !.schema = "2"]
    IN IF v1Entrypoint(src) = None THEN out ELSE SetSandboxEntrypoint(out, v1Entrypoint(src))

NoChanges(t) ==
    /\ Decodes(t)
    /\ t.schema = "2" /\ ~LoadArtifactFromBytes(t).warnings

migrateSpec(t) == buildV2(LoadArtifactFromBytes(t), t)
-----------------------------------------------------------------------------
(* OpenFromDirectory, with any warning an error.                           *)
Loads(t) ==
    /\ Decodes(t) /\ t.schema \in {"1", "2"} /\ t.body \in Valid
    /\ ~LoadArtifactFromBytes(t).warnings

verifyBodies(t, u) ==    \* mutant: the entrypoint is left out of the comparison
    Loads(t) /\ Loads(u) /\ t.body = u.body

(* verify-kit-spec with two directories: both load, are valid and give no  *)
(* warning, and what they decode to is equal.                              *)
verifyKitSpec(t, u) ==
    Loads(t) /\ Loads(u) /\ LoadArtifactFromBytes(t) = LoadArtifactFromBytes(u)
-----------------------------------------------------------------------------
(* What a text says the agent is started with: detached, and attached to a *)
(* terminal, where callers fall back to the detached arguments when the    *)
(* loaded ones are empty.                                                  *)
DefaultArgv(t) == t.run \o t.default
AttachedArgv(t) ==
    LET a == LoadArtifactFromBytes(t)
    IN a.binary \o (IF a.interactiveOptions = <<>> THEN a.runOptions ELSE a.interactiveOptions)

(* The attached command line as its author spelled it.                     *)
SpelledArgv(t) == t.run \o (IF t.interactive = None THEN t.default ELSE t.interactive)

(* The spellings of ttyArgs a migration loses: an empty list, and one in   *)
(* an entrypoint that is a YAML alias.                                     *)
LosesTtyArgs(t) ==
    /\ t.schema # "2" /\ t.interactive # None
    /\ t.interactive = <<>> \/ t.entrypoint # "mapping"

(* new says what old says: all else, the detached command line, and the    *)
(* attached one, which is what old was run with if it is a version 2 text  *)
(* or its ttyArgs are lost, and else what its author spelled, though       *)
(* version 1 never ran it.                                                 *)
SaysTheSame(new, old) ==
    /\ new.body = old.body
    /\ DefaultArgv(new) = DefaultArgv(old)
    /\ AttachedArgv(new) = IF old.schema = "2" \/ LosesTtyArgs(old) THEN AttachedArgv(old)
                           ELSE SpelledArgv(old)
=============================================================================
