---------------------------- MODULE MigrateKit -----------------------------
(***************************************************************************)
(* migrate of scripts/migrate-v1-to-v2.go on one kit directory, run as     *)
(* often as the author likes, with the author's own steps between the      *)
(* runs: comments restored by hand, the result compared by verify-kit-spec *)
(* with a migration of the backup made afresh, the backup removed, or put  *)
(* back.  A run may be killed between any two steps; os.WriteFile empties  *)
(* the file, then writes it, and may fail at either.                       *)
(***************************************************************************)
EXTENDS KitSpec, Naturals

CONSTANTS
    Documents,   \* the texts a kit may have
    Torn,        \* a file emptied and not yet written again
    MaxFaults,   \* bound on kills and failed writes
    MaxEdits     \* bound on the author's edits

ASSUME MigrateKitAssumption ==
    /\ Documents \subseteq Texts /\ Valid \subseteq Bodies \ Bare
    /\ Torn \notin Texts /\ None \notin Texts /\ None # Torn /\ None \notin Argv
    /\ MaxFaults \in Nat /\ MaxEdits \in Nat

VARIABLES
    spec,      \* spec.yaml
    bak,       \* spec.yaml.bak
    pc,
    original,  \* what the run read
    outcome,   \* of the last run
    verdict,   \* of verify-kit-spec, on the files as they are
    authored,  \* the text the author stands by
    faults, edits

vars == <<spec, bak, pc, original, outcome, verdict, authored, faults, edits>>
author == <<verdict, authored, edits>>

TypeOK ==
    /\ spec \in Texts \cup {Torn}
    /\ bak \in Texts \cup {Torn, None}
    /\ pc \in {"idle", "stat", "backup", "save", "replace", "write"}
    /\ original \in Texts \cup {None}
    /\ pc \in {"backup", "save", "replace", "write"} => original \in Texts
    /\ outcome \in {"none", "migrated", "unchanged", "error", "killed"}
    /\ verdict \in {"none", "match", "mismatch"}
    /\ authored \in Texts
    /\ faults \in 0 .. MaxFaults /\ edits \in 0 .. MaxEdits

Init ==
    /\ spec \in Documents /\ authored = spec
    /\ bak = None /\ pc = "idle" /\ original = None
    /\ outcome = "none" /\ verdict = "none" /\ faults = 0 /\ edits = 0
-----------------------------------------------------------------------------
Fault == faults < MaxFaults /\ faults' = faults + 1

Return(result) == pc' = "idle" /\ original' = None /\ outcome' = result

ReadSpecUnparsed ==    \* mutant: what is to be written is not decoded first
    /\ pc = "idle" /\ spec # Torn
    /\ \/ ~Decodes(spec) /\ Return("error")
       \/ NoChanges(spec) /\ Return("unchanged")
       \/ /\ Decodes(spec) /\ ~NoChanges(spec)
          /\ pc' = "stat" /\ original' = spec /\ UNCHANGED outcome
    /\ UNCHANGED <<spec, bak, author, faults>>

(* findSpec, the read, and migrateSpec, which writes nothing and refuses   *)
(* what it would write if that does not decode.                            *)
ReadSpec ==
    /\ pc = "idle" /\ spec # Torn
    /\ \/ ~Decodes(spec) /\ Return("error")
       \/ NoChanges(spec) /\ Return("unchanged")
       \/ /\ Decodes(spec) /\ ~NoChanges(spec)
          /\ \/ ~Decodes(migrateSpec(spec)) /\ Return("error")
             \/ /\ Decodes(migrateSpec(spec))
                /\ pc' = "stat" /\ original' = spec /\ UNCHANGED outcome
    /\ UNCHANGED <<spec, bak, author, faults>>

(* What is left of a torn file may not decode, look clean or look like v1. *)
ReadTornSpec ==
    /\ pc = "idle" /\ spec = Torn
    /\ \/ Return("error")
       \/ Return("unchanged")
       \/ pc' = "stat" /\ UNCHANGED <<original, outcome>>
    /\ UNCHANGED <<spec, bak, author, faults>>

StatBackupNot ==    \* mutant: an existing backup is not looked for
    /\ pc = "stat"
    /\ pc' = "backup" /\ UNCHANGED <<original, outcome>>
    /\ UNCHANGED <<spec, bak, author, faults>>

(* A backup that exists is never written again.                            *)
StatBackup ==
    /\ pc = "stat"
    /\ \/ bak # None /\ Return("error")
       \/ bak = None /\ pc' = "backup" /\ UNCHANGED <<original, outcome>>
    /\ UNCHANGED <<spec, bak, author, faults>>

(* os.WriteFile of the backup.                                             *)
CreateBackup ==
    /\ pc = "backup"
    /\ \/ /\ bak' = Torn /\ pc' = "save" /\ UNCHANGED <<original, outcome, faults>>
       \/ Fault /\ Return("error") /\ UNCHANGED bak
    /\ UNCHANGED <<spec, author>>

WriteBackupMigrated ==    \* mutant: the backup is written from the new text
    /\ pc = "save"
    /\ \/ bak' = migrateSpec(original) /\ pc' = "replace" /\ UNCHANGED <<original, outcome, faults>>
       \/ Fault /\ Return("error") /\ UNCHANGED bak
    /\ UNCHANGED <<spec, author>>

WriteBackup ==
    /\ pc = "save"
    /\ \/ /\ bak' = original /\ pc' = "replace" /\ UNCHANGED <<original, outcome, faults>>
       \/ Fault /\ Return("error") /\ UNCHANGED bak
    /\ UNCHANGED <<spec, author>>

(* os.WriteFile of the spec.                                               *)
TruncateSpec ==
    /\ pc = "replace"
    /\ \/ /\ spec' = Torn /\ pc' = "write" /\ UNCHANGED <<original, outcome, faults>>
       \/ Fault /\ Return("error") /\ UNCHANGED spec
    /\ UNCHANGED <<bak, author>>

WriteSpec ==
    /\ pc = "write"
    /\ \/ spec' = migrateSpec(original) /\ Return("migrated") /\ UNCHANGED faults
       \/ Fault /\ Return("error") /\ UNCHANGED spec
    /\ UNCHANGED <<bak, author>>

Kill ==
    /\ pc # "idle" /\ Fault
    /\ Return("killed")
    /\ UNCHANGED <<spec, bak, author>>

migrate ==
    \/ ReadSpec \/ ReadTornSpec \/ StatBackup \/ CreateBackup
    \/ WriteBackup \/ TruncateSpec \/ WriteSpec \/ Kill
-----------------------------------------------------------------------------
(* The author, between runs.  Restoring comments may go wrong.             *)
Edits(t) ==
    {[t EXCEPT !.comments = TRUE],
     [t EXCEPT !.run = t.run \o t.default, !.default = <<>>],
     [t EXCEPT !.interactive = None], [t EXCEPT !.interactive = <<>>]}
    \cup {[t EXCEPT !.body = b] : b \in Bodies}

EditSpec ==
    /\ pc = "idle" /\ spec # Torn /\ edits < MaxEdits
    /\ spec' \in Edits(spec) \ {spec}
    /\ authored' = IF spec = authored THEN spec' ELSE authored
    /\ edits' = edits + 1 /\ verdict' = "none"
    /\ UNCHANGED <<bak, pc, original, outcome, faults>>

(* verify-kit-spec on the kit and a migration of the backup made afresh.   *)
Verify ==
    /\ pc = "idle" /\ spec # Torn /\ bak \in Texts /\ verdict = "none"
    /\ verdict' = IF verifyKitSpec(spec, migrateSpec(bak)) THEN "match" ELSE "mismatch"
    /\ UNCHANGED <<spec, bak, pc, original, outcome, authored, faults, edits>>

(* "Clean the previous backup": once the new text was verified, or when    *)
(* nothing has replaced the old one.                                       *)
RemoveBackup ==
    /\ pc = "idle" /\ bak # None /\ spec # Torn
    /\ verdict = "match" \/ spec = authored
    /\ bak' = None /\ authored' = spec /\ verdict' = "none"
    /\ UNCHANGED <<spec, pc, original, outcome, faults, edits>>

PutBack ==
    /\ pc = "idle" /\ bak \in Texts
    /\ spec' = bak /\ authored' = bak /\ bak' = None /\ verdict' = "none"
    /\ UNCHANGED <<pc, original, outcome, faults, edits>>

Author == EditSpec \/ Verify \/ RemoveBackup \/ PutBack

Next == migrate \/ Author
Migrating == Init /\ [][Next]_vars
-----------------------------------------------------------------------------
(* Whatever was killed or failed, and however often the migrator ran       *)
(* again, the author's text is whole in the spec file or in the backup.    *)
OriginalKept == authored \in {spec, bak}

(* The pair of files implements one that is written in single steps: a     *)
(* torn spec counts as its backup, a torn backup as none.                  *)
Rewrite == INSTANCE KitRewrite WITH
    current <- IF spec = Torn THEN bak ELSE spec,
    saved   <- IF bak = Torn THEN None ELSE bak
ImplementsRewrite == Rewrite!Rewriting

(* A text the migrator has just written says what the backup says: the     *)
(* same command line detached, and attached, of a version 2 text the one   *)
(* it was run with, of any other the one the author spelled, whether it    *)
(* was run with it or not.  The exceptions are the two of LosesTtyArgs,    *)
(* where the new text says what the old one was run with.                  *)
MigrationSaysTheSame ==
    [][spec = Torn /\ spec' # Torn /\ pc = "write" => SaysTheSame(spec', bak)]_vars

(* A backup the author gives up on a match was superseded by a text that   *)
(* says the same, whatever was edited by hand in between.                  *)
MatchSaysTheSame == verdict = "match" => SaysTheSame(spec, bak)

(* A run that replaces the file leaves one that decodes, and that the next *)
(* run leaves alone exactly if it does not declare what version 2 warns of *)
(* as well: a spec with mixins or sandbox.build is rewritten for ever.     *)
MigratedSettles ==
    [][outcome # "migrated" /\ outcome' = "migrated"
          => Decodes(spec') /\ (NoChanges(spec') <=> ~bak.notImplemented)]_vars
=============================================================================
