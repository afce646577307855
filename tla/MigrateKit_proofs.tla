------------------------- MODULE MigrateKit_proofs -------------------------
(***************************************************************************)
(* Proofs about MigrateKit, for every set of words, bodies and documents   *)
(* and every bound: the author's text is never lost, the pair of files     *)
(* implements KitRewrite, and both the migrator's text and whatever the    *)
(* comparison accepts say what the backup says.                            *)
(***************************************************************************)
EXTENDS MigrateKit, SequenceTheorems, TLAPS

(* What a run goes on to back up and replace.                              *)
Migratable(t) == Decodes(t) /\ ~NoChanges(t) /\ Decodes(migrateSpec(t))

(* Where the files are at each step of a run.                              *)
FilesInv ==
    /\ bak = None => spec = authored /\ verdict = "none"
    /\ bak \in Texts => Migratable(bak)
    /\ spec = Torn => bak \in Texts /\ bak = authored
    /\ pc = "stat" /\ bak = None =>
          original = spec /\ spec \in Texts /\ Migratable(spec)
    /\ pc \in {"backup", "save", "replace", "write"} =>
          /\ original = authored /\ Migratable(original)
          /\ verdict = "none"
          /\ bak = CASE pc = "backup" -> None [] pc = "save" -> Torn [] OTHER -> original
          /\ spec = IF pc = "write" THEN Torn ELSE original

(* A match was found on the files as they still are.                       *)
VerdictInv ==
    verdict = "match" =>
        /\ spec \in Texts /\ bak \in Texts
        /\ verifyKitSpec(spec, migrateSpec(bak))

IInv == TypeOK /\ OriginalKept /\ FilesInv /\ VerdictInv
-----------------------------------------------------------------------------
LEMMA SplitArgv ==
    ASSUME NEW s \in Argv
    PROVE  FirstOf(s) \in Argv /\ RestOf(s) \in Argv /\ FirstOf(s) \o RestOf(s) = s
<1>1. CASE s = <<>>
  BY <1>1, ConcatEmptySeq DEF FirstOf, RestOf, Argv
<1>2. CASE s # <<>>
  <2>1. Len(s) \in Nat \ {0}
    BY <1>2, EmptySeq DEF Argv
  <2>2. s = <<s[1]>> \o SubSeq(s, 2, Len(s))
    BY <2>1, SubSeqFull, SubSeqRecursiveFirst DEF Argv
  <2>3. Tail(s) = SubSeq(s, 2, Len(s)) /\ Tail(s) \in Seq(Words) /\ Head(s) \in Words
    BY <1>2, TailIsSubSeq, HeadTailProperties DEF Argv
  <2>4. Head(s) = s[1]
    BY <1>2 DEF Argv
  <2>5. <<Head(s)>> \in Seq(Words)
    BY <2>3
  <2>. QED
    BY <1>2, <2>2, <2>3, <2>4, <2>5 DEF FirstOf, RestOf, Argv
<1>. QED BY <1>1, <1>2

LEMMA ArgvConcat ==
    /\ <<>> \in Argv
    /\ \A s, t \in Argv : s \o t \in Argv
    /\ \A s, t, u \in Argv : (s \o t) \o u = s \o (t \o u)
BY EmptySeq, ConcatProperties, ConcatAssociative DEF Argv

(* The parts of a loaded artifact are argument lists.                      *)
LEMMA LoadedArgv ==
    ASSUME NEW t \in Texts
    PROVE  /\ LoadArtifactFromBytes(t).binary \in Argv
           /\ LoadArtifactFromBytes(t).runOptions \in Argv
           /\ LoadArtifactFromBytes(t).interactiveOptions \in Argv
<1>1. t.run \in Argv /\ t.default \in Argv /\ t.interactive \in Argv \cup {None}
  BY DEF Texts
<1>2. FirstOf(t.run) \in Argv /\ RestOf(t.run) \in Argv
  BY <1>1, SplitArgv
<1>. QED
  BY <1>1, <1>2, ArgvConcat DEF LoadArtifactFromBytes

(* Loading folds the entrypoint's tail; the command line it folds is the   *)
(* one the text spells.                                                    *)
LEMMA LoadKeepsDefault ==
    ASSUME NEW t \in Texts
    PROVE  LoadArtifactFromBytes(t).binary \o LoadArtifactFromBytes(t).runOptions = DefaultArgv(t)
<1>1. t.run \in Argv /\ t.default \in Argv
  BY DEF Texts
<1>2. FirstOf(t.run) \in Argv /\ RestOf(t.run) \in Argv
      /\ FirstOf(t.run) \o RestOf(t.run) = t.run
  BY <1>1, SplitArgv
<1>3. FirstOf(t.run) \o (RestOf(t.run) \o t.default) = t.run \o t.default
  <2>1. (FirstOf(t.run) \o RestOf(t.run)) \o t.default
           = FirstOf(t.run) \o (RestOf(t.run) \o t.default)
    BY <1>1, <1>2, ArgvConcat, Zenon
  <2>. QED
    BY <2>1, <1>2, Zenon
<1>. QED
  BY <1>3 DEF LoadArtifactFromBytes, DefaultArgv

(* The projection of a loaded artifact is a text with the artifact's parts. *)
LEMMA ViewIsText ==
    ASSUME NEW t \in Texts
    PROVE  LET a == LoadArtifactFromBytes(t)
               view == NewV2View(a)
           IN /\ view \in Texts
              /\ view.entrypoint = "flat" /\ view.body = t.body
              /\ view.deprecated = FALSE /\ view.notImplemented = t.notImplemented
              /\ view.run = a.binary /\ view.default = a.runOptions
              /\ view.interactive = OrUnset(a.interactiveOptions)
<1> DEFINE a == LoadArtifactFromBytes(t)
<1>1. a.binary \in Argv /\ a.runOptions \in Argv /\ a.interactiveOptions \in Argv
  BY LoadedArgv
<1>2. a.body = t.body /\ a.notImplemented = t.notImplemented /\ a.schema = t.schema
  BY DEF LoadArtifactFromBytes
<1>3. t.body \in Bodies /\ t.notImplemented \in BOOLEAN /\ t.schema \in {"1", "2", "other"}
  BY DEF Texts
<1>4. OrUnset(a.interactiveOptions) \in Argv \cup {None}
  BY <1>1 DEF OrUnset
<1> HIDE DEF a
<1>5. NewV2View(a) \in Texts
  BY <1>1, <1>2, <1>3, <1>4 DEF NewV2View, Texts
<1>. QED
  BY <1>2, <1>5 DEF NewV2View, a

LEMMA MigratedParts ==
    ASSUME NEW t \in Texts
    PROVE  LET a == LoadArtifactFromBytes(t)
               new == migrateSpec(t)
           IN /\ new \in Texts
              /\ new.schema = "2" /\ new.entrypoint = "flat" /\ new.body = t.body
              /\ new.deprecated = FALSE /\ new.notImplemented = t.notImplemented
              /\ t.entrypoint = "mapping" =>
                    /\ new.run = t.run /\ new.default = t.default
                    /\ new.interactive = IF t.interactive = None THEN None
                                         ELSE OrUnset(t.interactive)
              /\ t.entrypoint # "mapping" =>
                    /\ new.run = a.binary /\ new.default = a.runOptions
                    /\ new.interactive = OrUnset(a.interactiveOptions)
<1> DEFINE a == LoadArtifactFromBytes(t)
           view == NewV2View(a)
           out == [view EXCEPT !.schema = "2"]
<1>1. /\ view \in Texts
      /\ view.entrypoint = "flat" /\ view.body = t.body
      /\ view.deprecated = FALSE /\ view.notImplemented = t.notImplemented
      /\ view.run = a.binary /\ view.default = a.runOptions
      /\ view.interactive = OrUnset(a.interactiveOptions)
  BY ViewIsText
<1>2. t.run \in Argv /\ t.default \in Argv /\ t.interactive \in Argv \cup {None}
  BY DEF Texts
<1>3. t # None
  BY MigrateKitAssumption
<1>4. /\ t.entrypoint = "mapping" => migrateSpec(t) = SetSandboxEntrypoint(out, t)
      /\ t.entrypoint # "mapping" => migrateSpec(t) = out
  BY <1>3, Zenon DEF migrateSpec, buildV2, v1Entrypoint
<1>. HIDE DEF view, a
<1>5. /\ out \in Texts
      /\ out.schema = "2" /\ out.entrypoint = "flat" /\ out.body = t.body
      /\ out.deprecated = FALSE /\ out.notImplemented = t.notImplemented
      /\ out.run = a.binary /\ out.default = a.runOptions
      /\ out.interactive = OrUnset(a.interactiveOptions)
  BY <1>1 DEF Texts
<1> DEFINE inter == IF t.interactive = None THEN None ELSE OrUnset(t.interactive)
<1>6. inter \in Argv \cup {None}
  BY <1>2 DEF OrUnset
<1>. HIDE DEF out, inter
<1> DEFINE new == [out EXCEPT !.block = TRUE, !.run = t.run, !.default = t.default,
                              !.interactive = inter]
<1>7. /\ new \in Texts
      /\ new.schema = "2" /\ new.entrypoint = "flat" /\ new.body = t.body
      /\ new.deprecated = FALSE /\ new.notImplemented = t.notImplemented
      /\ new.run = t.run /\ new.default = t.default /\ new.interactive = inter
  BY <1>2, <1>5, <1>6 DEF Texts
<1>8. SetSandboxEntrypoint(out, t) = new
  BY DEF SetSandboxEntrypoint, inter
<1>. HIDE DEF new
<1>. QED
  BY <1>4, <1>5, <1>7, <1>8, Zenon DEF inter, a

LEMMA MigratedIsText ==
    ASSUME NEW t \in Texts
    PROVE  LET a == LoadArtifactFromBytes(t)
               new == migrateSpec(t)
           IN /\ new \in Texts
              /\ new.schema = "2" /\ new.entrypoint = "flat" /\ new.body = t.body
              /\ t.entrypoint = "mapping" =>
                    /\ new.run = t.run /\ new.default = t.default
                    /\ new.interactive = IF t.interactive = None THEN None
                                         ELSE OrUnset(t.interactive)
              /\ t.entrypoint # "mapping" =>
                    /\ new.run = a.binary /\ new.default = a.runOptions
                    /\ new.interactive = OrUnset(a.interactiveOptions)
BY MigratedParts, Zenon

LEMMA MigratedFlags ==
    ASSUME NEW t \in Texts
    PROVE  /\ migrateSpec(t).schema = "2" /\ migrateSpec(t).entrypoint = "flat"
           /\ migrateSpec(t).deprecated = FALSE
           /\ migrateSpec(t).notImplemented = t.notImplemented
BY MigratedParts, Zenon

(* The attached command line of a version 2 text: the detached one when    *)
(* there is nothing behind the binary, else the entrypoint with the        *)
(* attached tail.                                                          *)
AttachedTail(t) == IF t.interactive = None THEN t.default ELSE t.interactive

LEMMA AttachedOfV2 ==
    ASSUME NEW t \in Texts, t.schema = "2"
    PROVE  AttachedArgv(t) = IF RestOf(t.run) \o AttachedTail(t) = <<>> THEN DefaultArgv(t)
                             ELSE t.run \o AttachedTail(t)
<1> DEFINE a == LoadArtifactFromBytes(t)
           x == AttachedTail(t)
<1>1. t.run \in Argv /\ x \in Argv
  BY DEF Texts, AttachedTail
<1>2. FirstOf(t.run) \in Argv /\ RestOf(t.run) \in Argv
      /\ FirstOf(t.run) \o RestOf(t.run) = t.run
  BY <1>1, SplitArgv
<1>3. a.binary = FirstOf(t.run) /\ a.interactiveOptions = RestOf(t.run) \o x
  BY DEF LoadArtifactFromBytes, AttachedTail
<1>4. a.binary \o a.runOptions = DefaultArgv(t)
  BY LoadKeepsDefault
<1>5. FirstOf(t.run) \o (RestOf(t.run) \o x) = t.run \o x
  <2>1. (FirstOf(t.run) \o RestOf(t.run)) \o x = FirstOf(t.run) \o (RestOf(t.run) \o x)
    BY <1>1, <1>2, ArgvConcat, Zenon
  <2>. QED
    BY <2>1, <1>2, Zenon
<1>6. CASE RestOf(t.run) \o x = <<>>
  BY <1>3, <1>4, <1>6, Zenon DEF AttachedArgv
<1>7. CASE RestOf(t.run) \o x # <<>>
  BY <1>3, <1>5, <1>7, Zenon DEF AttachedArgv
<1>. QED BY <1>6, <1>7, Zenon

LEMMA AttachedOfV1 ==
    ASSUME NEW t \in Texts, t.schema # "2"
    PROVE  AttachedArgv(t) = DefaultArgv(t)
<1>1. LoadArtifactFromBytes(t).interactiveOptions = <<>>
  BY DEF LoadArtifactFromBytes
<1>. QED
  BY <1>1, LoadKeepsDefault, Zenon DEF AttachedArgv

(* The migrator's text says what its source says.                          *)
LEMMA MigratedSaysTheSame ==
    ASSUME NEW t \in Texts, Decodes(t)
    PROVE  SaysTheSame(migrateSpec(t), t)
<1> DEFINE a == LoadArtifactFromBytes(t)
           new == migrateSpec(t)
<1>1. /\ new \in Texts
      /\ new.schema = "2" /\ new.body = t.body
      /\ t.entrypoint = "mapping" =>
            /\ new.run = t.run /\ new.default = t.default
            /\ new.interactive = IF t.interactive = None THEN None ELSE OrUnset(t.interactive)
      /\ t.entrypoint # "mapping" =>
            /\ new.run = a.binary /\ new.default = a.runOptions
            /\ new.interactive = OrUnset(a.interactiveOptions)
  BY MigratedIsText
<1>2. /\ a.binary \in Argv /\ a.runOptions \in Argv /\ a.interactiveOptions \in Argv
      /\ a.binary \o a.runOptions = DefaultArgv(t)
  BY LoadedArgv, LoadKeepsDefault
<1>3. t.run \in Argv /\ t.default \in Argv /\ t.interactive \in Argv \cup {None}
  BY DEF Texts
<1>4. None \notin Argv
  BY MigrateKitAssumption
<1>5. AttachedArgv(new) = IF RestOf(new.run) \o AttachedTail(new) = <<>> THEN DefaultArgv(new)
                          ELSE new.run \o AttachedTail(new)
  BY <1>1, AttachedOfV2
<1>. HIDE DEF new, a
<1>6. CASE t.entrypoint = "mapping"
  <2>1. t.schema # "2"
    BY <1>6 DEF Decodes
  <2>2. DefaultArgv(new) = DefaultArgv(t)
    BY <1>1, <1>6 DEF DefaultArgv
  <2>3. RestOf(t.run) \in Argv
    BY <1>3, SplitArgv
  <2>4. CASE t.interactive \in {None, <<>>}
    <3>1. AttachedTail(new) = t.default
      BY <1>1, <1>6, <2>4 DEF AttachedTail, OrUnset
    <3>2. AttachedArgv(new) = DefaultArgv(t)
      BY <1>1, <1>5, <1>6, <2>2, <3>1, Zenon DEF DefaultArgv
    <3>3. AttachedArgv(t) = DefaultArgv(t)
      BY <2>1, AttachedOfV1
    <3>4. t.interactive = None => SpelledArgv(t) = DefaultArgv(t)
      BY Zenon DEF SpelledArgv, DefaultArgv
    <3>5. t.interactive = <<>> => LosesTtyArgs(t)
      BY <1>4, <2>1, ArgvConcat DEF LosesTtyArgs
    <3>6. AttachedArgv(new) = IF t.schema = "2" \/ LosesTtyArgs(t) THEN AttachedArgv(t)
                              ELSE SpelledArgv(t)
      BY <2>4, <3>2, <3>3, <3>4, <3>5
    <3>. QED
      BY <1>1, <2>2, <3>6, Zenon DEF SaysTheSame, new
  <2>5. CASE t.interactive \notin {None, <<>>}
    <3>1. AttachedTail(new) = t.interactive
      BY <1>1, <1>4, <1>6, <2>5 DEF AttachedTail, OrUnset
    <3>2. RestOf(t.run) \o t.interactive # <<>>
      <4>1. t.interactive \in Argv /\ t.interactive # <<>>
        BY <1>3, <2>5
      <4>. QED
        BY <2>3, <4>1, ConcatEqualIffEmpty DEF Argv
    <3>3. AttachedArgv(new) = t.run \o t.interactive
      BY <1>1, <1>5, <1>6, <3>1, <3>2, Zenon
    <3>4. SpelledArgv(t) = t.run \o t.interactive /\ ~LosesTtyArgs(t)
      BY <1>6, <2>5 DEF SpelledArgv, LosesTtyArgs
    <3>. QED
      BY <1>1, <2>1, <2>2, <3>3, <3>4, Zenon DEF SaysTheSame, new
  <2>. QED BY <2>4, <2>5
<1>7. CASE t.entrypoint # "mapping"
  <2>1. DefaultArgv(new) = DefaultArgv(t)
    BY <1>1, <1>2, <1>7, Zenon DEF DefaultArgv
  <2> DEFINE x == IF a.interactiveOptions = <<>> THEN a.runOptions ELSE a.interactiveOptions
  <2>2. AttachedTail(new) = x /\ x \in Argv
    BY <1>1, <1>2, <1>4, <1>7 DEF AttachedTail, OrUnset
  <2>3. RestOf(a.binary) = <<>>
    <3>1. a.binary = FirstOf(t.run)
      BY DEF LoadArtifactFromBytes, a
    <3>2. FirstOf(t.run) # <<>> => Tail(FirstOf(t.run)) = <<>>
      BY <1>3 DEF FirstOf, Argv
    <3>. QED BY <3>1, <3>2, Zenon DEF RestOf
  <2>4. RestOf(new.run) \o AttachedTail(new) = x
    BY <1>1, <1>7, <2>2, <2>3, ConcatEmptySeq, Zenon DEF Argv
  <2>5. AttachedArgv(t) = a.binary \o x
    BY Zenon DEF AttachedArgv, a
  <2>6. AttachedArgv(new) = AttachedArgv(t)
    <3>1. CASE x = <<>>
      <4>1. x = a.runOptions
        BY <3>1
      <4>. QED
        BY <1>2, <1>5, <2>1, <2>4, <2>5, <3>1, <4>1, Zenon
    <3>2. CASE x # <<>>
      BY <1>1, <1>5, <1>7, <2>2, <2>4, <2>5, <3>2, Zenon
    <3>. QED BY <3>1, <3>2
  <2>7. t.schema = "2" \/ LosesTtyArgs(t) \/ SpelledArgv(t) = AttachedArgv(t)
    <3> SUFFICES ASSUME t.schema # "2", ~LosesTtyArgs(t) PROVE SpelledArgv(t) = AttachedArgv(t)
      OBVIOUS
    <3>1. t.interactive = None
      BY <1>7 DEF LosesTtyArgs
    <3>2. SpelledArgv(t) = DefaultArgv(t)
      BY <3>1, Zenon DEF SpelledArgv, DefaultArgv
    <3>. QED BY <3>2, AttachedOfV1
  <2>8. AttachedArgv(new) = IF t.schema = "2" \/ LosesTtyArgs(t) THEN AttachedArgv(t)
                            ELSE SpelledArgv(t)
    BY <2>6, <2>7, Zenon
  <2>. QED
    BY <1>1, <2>1, <2>8, Zenon DEF SaysTheSame, new
<1>. QED BY <1>6, <1>7

(* Texts that load alike say the same.                                     *)
LEMMA LoadedAlikeSayTheSame ==
    ASSUME NEW t \in Texts, NEW u \in Texts, NEW old,
           LoadArtifactFromBytes(t) = LoadArtifactFromBytes(u), SaysTheSame(u, old)
    PROVE  SaysTheSame(t, old)
<1>1. t.body = u.body
  BY DEF LoadArtifactFromBytes
<1>2. AttachedArgv(t) = AttachedArgv(u)
  BY Zenon DEF AttachedArgv
<1>3. DefaultArgv(t) = DefaultArgv(u)
  BY LoadKeepsDefault, Zenon
<1>. QED BY <1>1, <1>2, <1>3, Zenon DEF SaysTheSame
-----------------------------------------------------------------------------
LEMMA InitIInv == Init => IInv
BY MigrateKitAssumption
DEF Init, IInv, TypeOK, OriginalKept, FilesInv, VerdictInv

LEMMA EditsAreTexts ==
    ASSUME NEW t \in Texts, NEW u \in Edits(t)
    PROVE  u \in Texts
<1>1. t.run \in Argv /\ t.default \in Argv
  BY DEF Texts
<1>2. t.run \o t.default \in Argv /\ <<>> \in Argv
  BY <1>1, ArgvConcat
<1>3. [t EXCEPT !.comments = TRUE] \in Texts
  BY DEF Texts
<1>4. \A r, d \in Argv : [t EXCEPT !.run = r, !.default = d] \in Texts
  BY DEF Texts
<1>5. \A i \in Argv \cup {None} : [t EXCEPT !.interactive = i] \in Texts
  BY DEF Texts
<1>6. \A b \in Bodies : [t EXCEPT !.body = b] \in Texts
  BY DEF Texts
<1>. QED
  BY <1>2, <1>3, <1>4, <1>5, <1>6, Zenon DEF Edits

LEMMA NextIInv == IInv /\ [Next]_vars => IInv'
<1> SUFFICES ASSUME IInv, [Next]_vars PROVE IInv'
  OBVIOUS
<1>. USE MigrateKitAssumption DEF IInv, TypeOK, OriginalKept, FilesInv, VerdictInv
<1>1. CASE ReadSpec
  BY <1>1 DEF ReadSpec, Return, author, Migratable
<1>2. CASE ReadTornSpec
  BY <1>2 DEF ReadTornSpec, Return, author
<1>3. CASE StatBackup
  BY <1>3 DEF StatBackup, Return, author
<1>4. CASE CreateBackup
  BY <1>4 DEF CreateBackup, Return, Fault, author
<1>5. CASE WriteBackup
  BY <1>5 DEF WriteBackup, Return, Fault, author
<1>6. CASE TruncateSpec
  BY <1>6 DEF TruncateSpec, Return, Fault, author
<1>7. CASE WriteSpec
  <2>1. original \in Texts /\ migrateSpec(original) \in Texts
    BY <1>7, MigratedIsText DEF WriteSpec
  <2>. QED
    BY <1>7, <2>1 DEF WriteSpec, Return, Fault, author
<1>8. CASE Kill
  BY <1>8 DEF Kill, Return, Fault, author
<1>9. CASE EditSpec
  <2>1. spec' \in Texts
    BY <1>9, EditsAreTexts DEF EditSpec
  <2>. QED
    BY <1>9, <2>1 DEF EditSpec
<1>10. CASE Verify
  BY <1>10 DEF Verify
<1>11. CASE RemoveBackup
  BY <1>11 DEF RemoveBackup
<1>12. CASE PutBack
  BY <1>12 DEF PutBack
<1>13. CASE UNCHANGED vars
  BY <1>13 DEF vars
<1>. QED
  BY <1>1, <1>2, <1>3, <1>4, <1>5, <1>6, <1>7, <1>8, <1>9, <1>10, <1>11, <1>12, <1>13
  DEF Next, migrate, Author

LEMMA Invariance == Migrating => []IInv
BY InitIInv, NextIInv, PTL DEF Migrating

(* Every file holds a text, nothing or what a torn write left.             *)
THEOREM MigrateTypeCorrect == Migrating => []TypeOK
BY Invariance, PTL DEF IInv

(* Whatever is killed or fails, and however often the migrator runs again, *)
(* what the author wrote is whole in one of the two files.                 *)
THEOREM AuthorsTextIsKept == Migrating => []OriginalKept
BY Invariance, PTL DEF IInv

(* A backup may be given up on a match: the spec file, edited by hand or   *)
(* not, gives the command lines and the rest of what the backup gives.     *)
THEOREM MatchIsSound == Migrating => []MatchSaysTheSame
<1>1. IInv => MatchSaysTheSame
  <2> SUFFICES ASSUME IInv, verdict = "match" PROVE SaysTheSame(spec, bak)
    BY DEF MatchSaysTheSame
  <2>1. spec \in Texts /\ bak \in Texts /\ verifyKitSpec(spec, migrateSpec(bak)) /\ Decodes(bak)
    BY DEF IInv, VerdictInv, FilesInv, Migratable
  <2>2. LoadArtifactFromBytes(spec) = LoadArtifactFromBytes(migrateSpec(bak))
    BY <2>1 DEF verifyKitSpec
  <2>3. migrateSpec(bak) \in Texts /\ SaysTheSame(migrateSpec(bak), bak)
    BY <2>1, MigratedIsText, MigratedSaysTheSame
  <2>. QED
    BY <2>1, <2>2, <2>3, LoadedAlikeSayTheSame
<1>. QED
  BY <1>1, Invariance, PTL

(* What the migrator writes gives the detached command line and the rest   *)
(* of what it backed up, for every spelling of the entrypoint.  Attached,  *)
(* it gives what a version 2 text was run with, and of any other text the  *)
(* command line its author spelled, except for an empty ttyArgs list and   *)
(* for ttyArgs in a YAML alias, where it gives the detached one.           *)
THEOREM MigrationIsFaithful == Migrating => MigrationSaysTheSame
<1>1. IInv /\ [Next]_vars =>
        [spec = Torn /\ spec' # Torn /\ pc = "write" => SaysTheSame(spec', bak)]_vars
  <2> SUFFICES ASSUME IInv, Next, spec = Torn, spec' # Torn, pc = "write"
               PROVE  SaysTheSame(spec', bak)
    OBVIOUS
  <2>1. WriteSpec
    BY DEF Next, migrate, Author, ReadSpec, ReadTornSpec, StatBackup, CreateBackup, WriteBackup,
           TruncateSpec, Kill, EditSpec, Verify, RemoveBackup, PutBack
  <2>2. spec' = migrateSpec(original)
    BY <2>1 DEF WriteSpec
  <2>3. bak = original /\ original \in Texts /\ Decodes(original)
    BY DEF IInv, TypeOK, FilesInv, Migratable
  <2>. QED
    BY <2>2, <2>3, MigratedSaysTheSame
<1>. QED
  BY <1>1, Invariance, PTL DEF Migrating, MigrationSaysTheSame

(* What replaces the file decodes, whatever version was read, and the next *)
(* run leaves it alone exactly if it does not declare what version 2 warns *)
(* of as well.                                                             *)
THEOREM MigrationSettles == Migrating => MigratedSettles
<1>1. IInv /\ [Next]_vars =>
        [outcome # "migrated" /\ outcome' = "migrated"
            => Decodes(spec') /\ (NoChanges(spec') <=> ~bak.notImplemented)]_vars
  <2> SUFFICES ASSUME IInv, Next, outcome # "migrated", outcome' = "migrated"
               PROVE  Decodes(spec') /\ (NoChanges(spec') <=> ~bak.notImplemented)
    OBVIOUS
  <2>1. WriteSpec /\ spec' = migrateSpec(original)
    BY DEF Next, migrate, Author, ReadSpec, ReadTornSpec, StatBackup, CreateBackup, WriteBackup,
           TruncateSpec, WriteSpec, Kill, EditSpec, Verify, RemoveBackup, PutBack, Return
  <2>2. bak = original /\ original \in Texts /\ Migratable(original)
    BY <2>1 DEF IInv, TypeOK, FilesInv, WriteSpec
  <2>3. Decodes(spec')
    BY <2>1, <2>2, Zenon DEF Migratable
  <2>4. /\ spec'.schema = "2" /\ spec'.deprecated = FALSE
        /\ spec'.notImplemented = bak.notImplemented
    BY <2>1, <2>2, MigratedFlags, Zenon
  <2>5. bak.notImplemented \in BOOLEAN
    BY <2>2 DEF Texts
  <2>. QED
    BY <2>3, <2>4, <2>5 DEF NoChanges, LoadArtifactFromBytes
<1>. QED
  BY <1>1, Invariance, PTL DEF Migrating, MigratedSettles

(* Killed or failing at any write, the pair of files is the pair that is   *)
(* written in single steps.                                                *)
THEOREM FilesImplementRewrite == Migrating => ImplementsRewrite
<1> DEFINE current == IF spec = Torn THEN bak ELSE spec
           saved == IF bak = Torn THEN None ELSE bak
<1>1. Init => Rewrite!Init
  BY MigrateKitAssumption DEF Init, Rewrite!Init
<1>2. IInv /\ IInv' /\ [Next]_vars => [Rewrite!Next]_<<current, saved, authored>>
  <2> SUFFICES ASSUME IInv, IInv', [Next]_vars
               PROVE  Rewrite!Next \/ UNCHANGED <<current, saved, authored>>
    OBVIOUS
  <2>. USE MigrateKitAssumption DEF IInv, TypeOK, FilesInv
  <2>1. CASE ReadSpec \/ ReadTornSpec \/ StatBackup \/ Kill
    <3>1. UNCHANGED <<spec, bak, authored>>
      BY <2>1 DEF ReadSpec, ReadTornSpec, StatBackup, Kill, author
    <3>. QED BY <3>1
  <2>2. CASE CreateBackup
    BY <2>2 DEF CreateBackup, author
  <2>3. CASE WriteBackup
    <3>1. CASE bak' = original
      <4>1. saved = None /\ saved' = current /\ UNCHANGED <<current, authored>>
        BY <2>3, <3>1 DEF WriteBackup, author
      <4>. QED BY <4>1 DEF Rewrite!Next, Rewrite!Save
    <3>2. CASE UNCHANGED bak
      BY <2>3, <3>2 DEF WriteBackup, author
    <3>. QED BY <2>3, <3>1, <3>2 DEF WriteBackup
  <2>4. CASE TruncateSpec
    BY <2>4 DEF TruncateSpec, author
  <2>5. CASE WriteSpec
    <3>1. CASE spec' = migrateSpec(original)
      <4>1. spec' \in Texts
        BY <2>5, <3>1, MigratedIsText DEF WriteSpec
      <4>2. /\ saved = current /\ authored = current
            /\ current' \in Texts /\ UNCHANGED <<saved, authored>>
        BY <2>5, <4>1 DEF WriteSpec, author
      <4>. QED BY <4>2 DEF Rewrite!Next, Rewrite!Replace
    <3>2. CASE UNCHANGED spec
      BY <2>5, <3>2 DEF WriteSpec, author
    <3>. QED BY <2>5, <3>1, <3>2 DEF WriteSpec
  <2>6. CASE EditSpec
    <3>1. spec' \in Texts
      BY <2>6, EditsAreTexts DEF EditSpec
    <3>2. /\ current' \in Texts
          /\ authored' = IF current = authored THEN current' ELSE authored
          /\ UNCHANGED saved
      BY <2>6, <3>1 DEF EditSpec
    <3>. QED BY <3>2 DEF Rewrite!Next, Rewrite!Edit
  <2>7. CASE Verify
    BY <2>7 DEF Verify
  <2>8. CASE RemoveBackup
    <3>1. CASE bak = Torn
      BY <2>8, <3>1 DEF RemoveBackup, OriginalKept
    <3>2. CASE bak # Torn
      <4>1. saved # None /\ saved' = None /\ authored' = current /\ UNCHANGED current
        BY <2>8, <3>2 DEF RemoveBackup
      <4>. QED BY <4>1 DEF Rewrite!Next, Rewrite!Accept
    <3>. QED BY <3>1, <3>2
  <2>9. CASE PutBack
    <3>1. saved # None /\ saved' = None /\ authored' = saved /\ current' = saved
      BY <2>9 DEF PutBack
    <3>. QED BY <3>1 DEF Rewrite!Next, Rewrite!GoBack
  <2>10. CASE UNCHANGED vars
    BY <2>10 DEF vars
  <2>. QED
    BY <2>1, <2>2, <2>3, <2>4, <2>5, <2>6, <2>7, <2>8, <2>9, <2>10
    DEF Next, migrate, Author
<1>. QED
  BY <1>1, <1>2, Invariance, PTL DEF Migrating, ImplementsRewrite, Rewrite!Rewriting
=============================================================================
