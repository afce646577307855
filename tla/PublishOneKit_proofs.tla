------------------------ MODULE PublishOneKit_proofs ------------------------
(***************************************************************************)
(* Proofs about the publishing script, PublishArtifact, and then about the *)
(* job graph that runs it, for any set of runs, tags, images, digests and  *)
(* commits and any number of re-runs.                                      *)
(***************************************************************************)
EXTENDS PublishOneKit, TLAPS

-----------------------------------------------------------------------------
(* The script.                                                             *)

(* One conjunct of what follows is not a type: the signature needs a       *)
(* digest to attach to.                                                    *)
SignHasDigest == \A r \in Runs : pc[r] = "sign" => mine[r] \in Digests

LEMMA TypeInit == Init => TypeOK /\ SignHasDigest
BY PublishAssumption DEF Init, TypeOK, SignHasDigest, Steps

LEMMA TypeStep == TypeOK /\ SignHasDigest /\ [Next]_vars => TypeOK' /\ SignHasDigest'
<1> USE PublishAssumption
<1> SUFFICES ASSUME TypeOK, SignHasDigest, [Next]_vars
             PROVE  TypeOK' /\ SignHasDigest'
  OBVIOUS
<1> USE DEF TypeOK, SignHasDigest, Steps, Goto, registry, script, history
<1>1. ASSUME NEW r \in Runs, Start(r) PROVE TypeOK' /\ SignHasDigest'
  BY <1>1 DEF Start
<1>2. ASSUME NEW r \in Runs, Validate(r) PROVE TypeOK' /\ SignHasDigest'
  BY <1>2 DEF Validate
<1>3. ASSUME NEW r \in Runs, Probe(r) PROVE TypeOK' /\ SignHasDigest'
  <2>1. TypeOK'
    <3>1. tags[RunTag[r]] \in Digests \cup {None}
      OBVIOUS
    <3>2. digest' \in [Runs -> Digests \cup {None}]
      BY <1>3, <3>1 DEF Probe
    <3>3. reused' \in [Runs -> BOOLEAN]
      BY <1>3, Zenon DEF Probe
    <3> QED BY <1>3, <3>2, <3>3 DEF Probe
  <2>2. SignHasDigest'
    BY <1>3 DEF Probe
  <2> QED BY <2>1, <2>2
<1>4. ASSUME NEW r \in Runs, PushManifest(r) PROVE TypeOK' /\ SignHasDigest'
  BY <1>4 DEF PushManifest, Packed
<1>5. ASSUME NEW r \in Runs, Sign(r) PROVE TypeOK' /\ SignHasDigest'
  BY <1>5 DEF Sign
<1>6. ASSUME NEW r \in Runs, ReadBack(r) PROVE TypeOK' /\ SignHasDigest'
  BY <1>6 DEF ReadBack
<1>7. ASSUME NEW r \in Runs, Retag(r) PROVE TypeOK' /\ SignHasDigest'
  BY <1>7 DEF Retag
<1>8. ASSUME NEW r \in Runs, Fail(r) PROVE TypeOK' /\ SignHasDigest'
  BY <1>8 DEF Fail, Running
<1>9. CASE UNCHANGED vars
  BY <1>9 DEF vars
<1> QED BY <1>1, <1>2, <1>3, <1>4, <1>5, <1>6, <1>7, <1>8, <1>9 DEF Next, Step

(* PublishArtifact: every variable keeps its type.                         *)
THEOREM TypeCorrect == Spec => [](TypeOK /\ SignHasDigest)
BY TypeInit, TypeStep, PTL DEF Spec
-----------------------------------------------------------------------------
(* What makes TagNamesItsCommit and LatestIsContinuous inductive: a script *)
(* past validation is no dry run of a broken kit, and the digest a Mover   *)
(* is about to put on the rolling tag packs the commit of its own tag,     *)
(* whichever run pushed it.                                                *)
ScriptInv ==
    \A r \in Runs :
        /\ pc[r] \in {"probe", "push", "sign", "readback", "retag"} =>
              r \notin DryRuns /\ RunCommit[r] \in Valid
        /\ pc[r] \in {"sign", "readback", "retag"} => tags[RunTag[r]] # None
        /\ pc[r] = "retag" => /\ r \in Movers
                              /\ digest[r] \in Digests
                              /\ manifest[digest[r]] = RunCommit[r]

TagInv == /\ TypeOK
          /\ ScriptInv
          /\ TagNamesItsCommit
          /\ LatestIsContinuous

(* A Mover's tag, once published, packs the Mover's own commit: only runs  *)
(* of that commit share the tag.                                           *)
LEMMA MoverTag ==
    ASSUME TypeOK, TagNamesItsCommit, NEW r \in Movers, tags[RunTag[r]] # None
    PROVE  /\ tags[RunTag[r]] \in Digests
           /\ manifest[tags[RunTag[r]]] = RunCommit[r]
<1>1. RunTag[r] \in Tags
  BY PublishAssumption
<1>2. tags[RunTag[r]] \in Digests
  BY <1>1 DEF TypeOK
<1>3. PICK s \in Runs : RunTag[s] = RunTag[r]
                        /\ manifest[tags[RunTag[r]]] = RunCommit[s]
  BY <1>1 DEF TagNamesItsCommit
<1>4. RunCommit[s] = RunCommit[r]
  BY <1>3, PublishAssumption
<1> QED BY <1>2, <1>3, <1>4

(* A push relabels no stored manifest, and no published tag goes away.     *)
LEMMA PushKeeps ==
    ASSUME TypeOK, NEW r \in Runs, PushManifest(r)
    PROVE  /\ \A d \in Digests : manifest[d] # None => manifest'[d] = manifest[d]
           /\ \A t \in Tags : tags[t] # None => tags'[t] # None
           /\ \A t \in Tags : tags'[t] # tags[t] =>
                 t = RunTag[r] /\ tags'[t] \in Digests
                 /\ manifest'[tags'[t]] = RunCommit[r]
  BY PublishAssumption DEF TypeOK, PushManifest, Packed, registry

LEMMA TagInvStep == TagInv /\ TypeOK' /\ [Next]_vars => TagInv'
<1> SUFFICES ASSUME TagInv, TypeOK', [Next]_vars
             PROVE  ScriptInv' /\ TagNamesItsCommit' /\ LatestIsContinuous'
  BY DEF TagInv
<1> USE PublishAssumption
<1>1. ASSUME UNCHANGED <<tags, manifest>>
      PROVE  TagNamesItsCommit'
  BY <1>1 DEF TagInv, TagNamesItsCommit
<1>2. ASSUME UNCHANGED <<tags, manifest, latest, rolled>>
      PROVE  LatestIsContinuous'
  BY <1>2 DEF TagInv, LatestIsContinuous
<1>3. ASSUME NEW r \in Runs, Start(r)
      PROVE  ScriptInv' /\ TagNamesItsCommit' /\ LatestIsContinuous'
  <2>1. UNCHANGED <<tags, manifest, latest, rolled>>
    BY <1>3 DEF Start, registry
  <2>2. ScriptInv'
    BY <1>3, <2>1 DEF Start, TagInv, TypeOK, ScriptInv, Goto
  <2> QED BY <1>1, <1>2, <2>1, <2>2
<1>4. ASSUME NEW r \in Runs, Validate(r)
      PROVE  ScriptInv' /\ TagNamesItsCommit' /\ LatestIsContinuous'
  <2>1. UNCHANGED <<tags, manifest, latest, rolled>>
    BY <1>4 DEF Validate, registry, history
  <2>2. ScriptInv'
    BY <1>4, <2>1 DEF Validate, TagInv, TypeOK, ScriptInv, Goto
  <2> QED BY <1>1, <1>2, <2>1, <2>2
<1>5. ASSUME NEW r \in Runs, Probe(r)
      PROVE  ScriptInv' /\ TagNamesItsCommit' /\ LatestIsContinuous'
  <2>1. UNCHANGED <<tags, manifest, latest, rolled>>
    BY <1>5 DEF Probe, registry, history
  <2>2. tags[RunTag[r]] # None /\ r \in Movers =>
           /\ tags[RunTag[r]] \in Digests
           /\ manifest[tags[RunTag[r]]] = RunCommit[r]
    BY MoverTag DEF TagInv
  <2>3. ScriptInv'
    BY <1>5, <2>1, <2>2 DEF Probe, TagInv, TypeOK, ScriptInv, Goto
  <2> QED BY <1>1, <1>2, <2>1, <2>3
<1>6. ASSUME NEW r \in Runs, PushManifest(r)
      PROVE  ScriptInv' /\ TagNamesItsCommit' /\ LatestIsContinuous'
  <2>1. /\ \A d \in Digests : manifest[d] # None => manifest'[d] = manifest[d]
        /\ \A t \in Tags : tags[t] # None => tags'[t] # None
        /\ \A t \in Tags : tags'[t] # tags[t] =>
              t = RunTag[r] /\ tags'[t] \in Digests
              /\ manifest'[tags'[t]] = RunCommit[r]
    BY <1>6, PushKeeps DEF TagInv
  <2>2. r \notin DryRuns /\ RunCommit[r] \in Valid
    BY <1>6 DEF PushManifest, TagInv, ScriptInv
  <2>3. \A c \in Commits : c # None
    OBVIOUS
  <2>4. ScriptInv'
    <3> SUFFICES ASSUME NEW q \in Runs
                 PROVE  /\ pc'[q] \in {"probe", "push", "sign", "readback", "retag"} =>
                              q \notin DryRuns /\ RunCommit[q] \in Valid
                        /\ pc'[q] \in {"sign", "readback", "retag"} =>
                              tags'[RunTag[q]] # None
                        /\ pc'[q] = "retag" => /\ q \in Movers
                                               /\ digest'[q] \in Digests
                                               /\ manifest'[digest'[q]] = RunCommit[q]
      BY DEF ScriptInv
    <3>1. CASE q = r
      <4>1. pc'[r] \in {"sign", "failed"}
        BY <1>6 DEF PushManifest, Goto, TagInv, TypeOK
      <4>2. pc'[r] = "sign" => tags'[RunTag[r]] # None
        BY <1>6 DEF PushManifest, Goto, Packed, TagInv, TypeOK
      <4> QED BY <3>1, <4>1, <4>2, <2>2
    <3>2. CASE q # r
      <4>1. pc'[q] = pc[q] /\ digest'[q] = digest[q] /\ RunTag[q] \in Tags
            /\ RunCommit[q] \in Commits
        BY <3>2, <1>6 DEF PushManifest, Goto, TagInv, TypeOK
      <4> QED BY <4>1, <2>1, <2>3 DEF TagInv, ScriptInv
    <3> QED BY <3>1, <3>2
  <2>5. TagNamesItsCommit'
    <3> SUFFICES ASSUME NEW t \in Tags, tags'[t] # None
                 PROVE  \E q \in Runs \ DryRuns :
                           /\ RunTag[q] = t
                           /\ manifest'[tags'[t]] = RunCommit[q]
                           /\ RunCommit[q] \in Valid
      BY DEF TagNamesItsCommit
    <3>1. CASE tags'[t] # tags[t]
      BY <3>1, <2>1, <2>2
    <3>2. CASE tags'[t] = tags[t]
      <4>1. tags[t] \in Digests
        BY <3>2 DEF TagInv, TypeOK
      <4>2. PICK q \in Runs \ DryRuns : /\ RunTag[q] = t
                                        /\ manifest[tags[t]] = RunCommit[q]
                                        /\ RunCommit[q] \in Valid
        BY <3>2 DEF TagInv, TagNamesItsCommit
      <4> QED BY <3>2, <4>1, <4>2, <2>1, <2>3
    <3> QED BY <3>1, <3>2
  <2>6. LatestIsContinuous'
    <3> SUFFICES ASSUME latest' # None
                 PROVE  \E q \in Movers \ DryRuns :
                           /\ manifest'[latest'] = RunCommit[q]
                           /\ RunTag[q] \in rolled'
                           /\ tags'[RunTag[q]] # None
      BY DEF LatestIsContinuous
    <3>1. latest' = latest /\ rolled' = rolled
      BY <1>6 DEF PushManifest, registry
    <3>2. PICK q \in Movers \ DryRuns : /\ manifest[latest] = RunCommit[q]
                                        /\ RunTag[q] \in rolled
                                        /\ tags[RunTag[q]] # None
      BY <3>1 DEF TagInv, LatestIsContinuous
    <3>3. latest \in Digests
      BY <3>1 DEF TagInv, TypeOK
    <3> QED BY <3>1, <3>2, <3>3, <2>1, <2>3
  <2> QED BY <2>4, <2>5, <2>6
<1>7. ASSUME NEW r \in Runs, Sign(r)
      PROVE  ScriptInv' /\ TagNamesItsCommit' /\ LatestIsContinuous'
  <2>1. UNCHANGED <<tags, manifest, latest, rolled>>
    BY <1>7 DEF Sign, history
  <2>2. ScriptInv'
    BY <1>7, <2>1 DEF Sign, TagInv, TypeOK, ScriptInv, Goto
  <2> QED BY <1>1, <1>2, <2>1, <2>2
<1>8. ASSUME NEW r \in Runs, ReadBack(r)
      PROVE  ScriptInv' /\ TagNamesItsCommit' /\ LatestIsContinuous'
  <2>1. UNCHANGED <<tags, manifest, latest, rolled>>
    BY <1>8 DEF ReadBack, registry, history
  <2>2. r \in Movers => /\ tags[RunTag[r]] \in Digests
                        /\ manifest[tags[RunTag[r]]] = RunCommit[r]
    BY <1>8, MoverTag DEF ReadBack, TagInv, ScriptInv
  <2>3. ScriptInv'
    BY <1>8, <2>1, <2>2 DEF ReadBack, TagInv, TypeOK, ScriptInv, Goto
  <2> QED BY <1>1, <1>2, <2>1, <2>3
<1>9. ASSUME NEW r \in Runs, Retag(r)
      PROVE  ScriptInv' /\ TagNamesItsCommit' /\ LatestIsContinuous'
  <2>1. UNCHANGED <<tags, manifest>>
    BY <1>9 DEF Retag
  <2>2. ScriptInv'
    BY <1>9, <2>1 DEF Retag, TagInv, TypeOK, ScriptInv, Goto
  <2>3. LatestIsContinuous'
    BY <1>9, <2>1 DEF Retag, TagInv, ScriptInv, LatestIsContinuous
  <2> QED BY <1>1, <2>1, <2>2, <2>3
<1>10. ASSUME NEW r \in Runs, Fail(r)
       PROVE  ScriptInv' /\ TagNamesItsCommit' /\ LatestIsContinuous'
  <2>1. UNCHANGED <<tags, manifest, latest, rolled>>
    BY <1>10 DEF Fail, registry, history
  <2>2. ScriptInv'
    BY <1>10, <2>1 DEF Fail, TagInv, TypeOK, ScriptInv, Goto
  <2> QED BY <1>1, <1>2, <2>1, <2>2
<1>11. CASE UNCHANGED vars
  BY <1>11 DEF vars, registry, script, history, TagInv, ScriptInv,
               TagNamesItsCommit, LatestIsContinuous
<1> QED BY <1>3, <1>4, <1>5, <1>6, <1>7, <1>8, <1>9, <1>10, <1>11 DEF Next, Step

(* publish-artifact.sh: whatever overlaps, fails and is re-run, a tag names*)
(* the validated kit of a commit published under that very tag.            *)
THEOREM TagsNameTheirCommit == Spec => []TagNamesItsCommit
<1>1. Init => TagInv
  BY PublishAssumption DEF Init, TagInv, TypeOK, Steps, ScriptInv,
     TagNamesItsCommit, LatestIsContinuous
<1>2. TagInv => TagNamesItsCommit
  BY DEF TagInv
<1> QED BY <1>1, <1>2, TagInvStep, TypeCorrect, PTL DEF Spec

(* publish-artifact.sh: the rolling tag never names a release, a dry run   *)
(* or a manifest that no continuous run of a published tag stands behind.  *)
THEOREM LatestFollowsMain == Spec => []LatestIsContinuous
<1>1. Init => TagInv
  BY PublishAssumption DEF Init, TagInv, TypeOK, Steps, ScriptInv,
     TagNamesItsCommit, LatestIsContinuous
<1>2. TagInv => LatestIsContinuous
  BY DEF TagInv
<1> QED BY <1>1, <1>2, TagInvStep, TypeCorrect, PTL DEF Spec
-----------------------------------------------------------------------------
(* A run about to push knows its tag is free, or has been overtaken.       *)
RaceInv == \A r \in Runs :
              pc[r] = "push" /\ tags[RunTag[r]] # None => r \in overtaken

LEMMA RaceStep == TypeOK /\ RaceInv /\ [Next]_vars => RaceInv'
<1> SUFFICES ASSUME TypeOK, RaceInv, [Next]_vars PROVE RaceInv'
  OBVIOUS
<1> USE PublishAssumption
    DEF TypeOK, RaceInv, Goto, registry, script, history
<1>1. ASSUME NEW r \in Runs, Start(r) PROVE RaceInv'
  BY <1>1 DEF Start
<1>2. ASSUME NEW r \in Runs, Validate(r) PROVE RaceInv'
  BY <1>2 DEF Validate
<1>3. ASSUME NEW r \in Runs, Probe(r) PROVE RaceInv'
  BY <1>3 DEF Probe
<1>4. ASSUME NEW r \in Runs, PushManifest(r) PROVE RaceInv'
  <2>1. pc'[r] # "push"
    BY <1>4 DEF PushManifest
  <2>2. ASSUME NEW q \in Runs, q # r, pc'[q] = "push",
               tags'[RunTag[q]] # None
        PROVE  q \in overtaken'
    BY <1>4, <2>2 DEF PushManifest
  <2> QED BY <2>1, <2>2
<1>5. ASSUME NEW r \in Runs, Sign(r) PROVE RaceInv'
  BY <1>5 DEF Sign
<1>6. ASSUME NEW r \in Runs, ReadBack(r) PROVE RaceInv'
  BY <1>6 DEF ReadBack
<1>7. ASSUME NEW r \in Runs, Retag(r) PROVE RaceInv'
  BY <1>7 DEF Retag
<1>8. ASSUME NEW r \in Runs, Fail(r) PROVE RaceInv'
  BY <1>8 DEF Fail
<1>9. CASE UNCHANGED vars
  BY <1>9 DEF vars
<1> QED BY <1>1, <1>2, <1>3, <1>4, <1>5, <1>6, <1>7, <1>8, <1>9 DEF Next, Step

(* Only a push changes a tag.                                              *)
LEMMA OverwriteStep ==
    ASSUME TypeOK, RaceInv, Next,
           NEW t \in Tags, tags[t] # None, tags'[t] # tags[t]
    PROVE  \E r \in overtaken : RunTag[r] = t /\ pc[r] = "push"
<1>1. PICK r \in Runs : Start(r) \/ Step(r) \/ Fail(r)
  BY DEF Next
<1>2. PushManifest(r)
  BY <1>1 DEF Start, Step, Fail, Validate, Probe, Sign, ReadBack, Retag,
              registry, history
<1>3. RunTag[r] = t /\ pc[r] = "push"
  BY <1>2 DEF PushManifest, TypeOK, registry
<1> QED BY <1>3 DEF RaceInv

(* publish-artifact.sh: a published tag is overwritten only by a run that  *)
(* was answered "not published yet" before another run's push landed.      *)
THEOREM OverwritesAreRaces == Spec => OverwriteNeedsRace
<1>1. Init => RaceInv
  BY DEF Init, RaceInv
<1>2. TypeOK /\ RaceInv /\ [Next]_vars =>
         [\A t \in Tags : tags[t] # None /\ tags'[t] # tags[t] =>
             \E r \in overtaken : RunTag[r] = t /\ pc[r] = "push"]_vars
  BY OverwriteStep
<1> QED BY <1>1, <1>2, RaceStep, TypeCorrect, PTL DEF Spec, OverwriteNeedsRace
-----------------------------------------------------------------------------
(* On a registry that refuses overwrites, what a run knows of its tag      *)
(* stays true: its own push is what the tag names, and what it read is.    *)
OwnInv ==
    \A r \in Runs :
        /\ pc[r] \in {"probe", "push", "sign", "readback", "retag"} =>
              r \notin DryRuns
        /\ pc[r] \in {"validate", "probe", "push", "sign", "readback"} =>
              ~reused[r]
        /\ pc[r] \in {"sign", "readback"} =>
              mine[r] \in Digests /\ mine[r] = tags[RunTag[r]]
        /\ pc[r] = "readback" => mine[r] \in signed
        /\ pc[r] = "retag" => /\ digest[r] \in Digests
                              /\ digest[r] = tags[RunTag[r]]

ImmutableInv == TypeOK /\ OwnInv /\ ReportsOwnSignedPush

LEMMA TagsStay ==
    ASSUME TypeOK, TagImmutability, [Next]_vars,
           NEW t \in Tags, tags[t] # None
    PROVE  tags'[t] = tags[t]
<1>1. ASSUME NEW r \in Runs, Start(r) \/ Step(r) \/ Fail(r)
      PROVE  tags'[t] = tags[t]
  <2>1. CASE PushManifest(r)
    BY <2>1, PublishAssumption DEF PushManifest, TypeOK, registry
  <2>2. CASE ~PushManifest(r)
    BY <1>1, <2>2 DEF Start, Step, Fail, Validate, Probe, Sign, ReadBack,
                      Retag, registry
  <2> QED BY <2>1, <2>2
<1> QED BY <1>1 DEF Next, vars, registry

(* A step of run r leaves every other run's variables alone.               *)
LEMMA OthersKeep ==
    ASSUME TypeOK, NEW r \in Runs, Start(r) \/ Step(r) \/ Fail(r),
           NEW q \in Runs, q # r
    PROVE  /\ pc'[q] = pc[q]
           /\ digest'[q] = digest[q]
           /\ reused'[q] = reused[q]
           /\ mine'[q] = mine[q]
           /\ \A d \in Digests : d \in signed => d \in signed'
  BY DEF TypeOK, Start, Step, Fail, Validate, Probe, PushManifest, Sign,
         ReadBack, Retag, Goto, registry, script, history

LEMMA ImmutableStep ==
    ASSUME TagImmutability, ImmutableInv, TypeOK', [Next]_vars
    PROVE  ImmutableInv'
<1> DEFINE Own(q) ==
      /\ pc[q] \in {"probe", "push", "sign", "readback", "retag"} =>
            q \notin DryRuns
      /\ pc[q] \in {"validate", "probe", "push", "sign", "readback"} =>
            ~reused[q]
      /\ pc[q] \in {"sign", "readback"} =>
            mine[q] \in Digests /\ mine[q] = tags[RunTag[q]]
      /\ pc[q] = "readback" => mine[q] \in signed
      /\ pc[q] = "retag" => /\ digest[q] \in Digests
                            /\ digest[q] = tags[RunTag[q]]
      /\ q \notin DryRuns /\ pc[q] \in {"retag", "done"} /\ ~reused[q] =>
            /\ digest[q] = mine[q]
            /\ digest[q] = tags[RunTag[q]]
            /\ digest[q] \in signed
<1>1. ImmutableInv <=> TypeOK /\ \A q \in Runs : Own(q)
  BY DEF ImmutableInv, OwnInv, ReportsOwnSignedPush
<1>2. SUFFICES ASSUME NEW q \in Runs PROVE Own(q)'
  BY DEF ImmutableInv, OwnInv, ReportsOwnSignedPush
<1>3. Own(q) /\ TypeOK
  BY <1>1
<1>4. RunTag[q] \in Tags /\ None \notin Digests
  BY PublishAssumption
<1>5. tags[RunTag[q]] # None => tags'[RunTag[q]] = tags[RunTag[q]]
  BY <1>3, <1>4, TagsStay
<1>6. tags[RunTag[q]] \in Digests \cup {None}
  BY <1>3, <1>4 DEF TypeOK
<1>7. ASSUME NEW r \in Runs, Start(r) \/ Step(r) \/ Fail(r), r # q
      PROVE  Own(q)'
  <2>1. /\ pc'[q] = pc[q]
        /\ digest'[q] = digest[q]
        /\ reused'[q] = reused[q]
        /\ mine'[q] = mine[q]
        /\ \A d \in Digests : d \in signed => d \in signed'
    BY <1>3, <1>7, OthersKeep
  <2>2. pc[q] \in {"sign", "readback"} =>
           mine'[q] \in Digests /\ mine'[q] = tags'[RunTag[q]]
    BY <1>3, <1>4, <1>5, <2>1
  <2>3. pc[q] = "readback" => mine'[q] \in signed'
    BY <1>3, <2>1
  <2>4. pc[q] = "retag" => /\ digest'[q] \in Digests
                           /\ digest'[q] = tags'[RunTag[q]]
    BY <1>3, <1>4, <1>5, <2>1
  <2>5. q \notin DryRuns /\ pc[q] \in {"retag", "done"} /\ ~reused[q] =>
            /\ digest'[q] = mine'[q]
            /\ digest'[q] = tags'[RunTag[q]]
            /\ digest'[q] \in signed'
    <3>1. signed \subseteq Digests
      BY <1>3 DEF TypeOK
    <3> QED BY <1>3, <1>4, <1>5, <2>1, <3>1
  <2> QED BY <1>3, <2>1, <2>2, <2>3, <2>4, <2>5
<1>8. ASSUME Start(q) \/ Step(q) \/ Fail(q) PROVE Own(q)'
  <2> USE <1>3, <1>4, <1>6 DEF TypeOK, Goto, registry, history
  <2>1. CASE Start(q)
    BY <2>1 DEF Start
  <2>2. CASE Validate(q)
    BY <2>2 DEF Validate
  <2>3. CASE Probe(q)
    <3>1. CASE tags[RunTag[q]] = None
      BY <2>3, <3>1 DEF Probe
    <3>2. CASE tags[RunTag[q]] # None
      <4>1. \/ pc'[q] = "failed"
            \/ pc'[q] = "retag" /\ digest'[q] = tags[RunTag[q]] /\ reused'[q]
        BY <2>3, <3>2 DEF Probe
      <4>2. pc[q] = "probe" /\ tags' = tags
        BY <2>3 DEF Probe
      <4> QED BY <3>2, <4>1, <4>2
    <3> QED BY <3>1, <3>2
  <2>4. CASE PushManifest(q)
    <3>1. CASE pc'[q] = "failed"
      BY <2>4, <3>1 DEF PushManifest
    <3>2. CASE pc'[q] # "failed"
      <4>1. PICK d \in Digests : /\ tags'[RunTag[q]] = d
                                 /\ mine'[q] = d
                                 /\ pc'[q] = "sign"
        BY <2>4, <3>2 DEF PushManifest, Packed
      <4>2. pc[q] = "push" /\ reused' = reused
        BY <2>4 DEF PushManifest
      <4> QED BY <4>1, <4>2
    <3> QED BY <3>1, <3>2
  <2>5. CASE Sign(q)
    BY <2>5 DEF Sign
  <2>6. CASE ReadBack(q)
    BY <2>6 DEF ReadBack
  <2>7. CASE Retag(q)
    BY <2>7 DEF Retag
  <2>8. CASE Fail(q)
    BY <2>8 DEF Fail
  <2> QED BY <1>8, <2>1, <2>2, <2>3, <2>4, <2>5, <2>6, <2>7, <2>8 DEF Step
<1>9. ASSUME UNCHANGED vars PROVE Own(q)'
  BY <1>3, <1>9 DEF vars, registry, script, history
<1> QED BY <1>7, <1>8, <1>9 DEF Next

(* publish-artifact.sh on a registry with tag immutability: a run that     *)
(* reports a fresh push reports its own, still tagged and signed.          *)
THEOREM FreshPushIsOwn ==
    ASSUME TagImmutability PROVE Spec => []ReportsOwnSignedPush
<1>1. Init => ImmutableInv
  BY PublishAssumption DEF Init, ImmutableInv, OwnInv, ReportsOwnSignedPush,
     TypeOK, Steps
<1>2. ImmutableInv /\ TypeOK' /\ [Next]_vars => ImmutableInv'
  BY ImmutableStep
<1>3. ImmutableInv => ReportsOwnSignedPush
  BY DEF ImmutableInv
<1> QED BY <1>1, <1>2, <1>3, TypeCorrect, PTL DEF Spec

(* With tag immutability the scripts, all interleavings, failures and      *)
(* re-runs of them, implement the repository PUBLISHING.md promises.       *)
THEOREM ImplementsRepository ==
    ASSUME TagImmutability PROVE Spec => RepositorySpec
<1>1. Init => Repository!Init
  BY DEF Init, Repository!Init
<1>2. ImmutableInv /\ [Next]_vars => [Repository!Next]_(Repository!vars)
  <2> SUFFICES ASSUME ImmutableInv, [Next]_vars
               PROVE  Repository!Next \/ UNCHANGED <<tags, latest>>
    BY DEF Repository!vars
  <2>1. CASE UNCHANGED vars
    BY <2>1 DEF vars, registry
  <2>2. CASE Next
    <3>1. PICK r \in Runs : Start(r) \/ Step(r) \/ Fail(r)
      BY <2>2 DEF Next
    <3>2. RunTag[r] \in Tags /\ None \notin Digests
      BY PublishAssumption
    <3>3. CASE PushManifest(r)
      <4>1. CASE UNCHANGED registry
        BY <4>1 DEF registry
      <4>2. CASE ~UNCHANGED registry
        <5>1. /\ tags[RunTag[r]] = None
              /\ \E d \in Digests : tags' = [tags EXCEPT ![RunTag[r]] = d]
              /\ UNCHANGED latest
          BY <3>3, <4>2 DEF PushManifest, Packed
        <5>2. \E d \in Digests : Repository!PublishTag(RunTag[r], d)
          BY <5>1 DEF Repository!PublishTag
        <5> QED BY <3>2, <5>2 DEF Repository!Next
      <4> QED BY <4>1, <4>2
    <3>4. CASE Retag(r)
      <4>1. tags[RunTag[r]] # None /\ latest' = tags[RunTag[r]]
        BY <3>2, <3>4 DEF Retag, ImmutableInv, OwnInv
      <4>2. Repository!MoveLatest(RunTag[r])
        BY <3>4, <4>1 DEF Retag, Repository!MoveLatest
      <4> QED BY <3>2, <4>2 DEF Repository!Next
    <3>5. CASE ~PushManifest(r) /\ ~Retag(r)
      BY <3>1, <3>5 DEF Start, Step, Fail, Validate, Probe, Sign, ReadBack,
                        registry
    <3> QED BY <3>3, <3>4, <3>5
  <2> QED BY <2>1, <2>2
<1>3. Init => ImmutableInv
  BY PublishAssumption DEF Init, ImmutableInv, OwnInv, ReportsOwnSignedPush,
     TypeOK, Steps
<1>4. ImmutableInv /\ TypeOK' /\ [Next]_vars => ImmutableInv'
  BY ImmutableStep
<1> QED
  BY <1>1, <1>2, <1>3, <1>4, TypeCorrect, PTL
  DEF Spec, RepositorySpec, Repository!Spec
-----------------------------------------------------------------------------
(* The job graph.  What a step does to the artifact job is one of the      *)
(* script's, or stops it, or sets it back: the invariants of the script    *)
(* carry over.                                                             *)

(* A whole run is cancelled or re-run: its script stops, or will start     *)
(* again.                                                                  *)
SetBack ==
    /\ \E r \in Runs, step \in {"idle", "failed"} :
          pc' \in {pc, [pc EXCEPT ![r] = step]}
    /\ reruns' \in 0 .. MaxReruns
    /\ UNCHANGED <<registry, digest, reused, history>>

LEMMA ScriptSteps ==
    ASSUME TypeOK, [GraphNext]_graphVars
    PROVE  [Next]_vars \/ SetBack
<1>1. CASE UNCHANGED graphVars
  BY <1>1 DEF graphVars
<1>2. ASSUME NEW r \in Runs, Jobs(r) PROVE [Next]_vars
  <2>1. \/ UNCHANGED vars \/ Start(r) \/ Step(r) \/ Fail(r)
    BY <1>2 DEF Jobs, StartArtifact
  <2> QED BY <2>1 DEF Next
<1>3. ASSUME NEW r \in Runs, Cancel(r) PROVE SetBack
  <2>1. /\ pc' \in {pc, [pc EXCEPT ![r] = "failed"]}
        /\ UNCHANGED <<reruns, registry, digest, reused, history>>
    BY <1>3 DEF Cancel, Goto, TypeOK
  <2> QED BY <2>1 DEF SetBack, TypeOK
<1>4. ASSUME NEW r \in Runs, Rerun(r) PROVE SetBack
  <2>1. /\ pc' \in {pc, [pc EXCEPT ![r] = "idle"]}
        /\ reruns < MaxReruns /\ reruns' = reruns + 1
        /\ UNCHANGED <<registry, digest, reused, history>>
    BY <1>4 DEF Rerun, Goto, TypeOK
  <2>2. reruns' \in 0 .. MaxReruns
    BY <2>1, PublishAssumption DEF TypeOK
  <2> QED BY <2>1, <2>2 DEF SetBack
<1> QED BY <1>1, <1>2, <1>3, <1>4 DEF GraphNext

LEMMA TypeGraphStep ==
    ASSUME TypeOK, SignHasDigest, [GraphNext]_graphVars
    PROVE  TypeOK' /\ SignHasDigest'
<1>1. CASE SetBack
  BY <1>1 DEF SetBack, TypeOK, SignHasDigest, Steps, registry, history
<1> QED BY <1>1, ScriptSteps, TypeStep

LEMMA RaceGraphStep ==
    ASSUME TypeOK, RaceInv, [GraphNext]_graphVars
    PROVE  RaceInv'
<1>1. CASE SetBack
  BY <1>1 DEF SetBack, TypeOK, RaceInv, registry, history
<1> QED BY <1>1, ScriptSteps, RaceStep

LEMMA TagGraphStep ==
    ASSUME TagInv, TypeOK', [GraphNext]_graphVars
    PROVE  TagInv'
<1>1. CASE SetBack
  <2>1. UNCHANGED <<tags, latest, manifest, digest, rolled>>
    BY <1>1 DEF SetBack, registry, history
  <2>2. ScriptInv'
    BY <1>1, <2>1 DEF SetBack, TagInv, TypeOK, ScriptInv
  <2>3. TagNamesItsCommit' /\ LatestIsContinuous'
    BY <2>1 DEF TagInv, TagNamesItsCommit, LatestIsContinuous
  <2> QED BY <2>2, <2>3 DEF TagInv
<1> QED BY <1>1, ScriptSteps, TagInvStep DEF TagInv
-----------------------------------------------------------------------------
(* The types of the image and overview jobs.                               *)
JobTypes ==
    /\ world \in Worlds
    /\ image \in [Runs -> JobStates \cup {"build", "repoint"}]
    /\ imageTags \in [Tags -> ImageDigests \cup {None}]
    /\ imageLatest \in ImageDigests \cup {None}
    /\ overview \in [Runs -> JobStates \cup {"gate", "write"}]
    /\ page \in Commits \cup {None}
    /\ cancelled \in SUBSET Runs

LEMMA JobTypesStep ==
    ASSUME JobTypes, [GraphNext]_graphVars
    PROVE  JobTypes'
<1> USE PublishAssumption, GraphAssumption
    DEF JobTypes, JobStates, imageVars, pageVars, SetImage, SetOverview
<1>1. CASE UNCHANGED graphVars
  BY <1>1 DEF graphVars
<1>2. ASSUME NEW r \in Runs, Jobs(r), UNCHANGED world PROVE JobTypes'
  <2>1. CASE StartImage(r) /\ UNCHANGED <<pageVars, cancelled>>
    BY <1>2, <2>1 DEF StartImage
  <2>2. CASE PushImage(r) /\ UNCHANGED <<pageVars, cancelled>>
    <3>1. image' \in [Runs -> JobStates \cup {"build", "repoint"}]
      BY <2>2 DEF PushImage
    <3>2. imageTags' \in [Tags -> ImageDigests \cup {None}]
      BY <2>2 DEF PushImage
    <3> QED BY <1>2, <2>2, <3>1, <3>2 DEF PushImage
  <2>3. CASE RepointImage(r) /\ UNCHANGED <<pageVars, cancelled>>
    BY <1>2, <2>3 DEF RepointImage
  <2>4. CASE FailImage(r) /\ UNCHANGED <<pageVars, cancelled>>
    BY <1>2, <2>4 DEF FailImage
  <2>5. CASE UNCHANGED <<imageVars, pageVars, cancelled>>
    BY <1>2, <2>5
  <2>6. CASE (OverviewStep(r) \/ FailOverview(r)) /\ UNCHANGED <<imageVars, cancelled>>
    BY <1>2, <2>6 DEF OverviewStep, StartOverview, GateOverview, WriteOverview, FailOverview
  <2> QED BY <1>2, <2>1, <2>2, <2>3, <2>4, <2>5, <2>6 DEF Jobs, ImageStep
<1>3. ASSUME NEW r \in Runs, Cancel(r), UNCHANGED world PROVE JobTypes'
  BY <1>3 DEF Cancel
<1>4. ASSUME NEW r \in Runs, Rerun(r), UNCHANGED world PROVE JobTypes'
  BY <1>4 DEF Rerun
<1> QED BY <1>1, <1>2, <1>3, <1>4 DEF GraphNext
-----------------------------------------------------------------------------
(* What makes JobsFollowTheirInputs inductive.  A run whose artifact job   *)
(* was started has its image job behind it, since whatever restarts the    *)
(* one sets the other back; an image job that succeeded and was to publish *)
(* has published; and an overview job gets to writing past its gate only.  *)
ImageInv ==
    \A r \in Runs :
        /\ r \in GraphRuns /\ pc[r] # "idle" => image[r] \in {"success", "skipped"}
        /\ image[r] = "skipped" => ~HasImage(r)
        /\ image[r] = "repoint" => imageTags[RunTag[r]] # None
        /\ image[r] = "success" /\ r \notin ImageDryRuns =>
              imageTags[RunTag[r]] # None /\ imageLatest # None

OverviewInv ==
    \A r \in Runs :
        /\ overview[r] \in {"gate", "write"} =>
              /\ Event[r] # "release"
              /\ world.credential \/ Event[r] = "pull_request"
        /\ overview[r] = "write" => /\ Event[r] # "pull_request"
                                    /\ world.public
                                    /\ \E t \in Tags : tags[t] # None

GraphInv == /\ JobTypes
            /\ SignHasDigest
            /\ TagInv
            /\ RaceInv
            /\ ImageInv
            /\ OverviewInv
            /\ JobsFollowTheirInputs

LEMMA GraphInvInit == GraphInit => GraphInv
<1> SUFFICES ASSUME GraphInit PROVE GraphInv
  OBVIOUS
<1>1. TypeOK /\ SignHasDigest
  BY TypeInit DEF GraphInit
<1>2. TagInv /\ RaceInv
  BY <1>1 DEF GraphInit, Init, TagInv, ScriptInv, TagNamesItsCommit, LatestIsContinuous, RaceInv
<1>3. JobTypes
  BY DEF GraphInit, JobTypes, JobStates
<1>4. ImageInv
  BY DEF GraphInit, Init, ImageInv
<1>5. OverviewInv
  BY DEF GraphInit, OverviewInv
<1>6. JobsFollowTheirInputs
  BY PublishAssumption
  DEF GraphInit, Init, JobsFollowTheirInputs, ArtifactNeedsImage, PageIsPublished
<1> QED BY <1>1, <1>2, <1>3, <1>4, <1>5, <1>6 DEF GraphInv

(* Nothing that was published goes away.                                   *)
LEMMA PublishedStays ==
    ASSUME GraphInv, [GraphNext]_graphVars
    PROVE  /\ \A t \in Tags : tags[t] # None => tags'[t] # None
           /\ \A t \in Tags : imageTags[t] # None => imageTags'[t] # None
           /\ imageLatest # None => imageLatest' # None
<1> USE PublishAssumption, GraphAssumption
<1>1. \A t \in Tags : tags[t] # None => tags'[t] # None
  <2>1. CASE UNCHANGED registry
    BY <2>1 DEF registry
  <2>2. ASSUME NEW r \in Runs, PushManifest(r)
        PROVE  \A t \in Tags : tags[t] # None => tags'[t] # None
    BY <2>2, PushKeeps DEF GraphInv, TagInv
  <2>3. TypeOK
    BY DEF GraphInv, TagInv
  <2>4. [Next]_vars \/ SetBack
    BY <2>3, ScriptSteps
  <2>5. \/ UNCHANGED registry
        \/ \E r \in Runs : PushManifest(r)
        \/ \E r \in Runs : Retag(r) \/ Sign(r)
    BY <2>4 DEF SetBack, vars, Next, Start, Step, Fail, Validate, Probe, ReadBack
  <2>6. ASSUME NEW r \in Runs, Retag(r) \/ Sign(r) PROVE UNCHANGED tags
    BY <2>6 DEF Retag, Sign
  <2> QED BY <2>1, <2>2, <2>5, <2>6
<1>2. \/ UNCHANGED <<imageTags, imageLatest>>
      \/ \E r \in Runs : PushImage(r) \/ RepointImage(r)
  BY DEF GraphNext, Jobs, ImageStep, StartImage, FailImage, Cancel, Rerun,
         imageVars, graphVars
<1>3. ASSUME NEW r \in Runs, PushImage(r)
      PROVE  /\ \A t \in Tags : imageTags[t] # None => imageTags'[t] # None
             /\ UNCHANGED imageLatest
  BY <1>3 DEF PushImage, GraphInv, JobTypes
<1>4. ASSUME NEW r \in Runs, RepointImage(r)
      PROVE  UNCHANGED imageTags /\ imageLatest' # None
  BY <1>4 DEF RepointImage, GraphInv, ImageInv
<1> QED BY <1>1, <1>2, <1>3, <1>4

LEMMA ImageInvStep ==
    ASSUME GraphInv, [GraphNext]_graphVars
    PROVE  ImageInv'
<1> USE PublishAssumption, GraphAssumption
<1>1. /\ image \in [Runs -> JobStates \cup {"build", "repoint"}]
      /\ pc \in [Runs -> Steps] /\ imageTags \in [Tags -> ImageDigests \cup {None}]
      /\ ImageInv
  BY DEF GraphInv, JobTypes, TagInv, TypeOK
<1>2. /\ \A t \in Tags : imageTags[t] # None => imageTags'[t] # None
      /\ imageLatest # None => imageLatest' # None
  BY PublishedStays
<1>3. UNCHANGED world
  BY DEF GraphNext, graphVars
<1>4. SUFFICES ASSUME NEW q \in Runs
      PROVE  /\ q \in GraphRuns /\ pc'[q] # "idle" => image'[q] \in {"success", "skipped"}
             /\ image'[q] = "skipped" => ~HasImage(q)
             /\ image'[q] = "repoint" => imageTags'[RunTag[q]] # None
             /\ image'[q] = "success" /\ q \notin ImageDryRuns =>
                   imageTags'[RunTag[q]] # None /\ imageLatest' # None
  BY <1>3 DEF ImageInv, HasImage
<1>5. RunTag[q] \in Tags
  OBVIOUS
<1>6. CASE image'[q] = image[q] /\ (pc'[q] # "idle" => pc[q] # "idle")
  BY <1>1, <1>2, <1>5, <1>6 DEF ImageInv
<1>7. CASE UNCHANGED graphVars
  BY <1>6, <1>7 DEF graphVars, vars, script, imageVars
<1>8. ASSUME NEW r \in Runs, r # q, Jobs(r) \/ Cancel(r) \/ Rerun(r)
      PROVE  image'[q] = image[q] /\ pc'[q] = pc[q]
  <2> USE <1>1, <1>8 DEF Goto, SetImage
  <2>1. CASE (ImageStep(r) \/ FailImage(r)) /\ UNCHANGED vars
    BY <2>1 DEF ImageStep, StartImage, PushImage, RepointImage, FailImage, vars, script
  <2>2. CASE (Start(r) \/ Step(r) \/ Fail(r)) /\ UNCHANGED imageVars
    BY <2>2 DEF Start, Step, Fail, Validate, Probe, PushManifest, Sign, ReadBack, Retag, imageVars
  <2>3. CASE UNCHANGED <<vars, imageVars>>
    BY <2>3 DEF vars, script, imageVars
  <2>4. CASE Cancel(r)
    BY <2>4 DEF Cancel
  <2>5. CASE Rerun(r)
    BY <2>5 DEF Rerun
  <2> QED BY <2>1, <2>2, <2>3, <2>4, <2>5 DEF Jobs, StartArtifact
<1>9. CASE (ImageStep(q) \/ FailImage(q)) /\ UNCHANGED vars
  <2>1. pc' = pc
    BY <1>9 DEF vars, script
  <2> USE <1>1, <1>5, <2>1 DEF SetImage, ImageInv
  <2>2. CASE StartImage(q)
    BY <2>2 DEF StartImage
  <2>3. CASE PushImage(q)
    BY <2>3 DEF PushImage
  <2>4. CASE RepointImage(q)
    BY <2>4 DEF RepointImage
  <2>5. CASE FailImage(q)
    BY <2>5 DEF FailImage
  <2> QED BY <1>9, <2>2, <2>3, <2>4, <2>5 DEF ImageStep
<1>10. CASE (StartArtifact(q) \/ Step(q) \/ Fail(q)) /\ UNCHANGED imageVars
  <2>1. image' = image
    BY <1>10 DEF imageVars
  <2>2. CASE StartArtifact(q)
    <3>1. q \in GraphRuns => image[q] \in {"success", "skipped"}
      BY <2>2 DEF StartArtifact, ArtifactMayStart, GraphRuns
    <3> QED BY <1>1, <1>2, <1>5, <2>1, <3>1 DEF ImageInv
  <2>3. CASE Step(q) \/ Fail(q)
    <3>1. pc[q] # "idle"
      BY <2>3 DEF Step, Fail, Running, Validate, Probe, PushManifest, Sign, ReadBack, Retag
    <3> QED BY <1>6, <2>1, <3>1
  <2> QED BY <1>10, <2>2, <2>3
<1>11. CASE UNCHANGED <<vars, imageVars>>
  BY <1>6, <1>11 DEF vars, script, imageVars
<1>12. CASE Cancel(q)
  <2> USE <1>1, <1>12 DEF Goto, SetImage
  <2>1. CASE image[q] \in {"build", "repoint"}
    <3>1. q \in GraphRuns => pc[q] = "idle"
      BY <2>1 DEF ImageInv
    <3>2. image'[q] = "failure" /\ (pc[q] = "idle" => pc'[q] = "idle")
      BY <2>1 DEF Cancel, Running
    <3> QED BY <3>1, <3>2
  <2>2. CASE image[q] \notin {"build", "repoint"}
    <3>1. image'[q] = image[q] /\ (pc[q] = "idle" => pc'[q] = "idle")
      BY <2>2 DEF Cancel, Running
    <3> QED BY <1>6, <3>1
  <2> QED BY <2>1, <2>2
<1>13. CASE Rerun(q)
  <2>1. \/ image'[q] = image[q] /\ pc'[q] \in {pc[q], "idle"}
        \/ image'[q] = "waiting" /\ pc'[q] = "idle"
    BY <1>1, <1>13 DEF Rerun, Goto, SetImage
  <2> QED BY <1>6, <2>1
<1>14. CASE GraphNext
  <2>1. PICK r \in Runs : Jobs(r) \/ Cancel(r) \/ Rerun(r)
    BY <1>14 DEF GraphNext
  <2>2. CASE r # q
    BY <1>6, <1>8, <2>1, <2>2
  <2>3. CASE r = q
    BY <1>9, <1>10, <1>11, <1>12, <1>13, <2>1, <2>3 DEF Jobs
  <2> QED BY <2>2, <2>3
<1> QED BY <1>7, <1>14

LEMMA OverviewInvStep ==
    ASSUME GraphInv, [GraphNext]_graphVars
    PROVE  OverviewInv'
<1> USE PublishAssumption, GraphAssumption
<1>1. overview \in [Runs -> JobStates \cup {"gate", "write"}] /\ OverviewInv
  BY DEF GraphInv, JobTypes
<1>2. \A t \in Tags : tags[t] # None => tags'[t] # None
  BY PublishedStays
<1>3. SUFFICES ASSUME NEW q \in Runs
      PROVE  /\ overview'[q] \in {"gate", "write"} =>
                    /\ Event[q] # "release"
                    /\ world.credential \/ Event[q] = "pull_request"
             /\ overview'[q] = "write" => /\ Event[q] # "pull_request"
                                          /\ world.public
                                          /\ \E t \in Tags : tags'[t] # None
  <2>1. UNCHANGED world
    BY DEF GraphNext, graphVars
  <2> QED BY <2>1 DEF OverviewInv
<1>4. CASE overview'[q] = overview[q] \/ overview'[q] \notin {"gate", "write"}
  BY <1>1, <1>2, <1>4 DEF OverviewInv
<1>5. CASE UNCHANGED graphVars
  BY <1>4, <1>5 DEF graphVars, pageVars
<1>6. ASSUME NEW r \in Runs, Jobs(r) \/ Cancel(r) \/ Rerun(r)
      PROVE  \/ overview'[q] = overview[q] \/ overview'[q] \notin {"gate", "write"}
             \/ StartOverview(q) \/ GateOverview(q)
  <2> USE <1>1, <1>6 DEF SetOverview
  <2>1. CASE UNCHANGED pageVars
    BY <2>1 DEF pageVars
  <2>2. CASE OverviewStep(r) \/ FailOverview(r)
    BY <2>2 DEF OverviewStep, StartOverview, GateOverview, WriteOverview, FailOverview
  <2>3. CASE Cancel(r)
    BY <2>3 DEF Cancel
  <2>4. CASE Rerun(r)
    BY <2>4 DEF Rerun
  <2> QED BY <2>1, <2>2, <2>3, <2>4 DEF Jobs
<1>7. CASE StartOverview(q)
  <2>1. Event[q] # "release"
    BY <1>7 DEF StartOverview, OverviewMayStart, GraphRuns
  <2>2. \/ overview'[q] = "skipped"
        \/ /\ overview'[q] = "gate"
           /\ world.credential \/ Event[q] = "pull_request"
    BY <1>1, <1>7 DEF StartOverview, SetOverview
  <2> QED BY <2>1, <2>2
<1>8. CASE GateOverview(q)
  <2>1. /\ Event[q] # "release"
        /\ world.credential \/ Event[q] = "pull_request"
    BY <1>1, <1>8 DEF GateOverview, OverviewInv
  <2>2. /\ overview'[q] \in {"write", "skipped"}
        /\ overview'[q] = "write" => Event[q] # "pull_request" /\ HubRepoReady
    BY <1>1, <1>8 DEF GateOverview, SetOverview
  <2>3. overview'[q] = "write" => /\ Event[q] # "pull_request"
                                  /\ world.public
                                  /\ \E t \in Tags : tags[t] # None
    BY <2>2 DEF HubRepoReady
  <2> QED BY <1>2, <2>1, <2>2, <2>3
<1> QED BY <1>4, <1>5, <1>6, <1>7, <1>8 DEF GraphNext
-----------------------------------------------------------------------------
(* The one step that publishes a tag pushes the kit of its commit.         *)
LEMMA PublishingIsPush ==
    ASSUME TypeOK, [GraphNext]_graphVars, NEW t \in Tags, tags'[t] # tags[t]
    PROVE  \E r \in Runs : PushManifest(r) /\ RunTag[r] = t
<1>1. [Next]_vars \/ SetBack
  BY ScriptSteps
<1>2. ~UNCHANGED registry
  BY DEF registry
<1>3. PICK r \in Runs : PushManifest(r)
  BY <1>1, <1>2 DEF SetBack, vars, Next, Start, Step, Fail, Validate, Probe, Sign,
                    ReadBack, Retag
<1>4. RunTag[r] = t
  BY <1>3 DEF PushManifest, TypeOK, registry
<1> QED BY <1>3, <1>4

LEMMA InputsStep ==
    ASSUME GraphInv, [GraphNext]_graphVars
    PROVE  JobsFollowTheirInputs'
<1> USE PublishAssumption, GraphAssumption
<1>1. TypeOK /\ ScriptInv /\ ArtifactNeedsImage /\ PageIsPublished
  BY DEF GraphInv, TagInv, JobsFollowTheirInputs
<1>2. /\ \A t \in Tags : tags[t] # None => tags'[t] # None
      /\ \A t \in Tags : imageTags[t] # None => imageTags'[t] # None
      /\ imageLatest # None => imageLatest' # None
  BY PublishedStays
<1>3. UNCHANGED world
  BY DEF GraphNext, graphVars
<1>4. ArtifactNeedsImage'
  <2> SUFFICES ASSUME NEW r \in Movers, HasImage(r), tags'[RunTag[r]] # None
               PROVE  imageTags'[RunTag[r]] # None /\ imageLatest' # None
    BY <1>3 DEF ArtifactNeedsImage, HasImage
  <2>1. r \in Runs /\ RunTag[r] \in Tags
    OBVIOUS
  <2>2. CASE tags[RunTag[r]] # None
    BY <1>1, <1>2, <2>1, <2>2 DEF ArtifactNeedsImage
  <2>3. CASE tags[RunTag[r]] = None
    <3>1. PICK s \in Runs : PushManifest(s) /\ RunTag[s] = RunTag[r]
      BY <1>1, <2>1, <2>3, PublishingIsPush
    <3>2. s \in Movers /\ RunCommit[s] = RunCommit[r]
      BY <3>1
    <3>3. s \in GraphRuns /\ HasImage(s)
      BY <3>2 DEF HasImage
    <3>4. pc[s] = "push" /\ s \notin ImageDryRuns
      BY <1>1, <3>1 DEF PushManifest, ScriptInv
    <3>5. imageTags[RunTag[s]] # None /\ imageLatest # None
      BY <3>3, <3>4 DEF GraphInv, ImageInv
    <3> QED BY <1>2, <2>1, <3>1, <3>5
  <2> QED BY <2>2, <2>3
<1>5. PageIsPublished'
  <2>1. CASE UNCHANGED page
    BY <1>1, <1>2, <1>3, <2>1 DEF PageIsPublished
  <2>2. ASSUME NEW r \in Runs, WriteOverview(r) PROVE PageIsPublished'
    <3>1. overview[r] = "write" /\ page' = RunCommit[r]
      BY <2>2 DEF WriteOverview
    <3>2. /\ Event[r] \notin {"pull_request", "release"}
          /\ world.credential /\ world.public
          /\ \E t \in Tags : tags[t] # None
      BY <3>1 DEF GraphInv, OverviewInv
    <3> QED BY <1>2, <1>3, <3>1, <3>2 DEF PageIsPublished
  <2>3. UNCHANGED page \/ \E r \in Runs : WriteOverview(r)
    BY DEF GraphNext, Jobs, OverviewStep, StartOverview, GateOverview, FailOverview,
           Cancel, Rerun, pageVars, graphVars
  <2> QED BY <2>1, <2>2, <2>3
<1> QED BY <1>4, <1>5 DEF JobsFollowTheirInputs

LEMMA GraphInvariance == GraphSpec => []GraphInv
<1>1. GraphInv /\ [GraphNext]_graphVars => GraphInv'
  <2> SUFFICES ASSUME GraphInv, [GraphNext]_graphVars PROVE GraphInv'
    OBVIOUS
  <2>1. TypeOK' /\ SignHasDigest'
    BY TypeGraphStep DEF GraphInv, TagInv
  <2>2. TagInv'
    BY <2>1, TagGraphStep DEF GraphInv
  <2>3. RaceInv'
    BY RaceGraphStep DEF GraphInv, TagInv
  <2>4. JobTypes'
    BY JobTypesStep DEF GraphInv
  <2> QED BY <2>1, <2>2, <2>3, <2>4, ImageInvStep, OverviewInvStep, InputsStep DEF GraphInv
<1> QED BY <1>1, GraphInvInit, PTL DEF GraphSpec

(* Every job's state, every tag and the page keep their types.             *)
THEOREM GraphTypeCorrect == GraphSpec => []GraphTypeOK
<1>1. GraphInv => GraphTypeOK
  BY DEF GraphInv, TagInv, JobTypes, GraphTypeOK
<1> QED BY <1>1, GraphInvariance, PTL

(* publish-one-kit.yml: a kit is never published over an image that was    *)
(* not, and the Hub page is written neither from a pull request's commit   *)
(* nor a release's, and not before the repository is public and has a tag: *)
(* whatever runs overlap, fail, are cancelled and are re-run.              *)
THEOREM InputsComeFirst == GraphSpec => []JobsFollowTheirInputs
<1>1. GraphInv => JobsFollowTheirInputs
  BY DEF GraphInv
<1> QED BY <1>1, GraphInvariance, PTL

(* Also under the graph, whose runs can be cancelled and set back as a     *)
(* whole, a published tag is overwritten only by a run that was answered   *)
(* "not published yet" before another run's push landed.                   *)
THEOREM GraphOverwritesAreRaces == GraphSpec => OverwriteNeedsRace
<1>1. GraphInv /\ [GraphNext]_graphVars =>
         [\A t \in Tags : tags[t] # None /\ tags'[t] # tags[t] =>
             \E r \in overtaken : RunTag[r] = t /\ pc[r] = "push"]_vars
  <2> SUFFICES ASSUME GraphInv, [GraphNext]_graphVars,
                      NEW t \in Tags, tags[t] # None, tags'[t] # tags[t]
               PROVE  \E r \in overtaken : RunTag[r] = t /\ pc[r] = "push"
    OBVIOUS
  <2>1. PICK r \in Runs : PushManifest(r) /\ RunTag[r] = t
    BY PublishingIsPush DEF GraphInv, TagInv
  <2>2. pc[r] = "push"
    BY <2>1 DEF PushManifest
  <2> QED BY <2>1, <2>2 DEF GraphInv, RaceInv
<1> QED BY <1>1, GraphInvariance, PTL DEF GraphSpec, OverwriteNeedsRace
=============================================================================
