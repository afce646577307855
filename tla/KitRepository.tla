--------------------------- MODULE KitRepository ---------------------------
(***************************************************************************)
(* What PUBLISHING.md promises a consumer of one kit's OCI repository,     *)
(* docker.io/sbx/<kit>-kit, with every detail of how a workflow run gets   *)
(* there left out: a published tag is write-once, and the rolling tag only *)
(* ever names a manifest that an immutable tag names too.                  *)
(*                                                                         *)
(* PublishArtifact implements this specification when the registry itself  *)
(* refuses to overwrite a tag, and does not when it does not: see the      *)
(* README.                                                                 *)
(***************************************************************************)
CONSTANTS Tags,      \* immutable tags: <YYYYMMDD>-<sha> and vX.Y.Z
          Digests,   \* manifest digests
          None       \* "this tag names nothing"

VARIABLES tags,      \* what each immutable tag resolves to
          latest     \* what the rolling tag resolves to

vars == <<tags, latest>>

Init == /\ tags = [t \in Tags |-> None]
        /\ latest = None

(* A tag that named nothing is published.                                  *)
PublishTag(t, d) ==
    /\ tags[t] = None
    /\ tags' = [tags EXCEPT ![t] = d]
    /\ UNCHANGED latest

(* The rolling tag is re-pointed at the manifest an immutable tag names.   *)
MoveLatest(t) ==
    /\ tags[t] # None
    /\ latest' = tags[t]
    /\ UNCHANGED tags

Next == \E t \in Tags : \/ \E d \in Digests : PublishTag(t, d)
                        \/ MoveLatest(t)

Spec == Init /\ [][Next]_vars
=============================================================================
