------------------------- MODULE MCPublishArtifact -------------------------
(***************************************************************************)
(* A small instance of PublishArtifact.  Commit 2 is the tip of main and   *)
(* was built twice today, by the push and by a workflow_dispatch; commit 1 *)
(* was built by its own push and released as v1; commit 3, broken, is on a *)
(* pull request.                                                           *)
(***************************************************************************)
EXTENDS PublishArtifact, TLC

CONSTANTS push1, push2, again2, release, pr, d1, d2, d3, d4

Runs3    == {push1, push2, again2}
Symmetry == Permutations(Digests)

TagOf == [r \in Runs |->
            CASE r = push1            -> "20260811-1"
              [] r \in {push2, again2} -> "20260812-2"
              [] r = release          -> "v1.0.0"
              [] r = pr               -> "20260812-3"]
CommitOf == [r \in Runs |->
               CASE r \in {push1, release} -> 1
                 [] r \in {push2, again2}  -> 2
                 [] r = pr                 -> 3]
AllTags == {TagOf[r] : r \in Runs}
=============================================================================
