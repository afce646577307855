-------------------------- MODULE MCPublishOneKit --------------------------
(***************************************************************************)
(* A small instance of PublishOneKit.  Commit 2, the tip of main, is built *)
(* by its push: beside a dispatch of the same day, which computes the same *)
(* dated tag; beside a pull request for commit 3 and the release of commit *)
(* 1, or that pull request and a README edit.  Without the Hub credentials *)
(* or in a private repository, the push and a README edit are enough.      *)
(***************************************************************************)
EXTENDS PublishOneKit

CONSTANTS push2, again2, release, pr, docs2, d1, d2, i1

TagOf == [r \in Runs |->
            CASE r \in {push2, again2} -> "20260812-2"
              [] r = pr                -> "20260812-3"
              [] r = release           -> "v1.0.0"
              [] OTHER                 -> "unused"]
CommitOf == [r \in Runs |->
               IF r = release THEN 1 ELSE IF r = pr THEN 3 ELSE 2]
AllTags == {TagOf[r] : r \in Runs}

EventOf == [r \in Runs |->
              CASE r = push2   -> "push"
                [] r = again2  -> "dispatch"
                [] r = release -> "release"
                [] r = pr      -> "pull_request"
                [] r = docs2   -> "docs"]

World(runs, credential, public) ==
    [dockerfiles : {{2, 3}, {}}, triggered : {runs},
     credential : {credential}, public : {public}]
SomeWorlds ==
    World({push2, again2}, TRUE, TRUE)
    \cup World({push2, release, pr}, TRUE, TRUE)
    \cup World({push2, docs2, pr}, TRUE, TRUE)
    \cup World({push2, docs2}, FALSE, TRUE)
    \cup World({push2, docs2}, TRUE, FALSE)
=============================================================================
