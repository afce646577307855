--------------------------- MODULE MCE2EHarness ---------------------------
(***************************************************************************)
(* A small instance of E2EHarness: a kit whose name, like claude, is a     *)
(* prefix of another's, like claude-acp.  The first takes every branch of  *)
(* the harness (Dockerfile, collision and retry, wait, prompt), the other  *)
(* the short way.                                                          *)
(***************************************************************************)
EXTENDS E2EHarness

CONSTANTS claude, acp

PrefixOf == [k \in Kits |-> IF k = claude THEN Kits ELSE {k}]

Default   == [baseline |-> TRUE, load |-> TRUE, pull |-> "unset"]
Published == [baseline |-> FALSE, load |-> FALSE, pull |-> "always"]
BothOptions == {Default, Published}
=============================================================================
