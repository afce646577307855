------------------------- MODULE MCOpenClawGateway -------------------------
(***************************************************************************)
(* A startup command and a terminal, over two starts of the container.     *)
(***************************************************************************)
EXTENDS OpenClawGateway
CONSTANTS startup, terminal
=============================================================================
