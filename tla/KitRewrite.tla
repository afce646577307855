---------------------------- MODULE KitRewrite -----------------------------
(***************************************************************************)
(* What the migrator promises of a kit's spec file and its backup, with    *)
(* every write one step: the file is replaced only when the backup holds   *)
(* what it replaces, a backup is never replaced, and so what the author    *)
(* wrote is in one of the two until the author has taken the new text.     *)
(***************************************************************************)
CONSTANTS Texts, None

VARIABLES
    current,   \* the text of the spec file
    saved,     \* the backup, or None
    authored   \* the text the author stands by

Init == current \in Texts /\ saved = None /\ authored = current

(* The migrator backs the file up, then replaces it.                       *)
Save == saved = None /\ saved' = current /\ UNCHANGED <<current, authored>>
Replace ==
    /\ saved = current /\ authored = current
    /\ current' \in Texts
    /\ UNCHANGED <<saved, authored>>

(* The author edits the file: his own text, or the migrator's.             *)
Edit ==
    /\ current' \in Texts
    /\ authored' = IF current = authored THEN current' ELSE authored
    /\ UNCHANGED saved

(* The author takes the file as it is, or goes back to the backup.         *)
Accept == saved # None /\ saved' = None /\ authored' = current /\ UNCHANGED current
GoBack == saved # None /\ saved' = None /\ authored' = saved /\ current' = saved

Next == Save \/ Replace \/ Edit \/ Accept \/ GoBack
Rewriting == Init /\ [][Next]_<<current, saved, authored>>
=============================================================================
