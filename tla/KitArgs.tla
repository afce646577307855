------------------------------ MODULE KitArgs ------------------------------
(***************************************************************************)
(* Kit arguments, tck/args.go: what `${{ kit.args.<name> }}` is replaced   *)
(* by, and what in a text counts as such a reference.                      *)
(*                                                                         *)
(* A text is a sequence of tokens: the opener ${{, the closer }}, a dollar *)
(* that opens nothing, the namespace, names, line ends and other words.    *)
(* White space inside a reference is not kept, nor what a word says.       *)
(***************************************************************************)
EXTENDS Naturals, Sequences, SequencesExt

CONSTANTS ArgNames, None

Open == "${{"
Close == "}}"
Dollar == "$"
Namespace == "kit.args."
Newline == "\n"
Tokens == {Open, Close, Dollar, Namespace, Newline, "word", "name", "args"} \cup ArgNames
Text == Seq(Tokens)

(* spec.ValidArgName: letters, digits, underscores and hyphens.            *)
ASSUME ArgNamesAreNames == ArgNames \cap {Open, Close, Dollar, Namespace, Newline} = {}

(* A declaration's default and the values its enum and pattern accept.     *)
Declares(decls) ==
    \A n \in DOMAIN decls : decls[n].default # None => decls[n].default \in decls[n].accepts

(* resolveKitArgs: testdata/tck.yaml may set what is declared, to a value  *)
(* the declaration accepts; what it leaves out needs a default.            *)
Resolvable(decls, supplied) ==
    /\ Declares(decls)
    /\ DOMAIN supplied \subseteq DOMAIN decls
    /\ \A n \in DOMAIN decls :
          IF n \in DOMAIN supplied THEN supplied[n] \in decls[n].accepts
                                   ELSE decls[n].default # None

resolveKitArgs(decls, supplied) ==
    [n \in DOMAIN decls |->
        IF n \in DOMAIN supplied THEN supplied[n] ELSE decls[n].default]
-----------------------------------------------------------------------------
(* scanArgs reads from left to right, one round of its loop after the      *)
(* other.  What a round returns: the text it writes, the names it refers   *)
(* to, and where the next round starts; nothing when it returns an error.  *)
IndexFrom(s, i, token) ==
    LET found == {j \in i .. Len(s) : s[j] = token}
    IN IF found = {} THEN Len(s) + 1 ELSE CHOOSE j \in found : \A k \in found : j <= k

opensArgNamespace(s, i) == i <= Len(s) /\ s[i] = Namespace

Wrote(out, refs, ok, then) == [out |-> out, refs |-> refs, ok |-> ok, then |-> then]
Malformed == Wrote(<<>>, {}, FALSE, 0)

Round(s, values, i) ==
    LET j == IndexFrom(s, i, Open)
        end == IndexFrom(s, j + 1, Close)
    IN IF j > Len(s) THEN Wrote(SubSeq(s, i, Len(s)), {}, TRUE, Len(s) + 1)
       ELSE IF j > i /\ s[j - 1] = Dollar
       THEN Wrote(SubSeq(s, i, j - 2) \o <<Open>>, {}, TRUE, j + 1)
       ELSE IF ~opensArgNamespace(s, j + 1) THEN Wrote(SubSeq(s, i, j), {}, TRUE, j + 1)
       ELSE IF end # j + 3 \/ end > Len(s) \/ s[j + 2] \notin ArgNames
       THEN Malformed    \* or unterminated
       ELSE Wrote(SubSeq(s, i, j - 1)
                    \o IF s[j + 2] \in DOMAIN values THEN values[s[j + 2]] ELSE SubSeq(s, j, end),
                  {s[j + 2]}, TRUE, end + 1)

Scanned(out, refs, ok) == [out |-> out, refs |-> refs, ok |-> ok]
After(round, rest) ==
    IF round.ok THEN Scanned(round.out \o rest.out, round.refs \cup rest.refs, rest.ok)
                ELSE Scanned(<<>>, {}, FALSE)

scanArgs(s, values) ==
    LET scan[i \in 1 .. Len(s) + 1] ==
            IF i = Len(s) + 1 THEN Scanned(<<>>, {}, TRUE)
            ELSE After(Round(s, values, i), scan[Round(s, values, i).then])
    IN scan[1]

(* A text is refused, too, for the names nobody declares.                  *)
Refused(s, values) ==
    LET scanned == scanArgs(s, values)
    IN ~scanned.ok \/ ~(scanned.refs \subseteq DOMAIN values)
-----------------------------------------------------------------------------
(* The spec file is a sequence of keys and scalars, or aliases of scalars. *)
(* A key may not name an argument, escaped or not; what is under the       *)
(* top-level args is left.                                                 *)
Documents == Seq([key : Text, value : Text, alias : BOOLEAN])
ArgsKey == <<"args">>
NameKey == <<"name">>
opensArgRef(s) == \E j \in DOMAIN s : s[j] = Open /\ opensArgNamespace(s, j + 1)

expandSpecDocument(doc, values) ==
    [i \in DOMAIN doc |->
        IF doc[i].key = ArgsKey THEN doc[i]
        ELSE [doc[i] EXCEPT !.value = scanArgs(@, values).out]]

RefusedSpec(doc, values) ==
    \E i \in DOMAIN doc :
        \/ opensArgRef(doc[i].key)
        \/ doc[i].key # ArgsKey /\ Refused(doc[i].value, values)

(* renamedSpec: the first name key of the document, a scalar, is renamed.  *)
Renamable(doc) ==
    LET named == SelectInSeq(doc, LAMBDA entry : entry.key = NameKey)
    IN named # 0 /\ ~doc[named].alias
renamedSpec(doc, name) ==
    [doc EXCEPT ![SelectInSeq(doc, LAMBDA entry : entry.key = NameKey)].value = name]
-----------------------------------------------------------------------------
(* What the documentation says of it, position by position: an opener is   *)
(* one unless a dollar is before it, four tokens in a row are a reference, *)
(* and nothing else changes but the dollars that escape.                   *)
IsOpener(s, p) == s[p] = Open /\ (p = 1 \/ s[p - 1] # Dollar) /\ opensArgNamespace(s, p + 1)
IsReference(s, p) ==
    /\ p \in DOMAIN s /\ IsOpener(s, p) /\ p + 3 <= Len(s)
    /\ s[p + 2] \in ArgNames /\ s[p + 3] = Close

Legal(s, values) ==
    \A p \in DOMAIN s : IsOpener(s, p) => IsReference(s, p) /\ s[p + 2] \in DOMAIN values

Substituted(s, values) ==
    FlattenSeq([p \in DOMAIN s |->
        CASE IsReference(s, p)                                    -> values[s[p + 2]]
          [] \E q \in 1 .. p - 1 : p <= q + 3 /\ IsReference(s, q) -> <<>>
          [] s[p] = Dollar /\ p < Len(s) /\ s[p + 1] = Open       -> <<>>
          [] OTHER                                                -> <<s[p]>>])
=============================================================================
