--------------------------- MODULE KitArgs_proofs ---------------------------
(***************************************************************************)
(* What the scanner of kit arguments does to every text, whatever its      *)
(* length: it refuses exactly the texts that are not legal, and of the     *)
(* others it gives what the documentation says, position by position.      *)
(***************************************************************************)
EXTENDS KitArgs, DataLemmas

-----------------------------------------------------------------------------
(* scanArgs and FlattenSeq are recursive functions.  Each is shown to      *)
(* exist, so that it is what its equation says.                            *)

Following(rounds, scan, i) ==
    IF i = Len(rounds) + 1 THEN Scanned(<<>>, {}, TRUE)
    ELSE After(rounds[i], scan[rounds[i].then])

LEMMA ScannedFields ==
    ASSUME NEW out, NEW refs, NEW ok, NEW all, all = Scanned(out, refs, ok)
    PROVE  all.out = out /\ all.refs = refs /\ all.ok = ok
BY DEF Scanned

LEMMA AfterRound ==
    ASSUME NEW round, NEW rest, NEW all, all = After(round, rest), round.ok
    PROVE  /\ all.out = round.out \o rest.out
           /\ all.refs = round.refs \cup rest.refs
<1> DEFINE x == round.out \o rest.out
           y == round.refs \cup rest.refs
<1>1. all = Scanned(x, y, rest.ok)
  BY Zenon DEF After
<1> HIDE DEF x, y
<1>2. all.out = x /\ all.refs = y
  BY <1>1, ScannedFields
<1> QED
  BY <1>2 DEF x, y

LEMMA AfterRoundOk ==
    ASSUME NEW round, NEW rest, NEW all, all = After(round, rest), round.ok
    PROVE  all.ok = rest.ok
<1>1. all = Scanned(round.out \o rest.out, round.refs \cup rest.refs, rest.ok)
  BY Zenon DEF After
<1> QED
  BY <1>1, ScannedFields

LEMMA AfterError ==
    ASSUME NEW round, NEW rest, NEW all, all = After(round, rest), ~round.ok
    PROVE  all.out = <<>> /\ all.ok = FALSE
<1>1. all = Scanned(<<>>, {}, FALSE)
  BY Zenon DEF After
<1>2. all.out = <<>>
  BY <1>1 DEF Scanned
<1>3. all.ok = FALSE
  BY <1>1 DEF Scanned
<1> QED
  BY <1>2, <1>3, Zenon

LEMMA ScanExists ==
    ASSUME NEW T, NEW rounds \in Seq(T),
           \A i \in 1 .. Len(rounds) : rounds[i].ok => rounds[i].then \in i + 1 .. Len(rounds) + 1
    PROVE  \E scan : scan = [i \in 1 .. Len(rounds) + 1 |-> Following(rounds, scan, i)]
<1> DEFINE n == Len(rounds)
           Until(g, m) == /\ g = [i \in 1 .. n + 1 |-> g[i]]
                          /\ \A i \in 1 .. n + 1 : i >= m => g[i] = Following(rounds, g, i)
           S == {k \in Nat : k <= n => \E g : Until(g, n + 1 - k)}
<1>0. n \in Nat
  OBVIOUS
<1>1. 0 \in S
  <2> DEFINE g == [i \in 1 .. n + 1 |-> Scanned(<<>>, {}, TRUE)]
  <2>1. \A i \in 1 .. n + 1 : i >= n + 1 => g[i] = Following(rounds, g, i)
    <3> SUFFICES ASSUME NEW i \in 1 .. n + 1, i >= n + 1 PROVE g[i] = Following(rounds, g, i)
      OBVIOUS
    <3>1. i = n + 1 /\ g[i] = Scanned(<<>>, {}, TRUE)
      BY <1>0
    <3> HIDE DEF g
    <3> QED
      BY <3>1 DEF Following
  <2>3. Until(g, n + 1)
    <3>1. g = [i \in 1 .. n + 1 |-> g[i]]
      OBVIOUS
    <3> HIDE DEF g
    <3> QED BY <2>1, <3>1
  <2>2. n + 1 - 0 = n + 1
    BY <1>0
  <2> HIDE DEF g, Until
  <2> QED
    BY <2>3, <2>2
<1>2. ASSUME NEW k \in Nat, k \in S
      PROVE  k + 1 \in S
  <2> SUFFICES ASSUME k + 1 <= n PROVE \E g : Until(g, n + 1 - (k + 1))
    BY <1>2
  <2>1. PICK g : Until(g, n + 1 - k)
    BY <1>0, <1>2
  <2> DEFINE m == n - k
             h == [g EXCEPT ![m] = Following(rounds, g, m)]
  <2>2. m \in 1 .. n /\ n + 1 - k = m + 1 /\ n + 1 - (k + 1) = m
    BY <1>0
  <2> HIDE DEF m
  <2>3. h = [i \in 1 .. n + 1 |-> h[i]] /\ h[m] = Following(rounds, g, m)
        /\ \A i \in 1 .. n + 1 : i # m => h[i] = g[i]
    <3> DEFINE v == Following(rounds, g, m)
    <3> HIDE DEF v
    <3>1. g = [i \in 1 .. n + 1 |-> g[i]] /\ m \in 1 .. n + 1
      BY <2>1, <2>2, <1>0
    <3>2. h = [g EXCEPT ![m] = v]
      BY DEF v
    <3> HIDE DEF h, n
    <3>3. h = [i \in 1 .. n + 1 |-> IF i = m THEN v ELSE g[i]]
      BY <3>1, <3>2
    <3> QED
      BY <3>1, <3>3 DEF v
  <2> HIDE DEF h
  <2>4. \A i \in 1 .. n + 1 : i >= m => Following(rounds, h, i) = Following(rounds, g, i)
    <3> SUFFICES ASSUME NEW i \in 1 .. n + 1, i >= m
                 PROVE  Following(rounds, h, i) = Following(rounds, g, i)
      OBVIOUS
    <3>1. CASE i = n + 1
      BY <3>1 DEF Following
    <3>2. CASE i # n + 1 /\ ~rounds[i].ok
      BY <3>2 DEF Following, After
    <3>3. CASE i # n + 1 /\ rounds[i].ok
      <4>1. rounds[i].then \in i + 1 .. n + 1
        BY <3>3, <1>0
      <4>2. rounds[i].then \in 1 .. n + 1 /\ rounds[i].then # m
        BY <4>1, <1>0, <2>2
      <4>3. h[rounds[i].then] = g[rounds[i].then]
        BY <4>2, <2>3
      <4> QED
        BY <4>3 DEF Following
    <3> QED
      BY <3>1, <3>2, <3>3
  <2>5. ASSUME NEW i \in 1 .. n + 1, i >= m
        PROVE  h[i] = Following(rounds, h, i)
    <3>1. CASE i = m
      BY <3>1, <2>3, <2>4, <2>2
    <3>2. CASE i # m
      <4>1. i >= m + 1
        BY <3>2, <2>5, <2>2
      <4>2. g[i] = Following(rounds, g, i)
        BY <4>1, <2>1, <2>2
      <4> QED
        BY <4>2, <3>2, <2>3, <2>4, <2>5
    <3> QED
      BY <3>1, <3>2
  <2>6. Until(h, m)
    BY <2>3, <2>5
  <2> HIDE DEF Until
  <2> QED
    BY <2>6, <2>2
<1>3. n \in S
  <2> HIDE DEF S
  <2> QED BY <1>0, <1>1, <1>2, InductiveSet
<1>4. PICK g : Until(g, n + 1 - n)
  BY <1>3
<1>5. g = [i \in 1 .. n + 1 |-> Following(rounds, g, i)]
  <2>1. \A i \in 1 .. n + 1 : g[i] = Following(rounds, g, i)
    BY <1>4, <1>0
  <2>2. g = [i \in 1 .. n + 1 |-> g[i]]
    BY <1>4
  <2> HIDE DEF n
  <2> QED
    BY <2>1, <2>2, Zenon
<1> QED
  BY <1>5

LEMMA FlattenExists ==
    ASSUME NEW T, NEW q \in Seq(Seq(T)), Len(q) # 0
    PROVE  \E flat : flat = [i \in 1 .. Len(q) |-> IF i = 1 THEN q[i] ELSE flat[i - 1] \o q[i]]
<1> DEFINE n == Len(q)
           F(g, i) == IF i = 1 THEN q[i] ELSE g[i - 1] \o q[i]
           Until(g, m) == g = [i \in 1 .. n |-> g[i]] /\ \A i \in 1 .. n : i <= m => g[i] = F(g, i)
           S == {k \in Nat : k <= n => \E g : Until(g, k)}
<1>0. n \in Nat
  OBVIOUS
<1>1. 0 \in S
  <2> DEFINE g == [i \in 1 .. n |-> <<>>]
  <2>1. Until(g, 0)
    <3>1. g = [i \in 1 .. n |-> g[i]]
      OBVIOUS
    <3> HIDE DEF F, g
    <3> QED BY <1>0, <3>1
  <2> HIDE DEF g, Until
  <2> QED
    BY <2>1
<1>2. ASSUME NEW k \in Nat, k \in S
      PROVE  k + 1 \in S
  <2> SUFFICES ASSUME k + 1 <= n PROVE \E g : Until(g, k + 1)
    BY <1>2
  <2>1. PICK g : Until(g, k)
    BY <1>0, <1>2
  <2> DEFINE h == [g EXCEPT ![k + 1] = F(g, k + 1)]
  <2>2. k + 1 \in 1 .. n
    BY <1>0
  <2>3. h = [i \in 1 .. n |-> h[i]] /\ h[k + 1] = F(g, k + 1) /\ \A i \in 1 .. n : i # k + 1 => h[i] = g[i]
    BY <2>1, <2>2
  <2> HIDE DEF h
  <2>4. ASSUME NEW i \in 1 .. n, i <= k + 1
        PROVE  h[i] = F(h, i)
    <3>1. F(h, i) = F(g, i)
      <4>1. CASE i = 1
        BY <4>1
      <4>2. CASE i # 1
        <5>1. i - 1 \in 1 .. n /\ i - 1 # k + 1
          BY <4>2, <2>4
        <5> QED
          BY <5>1, <2>3
      <4> QED
        BY <4>1, <4>2
    <3> HIDE DEF F
    <3>2. CASE i = k + 1
      BY <3>1, <3>2, <2>3
    <3>3. CASE i # k + 1
      <4>1. i <= k
        BY <3>3, <2>4
      <4> QED
        BY <4>1, <3>1, <3>3, <2>1, <2>3
    <3> QED
      BY <3>2, <3>3
  <2>5. Until(h, k + 1)
    BY <2>3, <2>4
  <2> HIDE DEF Until
  <2> QED
    BY <2>5
<1>3. n \in S
  <2> HIDE DEF S
  <2> QED BY <1>0, <1>1, <1>2, InductiveSet
<1>4. PICK g : Until(g, n)
  BY <1>3, <1>0
<1>5. g = [i \in 1 .. n |-> F(g, i)]
  <2> HIDE DEF F
  <2>1. \A i \in 1 .. n : g[i] = F(g, i)
    BY <1>4, <1>0
  <2> HIDE DEF n
  <2> QED
    BY <2>1, <1>4, Zenon
<1> QED
  BY <1>5

(* What FlattenSeq gives is put together piece by piece.                   *)
LEMMA FlattenPieces ==
    ASSUME NEW T, NEW q \in Seq(Seq(T))
    PROVE  \E flat \in [0 .. Len(q) -> Seq(T)] :
              /\ flat[0] = <<>>
              /\ \A i \in 1 .. Len(q) : flat[i] = flat[i - 1] \o q[i]
              /\ FlattenSeq(q) = flat[Len(q)]
<1> DEFINE n == Len(q)
<1>0. n \in Nat /\ \A i \in 1 .. n : q[i] \in Seq(T)
  OBVIOUS
<1>1. CASE n = 0
  <2> DEFINE flat == [i \in 0 .. n |-> <<>>]
  <2>1. q = <<>>
    BY <1>1, EmptySeq
  <2>2. FlattenSeq(q) = <<>>
    BY <2>1, <1>1 DEF FlattenSeq
  <2>3. flat \in [0 .. n -> Seq(T)] /\ flat[0] = <<>> /\ flat[n] = <<>>
    BY <1>1
  <2>4. \A i \in 1 .. n : flat[i] = flat[i - 1] \o q[i]
    BY <1>1
  <2> HIDE DEF flat
  <2> QED
    BY <2>2, <2>3, <2>4
<1>2. CASE n # 0
  <2> DEFINE Is(f) == f = [i \in 1 .. n |-> IF i = 1 THEN q[i] ELSE f[i - 1] \o q[i]]
             g == CHOOSE f : Is(f)
  <2>1. Is(g)
    BY <1>2, FlattenExists
  <2>2. FlattenSeq(q) = g[n]
    BY <1>2 DEF FlattenSeq
  <2> HIDE DEF g
  <2>3. g[1] = q[1] /\ \A i \in 2 .. n : g[i] = g[i - 1] \o q[i]
    <3> DEFINE F(i) == IF i = 1 THEN q[i] ELSE g[i - 1] \o q[i]
    <3>1. \A i \in 1 .. n : g[i] = F(i)
      <4>1. g = [i \in 1 .. n |-> F(i)]
        BY <2>1
      <4> HIDE DEF F, n
      <4> QED BY <4>1, Zenon
    <3>2. 1 \in 1 .. n /\ \A i \in 2 .. n : i \in 1 .. n /\ i # 1
      BY <1>0, <1>2
    <3> HIDE DEF n
    <3> QED BY <3>1, <3>2
  <2> DEFINE S == {k \in Nat : k + 1 <= n => g[k + 1] \in Seq(T)}
  <2>4. 0 \in S
    BY <2>3, <1>0, <1>2
  <2>5. \A k \in Nat : k \in S => k + 1 \in S
    <3> SUFFICES ASSUME NEW k \in Nat, k \in S, k + 2 <= n PROVE g[k + 2] \in Seq(T)
      OBVIOUS
    <3>1. g[k + 2] = g[k + 1] \o q[k + 2]
      <4>1. k + 2 \in 2 .. n /\ (k + 2) - 1 = k + 1
        BY <1>0
      <4> HIDE DEF n
      <4> QED BY <2>3, <4>1
    <3>2. g[k + 1] \in Seq(T) /\ q[k + 2] \in Seq(T)
      BY <1>0
    <3> QED
      BY <3>1, <3>2, ConcatProperties
  <2>6. Nat \subseteq S
    <3> HIDE DEF S
    <3> QED BY <2>4, <2>5, InductiveSet
  <2>7. ASSUME NEW i \in 1 .. n PROVE g[i] \in Seq(T)
    <3>1. i - 1 \in Nat /\ (i - 1) + 1 = i /\ i <= n
      BY <1>0
    <3>2. i - 1 \in S
      <4> HIDE DEF S
      <4> QED BY <2>6, <3>1
    <3> HIDE DEF n
    <3> QED
      BY <3>1, <3>2
  <2> DEFINE flat == [i \in 0 .. n |-> IF i = 0 THEN <<>> ELSE g[i]]
  <2>8. flat \in [0 .. n -> Seq(T)]
    BY <2>7, <1>0
  <2>9. flat[0] = <<>> /\ flat[n] = g[n]
    BY <1>0, <1>2
  <2>10. \A i \in 1 .. n : flat[i] = flat[i - 1] \o q[i]
    <3> SUFFICES ASSUME NEW i \in 1 .. n PROVE flat[i] = flat[i - 1] \o q[i]
      OBVIOUS
    <3>1. CASE i = 1
      <4>1. flat[i] = q[1] /\ flat[i - 1] = <<>> /\ q[i] = q[1]
        BY <3>1, <2>3, <1>0
      <4>2. q[1] \in Seq(T)
        BY <1>0, <1>2
      <4> HIDE DEF flat
      <4> QED
        BY <4>1, <4>2, ConcatEmptySeq
    <3>2. CASE i # 1
      <4>1. i \in 2 .. n
        BY <3>2, <1>0
      <4>2. flat[i] = g[i] /\ flat[i - 1] = g[i - 1]
        BY <4>1, <1>0
      <4> HIDE DEF flat
      <4> QED
        BY <4>1, <4>2, <2>3
    <3> QED
      BY <3>1, <3>2
  <2> HIDE DEF flat
  <2> QED
    BY <2>2, <2>8, <2>9, <2>10
<1> QED
  BY <1>1, <1>2

-----------------------------------------------------------------------------
(* One round.                                                              *)

LEMMA IndexFromSpec ==
    ASSUME NEW T, NEW s \in Seq(T), NEW i \in Nat \ {0}, NEW token
    PROVE  LET j == IndexFrom(s, i, token)
           IN \/ j = Len(s) + 1 /\ \A k \in i .. Len(s) : s[k] # token
              \/ j \in i .. Len(s) /\ s[j] = token /\ \A k \in i .. j - 1 : s[k] # token
<1> DEFINE found == {j \in i .. Len(s) : s[j] = token}
           j == IndexFrom(s, i, token)
<1>0. Len(s) \in Nat
  OBVIOUS
<1>1. CASE found = {}
  <2>1. j = Len(s) + 1
    BY <1>1 DEF IndexFrom
  <2>2. \A k \in i .. Len(s) : s[k] # token
    BY <1>1
  <2> QED
    BY <2>1, <2>2
<1>2. CASE found # {}
  <2>1. found \in SUBSET Nat
    BY <1>0
  <2>2. \E m \in found : \A k \in found : m <= k
    <3> HIDE DEF found
    <3> QED BY <1>2, <2>1, Least
  <2>3. j = CHOOSE m \in found : \A k \in found : m <= k
    BY <1>2 DEF IndexFrom
  <2>4. j \in found /\ \A k \in found : j <= k
    <3> HIDE DEF found, j
    <3> QED BY <2>2, <2>3
  <2>5. \A k \in i .. j - 1 : s[k] # token
    <3> HIDE DEF j
    <3> QED BY <2>4, <1>0
  <2> QED
    BY <2>4, <2>5
<1> QED
  BY <1>1, <1>2

(* What a reference is, once it was opened.                                *)
Closed(s, j) == j + 3 <= Len(s) /\ s[j + 2] \in ArgNames /\ s[j + 3] = Close
Escaped(s, i, j) == j > i /\ s[j - 1] = Dollar
Value(s, values, j) ==
    IF s[j + 2] \in DOMAIN values THEN values[s[j + 2]] ELSE SubSeq(s, j, j + 3)

LEMMA CloserFound ==
    ASSUME NEW s \in Text, NEW j \in 1 .. Len(s), opensArgNamespace(s, j + 1)
    PROVE  LET end == IndexFrom(s, j + 1, Close)
           IN (end = j + 3 /\ end <= Len(s) /\ s[j + 2] \in ArgNames) <=> Closed(s, j)
<1> DEFINE end == IndexFrom(s, j + 1, Close)
<1>0. Len(s) \in Nat /\ s \in Seq(Tokens) /\ j + 1 \in Nat \ {0}
  BY DEF Text
<1>1. \/ end = Len(s) + 1 /\ \A k \in j + 1 .. Len(s) : s[k] # Close
      \/ end \in j + 1 .. Len(s) /\ s[end] = Close /\ \A k \in j + 1 .. end - 1 : s[k] # Close
  <2> HIDE DEF end
  <2> QED BY <1>0, IndexFromSpec DEF end
<1>2. s[j + 1] # Close
  BY DEF opensArgNamespace, Namespace, Close
<1> HIDE DEF end
<1>3. ASSUME end = j + 3, end <= Len(s), s[j + 2] \in ArgNames
      PROVE  Closed(s, j)
  BY <1>0, <1>1, <1>3 DEF Closed
<1>4. ASSUME Closed(s, j)
      PROVE  end = j + 3 /\ end <= Len(s) /\ s[j + 2] \in ArgNames
  <2>1. s[j + 2] # Close
    BY <1>4, ArgNamesAreNames DEF Closed
  <2>2. j + 3 \in j + 1 .. Len(s) /\ s[j + 3] = Close
    BY <1>0, <1>4 DEF Closed
  <2>3. end \in j + 1 .. Len(s) /\ s[end] = Close /\ \A k \in j + 1 .. end - 1 : s[k] # Close
    BY <1>1, <2>2
  <2>4. end # j + 1 /\ end # j + 2
    BY <1>2, <2>1, <2>3
  <2>5. ~(j + 3 \in j + 1 .. end - 1)
    BY <2>2, <2>3
  <2>6. end = j + 3
    BY <2>3, <2>4, <2>5, <1>0
  <2> QED
    BY <2>6, <1>4, <1>0 DEF Closed
<1> QED
  BY <1>3, <1>4 DEF end

(* A round goes to the next opener and does one of five things.            *)
NoOpener(s, i, j, r) ==
    j = Len(s) + 1 /\ r = Wrote(SubSeq(s, i, Len(s)), {}, TRUE, Len(s) + 1)
Escapes(s, i, j, r) ==
    Escaped(s, i, j) /\ r = Wrote(SubSeq(s, i, j - 2) \o <<Open>>, {}, TRUE, j + 1)
OpensElse(s, i, j, r) ==
    ~Escaped(s, i, j) /\ ~opensArgNamespace(s, j + 1) /\ r = Wrote(SubSeq(s, i, j), {}, TRUE, j + 1)
Breaks(s, i, j, r) ==
    ~Escaped(s, i, j) /\ opensArgNamespace(s, j + 1) /\ ~Closed(s, j) /\ r = Malformed
Refers(s, values, i, j, r) ==
    /\ ~Escaped(s, i, j) /\ opensArgNamespace(s, j + 1) /\ Closed(s, j)
    /\ r = Wrote(SubSeq(s, i, j - 1) \o Value(s, values, j), {s[j + 2]}, TRUE, j + 4)

LEMMA RoundCases ==
    ASSUME NEW s \in Text, NEW values, NEW i \in 1 .. Len(s)
    PROVE  \E j \in i .. Len(s) + 1 :
              LET r == Round(s, values, i)
              IN /\ \A k \in i .. j - 1 : s[k] # Open
                 /\ \/ NoOpener(s, i, j, r)
                    \/ /\ j <= Len(s) /\ s[j] = Open
                       /\ \/ Escapes(s, i, j, r) \/ OpensElse(s, i, j, r)
                          \/ Breaks(s, i, j, r) \/ Refers(s, values, i, j, r)
<1> DEFINE j == IndexFrom(s, i, Open)
           end == IndexFrom(s, j + 1, Close)
           r == Round(s, values, i)
           v == IF s[j + 2] \in DOMAIN values THEN values[s[j + 2]] ELSE SubSeq(s, j, end)
<1>0. Len(s) \in Nat /\ s \in Seq(Tokens) /\ i \in Nat \ {0}
  BY DEF Text
<1>1. \/ j = Len(s) + 1 /\ \A k \in i .. Len(s) : s[k] # Open
      \/ j \in i .. Len(s) /\ s[j] = Open /\ \A k \in i .. j - 1 : s[k] # Open
  <2> HIDE DEF j
  <2> QED BY <1>0, IndexFromSpec DEF j
<1>2. r = IF j > Len(s) THEN Wrote(SubSeq(s, i, Len(s)), {}, TRUE, Len(s) + 1)
          ELSE IF j > i /\ s[j - 1] = Dollar
          THEN Wrote(SubSeq(s, i, j - 2) \o <<Open>>, {}, TRUE, j + 1)
          ELSE IF ~opensArgNamespace(s, j + 1) THEN Wrote(SubSeq(s, i, j), {}, TRUE, j + 1)
          ELSE IF end # j + 3 \/ end > Len(s) \/ s[j + 2] \notin ArgNames THEN Malformed
          ELSE Wrote(SubSeq(s, i, j - 1) \o v, {s[j + 2]}, TRUE, end + 1)
  BY DEF Round
<1>3. j \in 1 .. Len(s) /\ opensArgNamespace(s, j + 1)
        => ((end = j + 3 /\ end <= Len(s) /\ s[j + 2] \in ArgNames) <=> Closed(s, j))
  <2> HIDE DEF j
  <2> QED BY CloserFound
<1>4. end = j + 3 => v = Value(s, values, j)
  BY DEF Value
<1>5. j \in i .. Len(s) + 1 /\ \A k \in i .. j - 1 : s[k] # Open
  BY <1>0, <1>1
<1>6. end \in Nat
  <2>1. j + 1 \in Nat \ {0}
    <3> HIDE DEF j
    <3> QED BY <1>0, <1>5
  <2>2. \/ end = Len(s) + 1
        \/ end \in j + 1 .. Len(s)
    <3> HIDE DEF j, end
    <3> QED BY <1>0, <2>1, IndexFromSpec DEF end
  <2> HIDE DEF j, end
  <2> QED BY <2>2, <1>0, <2>1
<1> HIDE DEF j, end, r, v
<1>7. \/ NoOpener(s, i, j, r)
      \/ /\ j <= Len(s) /\ s[j] = Open
         /\ \/ Escapes(s, i, j, r) \/ OpensElse(s, i, j, r)
            \/ Breaks(s, i, j, r) \/ Refers(s, values, i, j, r)
  <2>5. j \in i .. Len(s) => j <= Len(s)
    BY <1>0
  <2>1. CASE j = Len(s) + 1
    <3>1. j > Len(s)
      BY <2>1, <1>0
    <3>2. r = Wrote(SubSeq(s, i, Len(s)), {}, TRUE, Len(s) + 1)
      BY <3>1, <1>2, Zenon
    <3> QED
      BY <2>1, <3>2 DEF NoOpener
  <2>2. CASE j \in i .. Len(s) /\ s[j] = Open /\ Escaped(s, i, j)
    <3>1. ~(j > Len(s)) /\ j > i /\ s[j - 1] = Dollar
      BY <2>2, <1>0 DEF Escaped
    <3>2. r = Wrote(SubSeq(s, i, j - 2) \o <<Open>>, {}, TRUE, j + 1)
      BY <3>1, <1>2, Zenon
    <3> QED
      BY <2>2, <2>5, <3>2, Zenon DEF Escapes
  <2>3. CASE j \in i .. Len(s) /\ s[j] = Open /\ ~Escaped(s, i, j) /\ ~opensArgNamespace(s, j + 1)
    <3>1. ~(j > Len(s)) /\ ~(j > i /\ s[j - 1] = Dollar)
      BY <2>3, <1>0 DEF Escaped
    <3>2. r = Wrote(SubSeq(s, i, j), {}, TRUE, j + 1)
      BY <3>1, <2>3, <1>2, Zenon
    <3> QED
      BY <2>3, <2>5, <3>2, Zenon DEF OpensElse
  <2>4. CASE j \in i .. Len(s) /\ s[j] = Open /\ ~Escaped(s, i, j) /\ opensArgNamespace(s, j + 1)
    <3>1. j \in 1 .. Len(s) /\ ~(j > Len(s)) /\ ~(j > i /\ s[j - 1] = Dollar)
      BY <2>4, <1>0 DEF Escaped
    <3>2. CASE Closed(s, j)
      <4>1. end = j + 3 /\ end <= Len(s) /\ s[j + 2] \in ArgNames
        BY <3>1, <3>2, <1>3, <2>4
      <4>2. ~(end # j + 3 \/ end > Len(s) \/ s[j + 2] \notin ArgNames) /\ end + 1 = j + 4
        BY <4>1, <1>0, <3>1
      <4>3. r = Wrote(SubSeq(s, i, j - 1) \o v, {s[j + 2]}, TRUE, end + 1)
        BY <4>2, <3>1, <2>4, <1>2, Zenon
      <4>4. r = Wrote(SubSeq(s, i, j - 1) \o Value(s, values, j), {s[j + 2]}, TRUE, j + 4)
        BY <4>1, <4>2, <4>3, <1>4, Zenon
      <4> QED
        BY <4>4, <2>5, <3>2, <2>4, Zenon DEF Refers
    <3>3. CASE ~Closed(s, j)
      <4>1. end # j + 3 \/ end > Len(s) \/ s[j + 2] \notin ArgNames
        BY <3>1, <3>3, <1>0, <1>3, <1>6, <2>4
      <4>2. r = Malformed
        BY <4>1, <3>1, <2>4, <1>2, Zenon
      <4> QED
        BY <4>2, <2>5, <3>3, <2>4, Zenon DEF Breaks
    <3> QED
      BY <3>2, <3>3
  <2> QED
    BY <2>1, <2>2, <2>3, <2>4, <1>1
<1> QED
  BY <1>5, <1>7 DEF r

LEMMA RoundAdvances ==
    ASSUME NEW s \in Text, NEW values, NEW i \in 1 .. Len(s), Round(s, values, i).ok
    PROVE  Round(s, values, i).then \in i + 1 .. Len(s) + 1
<1> DEFINE r == Round(s, values, i)
<1>0. Len(s) \in Nat
  BY DEF Text
<1>1. PICK j \in i .. Len(s) + 1 :
              /\ \/ NoOpener(s, i, j, r)
                 \/ /\ j <= Len(s)
                    /\ \/ Escapes(s, i, j, r) \/ OpensElse(s, i, j, r)
                       \/ Breaks(s, i, j, r) \/ Refers(s, values, i, j, r)
  <2> HIDE DEF r
  <2> QED BY RoundCases DEF r
<1> HIDE DEF r
<1>2. r.ok
  BY DEF r
<1>3. r.then = Len(s) + 1 \/ (j <= Len(s) /\ r.then = j + 1) \/ (j + 3 <= Len(s) /\ r.then = j + 4)
  BY <1>1, <1>2 DEF NoOpener, Escapes, OpensElse, Breaks, Refers, Wrote, Malformed, Closed
<1> QED
  BY <1>0, <1>3 DEF r

(* The recursion equation of scanArgs.                                     *)
LEMMA ScanEquation ==
    ASSUME NEW s \in Text, NEW values
    PROVE  \E scan :
              /\ scan[Len(s) + 1] = Scanned(<<>>, {}, TRUE)
              /\ \A i \in 1 .. Len(s) :
                    scan[i] = After(Round(s, values, i), scan[Round(s, values, i).then])
              /\ scanArgs(s, values) = scan[1]
<1> DEFINE n == Len(s)
           rounds == [i \in 1 .. n |-> Round(s, values, i)]
           F(f, i) == IF i = Len(s) + 1 THEN Scanned(<<>>, {}, TRUE)
                      ELSE After(Round(s, values, i), f[Round(s, values, i).then])
           Is(f) == f = [i \in 1 .. Len(s) + 1 |-> F(f, i)]
           scan == CHOOSE f : Is(f)
<1>0. n \in Nat
  BY DEF Text
<1>1. rounds \in Seq({Round(s, values, i) : i \in 1 .. n}) /\ Len(rounds) = n
  <2> DEFINE T == {Round(s, values, i) : i \in 1 .. n}
  <2>1. rounds \in [1 .. n -> T]
    OBVIOUS
  <2> HIDE DEF T, rounds
  <2>2. rounds \in Seq(T) /\ Len(rounds) = n
    BY <2>1, <1>0, FunctionIsSeq
  <2> QED
    BY <2>2 DEF T
<1>2. \A i \in 1 .. n : rounds[i].ok => rounds[i].then \in i + 1 .. n + 1
  <2> SUFFICES ASSUME NEW i \in 1 .. n, rounds[i].ok PROVE rounds[i].then \in i + 1 .. n + 1
    OBVIOUS
  <2>1. rounds[i] = Round(s, values, i)
    OBVIOUS
  <2> HIDE DEF rounds
  <2> QED
    BY <2>1, RoundAdvances
<1>3. PICK g : g = [i \in 1 .. n + 1 |-> Following(rounds, g, i)]
  <2> HIDE DEF rounds
  <2>1. \A i \in 1 .. Len(rounds) : rounds[i].ok => rounds[i].then \in i + 1 .. Len(rounds) + 1
    BY <1>1, <1>2
  <2>2. \E f : f = [i \in 1 .. Len(rounds) + 1 |-> Following(rounds, f, i)]
    BY <1>1, <2>1, ScanExists
  <2> QED
    BY <2>2, <1>1
<1>4. Is(g)
  <2>1. ASSUME NEW i \in 1 .. n + 1
        PROVE  Following(rounds, g, i) = F(g, i)
    <3>1. CASE i = n + 1
      <4>1. Len(rounds) = n
        BY <1>1
      <4> HIDE DEF rounds
      <4> QED BY <3>1, <4>1 DEF Following
    <3>2. CASE i # n + 1
      <4>1. i \in 1 .. n
        BY <3>2, <1>0
      <4>2. rounds[i] = Round(s, values, i) /\ Len(rounds) = n
        BY <4>1, <1>1
      <4> HIDE DEF rounds
      <4> QED BY <3>2, <4>2 DEF Following
    <3> QED
      BY <3>1, <3>2
  <2> HIDE DEF F, rounds
  <2> QED
    BY <1>3, <2>1
<1>5. Is(scan)
  <2> HIDE DEF F
  <2> QED BY <1>4
<1>6. scanArgs(s, values) = scan[1]
  BY DEF scanArgs
<1> HIDE DEF scan
<1>7. \A i \in 1 .. n + 1 : scan[i] = F(scan, i)
  <2> HIDE DEF F
  <2> QED BY <1>5, Zenon
<1>8. scan[n + 1] = Scanned(<<>>, {}, TRUE)
  <2>1. n + 1 \in 1 .. n + 1
    BY <1>0
  <2>2. scan[n + 1] = F(scan, n + 1)
    <3> HIDE DEF F
    <3> QED BY <1>7, <2>1
  <2>3. F(scan, n + 1) = Scanned(<<>>, {}, TRUE)
    OBVIOUS
  <2> QED
    BY <2>2, <2>3, Zenon
<1>9. \A i \in 1 .. n : scan[i] = After(Round(s, values, i), scan[Round(s, values, i).then])
  <2> SUFFICES ASSUME NEW i \in 1 .. n
               PROVE  scan[i] = After(Round(s, values, i), scan[Round(s, values, i).then])
    OBVIOUS
  <2>1. i \in 1 .. n + 1 /\ i # n + 1
    BY <1>0
  <2>2. scan[i] = F(scan, i)
    BY <1>7, <2>1
  <2> QED
    BY <2>1, <2>2
<1> QED
  BY <1>6, <1>8, <1>9, Zenon

(* Induction from the end of a text to its start.                          *)
LEMMA Backwards ==
    ASSUME NEW n \in Nat, NEW S, n + 1 \in S,
           \A i \in 1 .. n : (\A k \in i + 1 .. n + 1 : k \in S) => i \in S
    PROVE  1 .. n + 1 \subseteq S
<1> DEFINE T == {m \in Nat : m <= n => n + 1 - m \in S}
<1>1. ASSUME NEW m \in Nat, \A l \in 0 .. m - 1 : l \in T
      PROVE  m \in T
  <2> SUFFICES ASSUME m <= n PROVE n + 1 - m \in S
    OBVIOUS
  <2>1. CASE m = 0
    BY <2>1
  <2>2. CASE m # 0
    <3>1. n + 1 - m \in 1 .. n
      BY <2>2
    <3>2. ASSUME NEW k \in n + 1 - m + 1 .. n + 1
          PROVE  k \in S
      <4>1. n + 1 - k \in 0 .. m - 1 /\ n + 1 - k <= n /\ n + 1 - (n + 1 - k) = k
        BY <2>2
      <4>2. n + 1 - k \in T
        <5> HIDE DEF T
        <5> QED BY <4>1, <1>1
      <4> QED
        BY <4>1, <4>2
    <3> QED
      BY <3>1, <3>2
  <2> QED
    BY <2>1, <2>2
<1>2. Nat \subseteq T
  <2> HIDE DEF T
  <2> QED BY <1>1, StrongInductiveSet
<1>3. ASSUME NEW i \in 1 .. n + 1
      PROVE  i \in S
  <2>1. n + 1 - i \in Nat /\ n + 1 - i <= n /\ n + 1 - (n + 1 - i) = i
    OBVIOUS
  <2>2. n + 1 - i \in T
    <3> HIDE DEF T
    <3> QED BY <1>2, <2>1
  <2> QED
    BY <2>1, <2>2
<1> QED
  BY <1>3

(* Arguments have texts for values.                                        *)
Texts(values) == \A x \in DOMAIN values : values[x] \in Text

LEMMA Part ==
    ASSUME NEW s \in Text, NEW a \in Int, NEW b \in Int, a >= 1, b <= Len(s)
    PROVE  SubSeq(s, a, b) \in Text
<1>1. s \in Seq(Tokens) /\ Len(s) \in Nat
  BY DEF Text
<1>2. \A k \in a .. b : s[k] \in Tokens
  <2> SUFFICES ASSUME NEW k \in a .. b PROVE s[k] \in Tokens
    OBVIOUS
  <2>1. k \in 1 .. Len(s)
    BY <1>1
  <2> QED
    BY <1>1, <2>1, ElementOfSeq
<1>3. SubSeq(s, a, b) \in Seq(Tokens)
  BY <1>2, SubSeqProperties
<1> QED
  BY <1>3 DEF Text

LEMMA Joined ==
    ASSUME NEW s \in Text, NEW t \in Text
    PROVE  s \o t \in Text
<1>1. s \in Seq(Tokens) /\ t \in Seq(Tokens)
  BY DEF Text
<1>2. s \o t \in Seq(Tokens)
  BY <1>1, ConcatProperties
<1> QED
  BY <1>2 DEF Text

LEMMA Opener == <<>> \in Text /\ <<Open>> \in Text
BY DEF Text, Tokens

LEMMA RoundTypes ==
    ASSUME NEW s \in Text, NEW values, Texts(values), NEW i \in 1 .. Len(s)
    PROVE  Round(s, values, i).out \in Text /\ Round(s, values, i).ok \in BOOLEAN
<1> DEFINE r == Round(s, values, i)
<1>0. Len(s) \in Nat
  BY DEF Text
<1>1. PICK j \in i .. Len(s) + 1 :
              /\ \/ NoOpener(s, i, j, r)
                 \/ /\ j <= Len(s)
                    /\ \/ Escapes(s, i, j, r) \/ OpensElse(s, i, j, r)
                       \/ Breaks(s, i, j, r) \/ Refers(s, values, i, j, r)
  <2> HIDE DEF r
  <2> QED BY RoundCases DEF r
<1> HIDE DEF r
<1>2. CASE NoOpener(s, i, j, r)
  <2>1. r.out = SubSeq(s, i, Len(s)) /\ r.ok = TRUE
    BY <1>2 DEF NoOpener, Wrote
  <2>2. SubSeq(s, i, Len(s)) \in Text
    BY <1>0, Part
  <2> QED
    BY <2>1, <2>2 DEF r
<1>3. CASE j <= Len(s) /\ Escapes(s, i, j, r)
  <2>1. r.out = SubSeq(s, i, j - 2) \o <<Open>> /\ r.ok = TRUE
    BY <1>3 DEF Escapes, Wrote
  <2>2. SubSeq(s, i, j - 2) \in Text
    BY <1>0, <1>3, Part
  <2> QED
    BY <2>1, <2>2, Opener, Joined DEF r
<1>4. CASE j <= Len(s) /\ OpensElse(s, i, j, r)
  <2>1. r.out = SubSeq(s, i, j) /\ r.ok = TRUE
    BY <1>4 DEF OpensElse, Wrote
  <2>2. SubSeq(s, i, j) \in Text
    BY <1>0, <1>4, Part
  <2> QED
    BY <2>1, <2>2 DEF r
<1>5. CASE Breaks(s, i, j, r)
  <2>1. r.out = <<>> /\ r.ok = FALSE
    BY <1>5 DEF Breaks, Malformed, Wrote
  <2> QED
    BY <2>1, Opener DEF r
<1>6. CASE j <= Len(s) /\ Refers(s, values, i, j, r)
  <2>1. r.out = SubSeq(s, i, j - 1) \o Value(s, values, j) /\ r.ok = TRUE /\ Closed(s, j)
    BY <1>6 DEF Refers, Wrote
  <2>2. SubSeq(s, i, j - 1) \in Text
    BY <1>0, <1>6, Part
  <2>3. Value(s, values, j) \in Text
    <3>1. SubSeq(s, j, j + 3) \in Text
      BY <1>0, <2>1, Part DEF Closed
    <3> QED
      BY <3>1 DEF Value, Texts
  <2>4. r.out \in Text
    BY <2>1, <2>2, <2>3, Joined
  <2> QED
    BY <2>1, <2>4 DEF r
<1> QED
  BY <1>1, <1>2, <1>3, <1>4, <1>5, <1>6

(* Whatever the text, what scanArgs returns is one.                        *)
LEMMA ScanTypes ==
    ASSUME NEW s \in Text, NEW values, Texts(values)
    PROVE  scanArgs(s, values).out \in Text /\ scanArgs(s, values).ok \in BOOLEAN
<1> DEFINE n == Len(s)
<1>0. n \in Nat
  BY DEF Text
<1>1. PICK scan :
         /\ scan[n + 1] = Scanned(<<>>, {}, TRUE)
         /\ \A i \in 1 .. n : scan[i] = After(Round(s, values, i), scan[Round(s, values, i).then])
         /\ scanArgs(s, values) = scan[1]
  BY ScanEquation
<1> DEFINE S == {i \in 1 .. n + 1 : scan[i].out \in Text /\ scan[i].ok \in BOOLEAN}
<1>2. n + 1 \in S
  <2>1. scan[n + 1].out = <<>> /\ scan[n + 1].ok = TRUE
    BY <1>1 DEF Scanned
  <2>2. scan[n + 1].out \in Text
    BY <2>1, Opener
  <2>3. n + 1 \in 1 .. n + 1
    BY <1>0
  <2> QED
    BY <2>1, <2>2, <2>3
<1>3. ASSUME NEW i \in 1 .. n, \A k \in i + 1 .. n + 1 : k \in S
      PROVE  i \in S
  <2> DEFINE r == Round(s, values, i)
  <2>1. r.out \in Text /\ r.ok \in BOOLEAN /\ (r.ok => r.then \in i + 1 .. n + 1)
    BY RoundTypes, RoundAdvances
  <2>2. scan[i] = After(r, scan[r.then])
    BY <1>1
  <2> HIDE DEF r
  <2>3. CASE r.ok
    <3>0. r.then \in S
      <4> HIDE DEF S
      <4> QED BY <2>1, <2>3, <1>3
    <3>1. scan[r.then].out \in Text /\ scan[r.then].ok \in BOOLEAN
      BY <3>0, Zenon
    <3>2. scan[i].out = r.out \o scan[r.then].out
      BY <2>2, <2>3, AfterRound
    <3>6. scan[i].ok = scan[r.then].ok
      BY <2>2, <2>3, AfterRoundOk
    <3>3. scan[i].out \in Text
      BY <3>1, <3>2, <2>1, Joined
    <3>4. scan[i].ok \in BOOLEAN
      BY <3>1, <3>6, Zenon
    <3>5. i \in 1 .. n + 1
      BY <1>0
    <3> QED
      BY <3>3, <3>4, <3>5, Zenon
  <2>4. CASE ~r.ok
    <3>1. scan[i].out = <<>> /\ scan[i].ok = FALSE
      BY <2>2, <2>4 DEF After, Scanned
    <3>2. scan[i].out \in Text
      BY <3>1, Opener, Zenon
    <3>3. i \in 1 .. n + 1
      BY <1>0
    <3> QED
      BY <3>1, <3>2, <3>3
  <2> QED
    BY <2>3, <2>4
<1>4. 1 \in S
  <2>1. 1 .. n + 1 \subseteq S
    <3> HIDE DEF S, n
    <3> QED BY <1>0, <1>2, <1>3, Backwards
  <2> HIDE DEF S
  <2> QED BY <2>1, <1>0
<1> QED
  BY <1>1, <1>4
-----------------------------------------------------------------------------
(* What is written.                                                        *)

(* Where a round may start: no dollar right before it that could escape,   *)
(* and no reference that reaches beyond it.                                *)
Clean(s, i) ==
    /\ i = 1 \/ s[i - 1] # Dollar
    /\ \A q \in 1 .. i - 1 : IsReference(s, q) => q + 3 < i

Resolved(s, values, p) == IsReference(s, p) /\ s[p + 2] \in DOMAIN values
LegalFrom(s, values, i) == \A p \in i .. Len(s) : IsOpener(s, p) => Resolved(s, values, p)

LEMMA Differ ==
    /\ Open # Close /\ Open # Dollar /\ Open # Namespace
    /\ Close # Dollar /\ Close # Namespace /\ Dollar # Namespace
BY DEF Open, Close, Dollar, Namespace

LEMMA ReferenceOpens ==
    ASSUME NEW s, NEW p, IsReference(s, p)
    PROVE  s[p] = Open /\ s[p + 1] = Namespace
BY DEF IsReference, IsOpener, opensArgNamespace

(* A well-formed reference, and what lies within it.                       *)
LEMMA ReferenceBody ==
    ASSUME NEW s \in Text, NEW i \in 1 .. Len(s), NEW j \in i .. Len(s), Clean(s, i),
           s[j] = Open, ~Escaped(s, i, j), opensArgNamespace(s, j + 1)
    PROVE  /\ IsOpener(s, j)
           /\ IsReference(s, j) <=> Closed(s, j)
           /\ Closed(s, j) => \A p \in j + 1 .. j + 3 : ~IsOpener(s, p)
<1>0. Len(s) \in Nat
  BY DEF Text
<1>1. j = 1 \/ s[j - 1] # Dollar
  BY <1>0 DEF Clean, Escaped
<1>2. IsOpener(s, j)
  BY <1>1 DEF IsOpener
<1>3. j \in DOMAIN s
  BY <1>0 DEF Text
<1>4. IsReference(s, j) <=> Closed(s, j)
  BY <1>2, <1>3 DEF IsReference, Closed
<1>5. ASSUME Closed(s, j), NEW p \in j + 1 .. j + 3, IsOpener(s, p)
      PROVE  FALSE
  <2>1. s[j + 1] = Namespace /\ s[j + 3] = Close
    BY <1>5 DEF Closed, opensArgNamespace
  <2>2. s[p] = Open /\ s[p + 1] = Namespace
    BY <1>5 DEF IsOpener, opensArgNamespace
  <2>3. p = j + 1 \/ p = j + 2 \/ p = j + 3
    BY <1>0
  <2>4. p # j + 1 /\ p # j + 3
    BY <2>1, <2>2, Differ
  <2>5. p # j + 2
    <3>1. p = j + 2 => p + 1 = j + 3
      BY <1>0
    <3> QED
      BY <3>1, <2>1, <2>2, Differ
  <2> QED
    BY <2>3, <2>4, <2>5
<1> QED
  BY <1>2, <1>4, <1>5

LEMMA OpenersSkipped ==
    ASSUME NEW s \in Text, NEW i \in 1 .. Len(s), NEW j \in i .. Len(s) + 1,
           \A k \in i .. j - 1 : s[k] # Open
    PROVE  \A p \in i .. j - 1 : ~IsOpener(s, p) /\ ~IsReference(s, p)
BY DEF IsOpener, IsReference

(* The references before j are those before i.                             *)
LEMMA CleanAfter ==
    ASSUME NEW s \in Text, NEW i \in 1 .. Len(s), NEW j \in i .. Len(s), Clean(s, i),
           \A k \in i .. j - 1 : s[k] # Open, s[j] = Open, ~IsReference(s, j)
    PROVE  Clean(s, j + 1)
<1>0. Len(s) \in Nat
  BY DEF Text
<1>1. \A p \in i .. j - 1 : ~IsReference(s, p)
  BY <1>0, OpenersSkipped
<1>2. ASSUME NEW q \in 1 .. j, IsReference(s, q)
      PROVE  q + 3 < j + 1
  <2>1. q # j /\ ~(q \in i .. j - 1)
    BY <1>1, <1>2
  <2>2. q \in 1 .. i - 1
    BY <2>1, <1>0
  <2>3. q + 3 < i
    BY <2>2, <1>2 DEF Clean
  <2> QED
    BY <2>3, <1>0
<1>3. (j + 1) - 1 = j
  BY <1>0
<1> QED
  BY <1>2, <1>3, Differ DEF Clean

LEMMA CleanBeyond ==
    ASSUME NEW s \in Text, NEW i \in 1 .. Len(s), NEW j \in i .. Len(s), Clean(s, i),
           \A k \in i .. j - 1 : s[k] # Open, s[j] = Open,
           ~Escaped(s, i, j), opensArgNamespace(s, j + 1), Closed(s, j)
    PROVE  Clean(s, j + 4)
<1>0. Len(s) \in Nat
  BY DEF Text
<1>1. \A p \in i .. j - 1 : ~IsReference(s, p)
  BY <1>0, OpenersSkipped
<1>2. \A p \in j + 1 .. j + 3 : ~IsReference(s, p)
  BY ReferenceBody DEF IsReference
<1>3. ASSUME NEW q \in 1 .. j + 3, IsReference(s, q)
      PROVE  q + 3 < j + 4
  <2>1. ~(q \in j + 1 .. j + 3) /\ ~(q \in i .. j - 1)
    BY <1>1, <1>2, <1>3
  <2>2. q \in 1 .. i - 1 \/ q = j
    BY <2>1, <1>0
  <2>3. q \in 1 .. i - 1 => q + 3 < i
    BY <1>3 DEF Clean
  <2> QED
    BY <2>2, <2>3, <1>0
<1>4. s[j + 3] # Dollar /\ (j + 4) - 1 = j + 3
  BY <1>0, Differ DEF Closed
<1> QED
  BY <1>3, <1>4 DEF Clean

(* A round that starts clean ends clean, and takes from what has to be     *)
(* legal just what it went over.                                           *)
LEMMA RoundLegal ==
    ASSUME NEW s \in Text, NEW values, NEW i \in 1 .. Len(s), Clean(s, i)
    PROVE  LET r == Round(s, values, i)
           IN /\ ~r.ok => ~LegalFrom(s, values, i)
              /\ r.ok => /\ r.then <= Len(s) => Clean(s, r.then)
                         /\ LegalFrom(s, values, i) <=>
                              r.refs \subseteq DOMAIN values /\ LegalFrom(s, values, r.then)
<1> DEFINE r == Round(s, values, i)
           n == Len(s)
<1>0. n \in Nat
  BY DEF Text
<1>1. PICK j \in i .. Len(s) + 1 :
              /\ \A k \in i .. j - 1 : s[k] # Open
              /\ \/ NoOpener(s, i, j, r)
                 \/ /\ j <= Len(s) /\ s[j] = Open
                    /\ \/ Escapes(s, i, j, r) \/ OpensElse(s, i, j, r)
                       \/ Breaks(s, i, j, r) \/ Refers(s, values, i, j, r)
  <2> HIDE DEF r
  <2> QED BY RoundCases DEF r
<1> HIDE DEF r
<1> SUFFICES /\ ~r.ok => ~LegalFrom(s, values, i)
             /\ r.ok => /\ r.then <= n => Clean(s, r.then)
                        /\ LegalFrom(s, values, i) <=>
                             r.refs \subseteq DOMAIN values /\ LegalFrom(s, values, r.then)
  BY DEF r
<1>2. \A p \in i .. j - 1 : ~IsOpener(s, p) /\ ~IsReference(s, p)
  BY <1>1, OpenersSkipped
<1>3. CASE NoOpener(s, i, j, r)
  <2>1. r.ok = TRUE /\ r.refs = {} /\ r.then = n + 1 /\ j = n + 1
    BY <1>3 DEF NoOpener, Wrote
  <2>2. LegalFrom(s, values, i) /\ LegalFrom(s, values, n + 1)
    BY <2>1, <1>2, <1>0 DEF LegalFrom
  <2> QED
    BY <2>1, <2>2, <1>0
<1>4. CASE j <= n /\ s[j] = Open /\ (Escapes(s, i, j, r) \/ OpensElse(s, i, j, r))
  <2>1. r.ok = TRUE /\ r.refs = {} /\ r.then = j + 1 /\ j \in i .. n
    BY <1>4, <1>0 DEF Escapes, OpensElse, Wrote
  <2>2. ~IsOpener(s, j)
    <3>1. CASE Escapes(s, i, j, r)
      BY <3>1, <1>0, <2>1 DEF Escapes, Escaped, IsOpener
    <3>2. CASE OpensElse(s, i, j, r)
      BY <3>2 DEF OpensElse, IsOpener
    <3> QED
      BY <3>1, <3>2, <1>4
  <2>3. Clean(s, j + 1)
    BY <2>1, <2>2, <1>1, <1>4, CleanAfter DEF IsReference
  <2>4. LegalFrom(s, values, i) <=> LegalFrom(s, values, j + 1)
    <3>1. \A p \in i .. n : p \in i .. j - 1 \/ p = j \/ p \in j + 1 .. n
      BY <1>0, <2>1
    <3>2. \A p \in j + 1 .. n : p \in i .. n
      BY <1>0, <2>1
    <3> QED
      BY <3>1, <3>2, <2>2, <1>2 DEF LegalFrom
  <2> QED
    BY <2>1, <2>3, <2>4
<1>5. CASE j <= n /\ s[j] = Open /\ Breaks(s, i, j, r)
  <2>1. r.ok = FALSE /\ j \in i .. n
    BY <1>5, <1>0 DEF Breaks, Malformed, Wrote
  <2>2. IsOpener(s, j) /\ ~IsReference(s, j)
    BY <2>1, <1>5, ReferenceBody DEF Breaks
  <2>3. ~LegalFrom(s, values, i)
    BY <2>1, <2>2 DEF LegalFrom, Resolved
  <2> QED
    BY <2>1, <2>3
<1>6. CASE j <= n /\ s[j] = Open /\ Refers(s, values, i, j, r)
  <2>1. r.ok = TRUE /\ r.refs = {s[j + 2]} /\ r.then = j + 4 /\ j \in i .. n
    BY <1>6, <1>0 DEF Refers, Wrote
  <2>2. Closed(s, j) /\ ~Escaped(s, i, j) /\ opensArgNamespace(s, j + 1)
    BY <1>6 DEF Refers
  <2>3. IsOpener(s, j) /\ IsReference(s, j) /\ \A p \in j + 1 .. j + 3 : ~IsOpener(s, p)
    BY <2>1, <2>2, <1>6, ReferenceBody
  <2>4. Clean(s, j + 4)
    BY <2>1, <2>2, <1>1, <1>6, CleanBeyond
  <2>5. LegalFrom(s, values, i) <=> s[j + 2] \in DOMAIN values /\ LegalFrom(s, values, j + 4)
    <3>1. \A p \in i .. n : p \in i .. j - 1 \/ p = j \/ p \in j + 1 .. j + 3 \/ p \in j + 4 .. n
      BY <1>0, <2>1
    <3>2. j \in i .. n /\ \A p \in j + 4 .. n : p \in i .. n
      BY <1>0, <2>1
    <3>3. Resolved(s, values, j) <=> s[j + 2] \in DOMAIN values
      BY <2>3 DEF Resolved
    <3> QED
      BY <3>1, <3>2, <3>3, <2>3, <1>2 DEF LegalFrom
  <2> QED
    BY <2>1, <2>4, <2>5
<1> QED
  BY <1>1, <1>3, <1>4, <1>5, <1>6

(* scanArgs refuses exactly the texts that are not legal.                  *)
LEMMA RefusedIffIllegal ==
    ASSUME NEW s \in Text, NEW values
    PROVE  Refused(s, values) <=> ~Legal(s, values)
<1> DEFINE n == Len(s)
<1>0. n \in Nat /\ DOMAIN s = 1 .. n
  BY DEF Text
<1>1. PICK scan :
         /\ scan[n + 1] = Scanned(<<>>, {}, TRUE)
         /\ \A i \in 1 .. n : scan[i] = After(Round(s, values, i), scan[Round(s, values, i).then])
         /\ scanArgs(s, values) = scan[1]
  BY ScanEquation
<1> DEFINE Passes(i) == scan[i].ok /\ scan[i].refs \subseteq DOMAIN values
           S == {i \in 1 .. n + 1 :
                    (i <= n /\ Clean(s, i)) \/ i = n + 1 => (Passes(i) <=> LegalFrom(s, values, i))}
<1>2. n + 1 \in S
  <2>1. scan[n + 1].ok = TRUE /\ scan[n + 1].refs = {}
    BY <1>1 DEF Scanned
  <2>2. LegalFrom(s, values, n + 1)
    BY <1>0 DEF LegalFrom
  <2>3. n + 1 \in 1 .. n + 1
    BY <1>0
  <2>4. Passes(n + 1)
    BY <2>1
  <2> HIDE DEF Passes
  <2> QED
    BY <2>2, <2>3, <2>4
<1>3. ASSUME NEW i \in 1 .. n, \A k \in i + 1 .. n + 1 : k \in S
      PROVE  i \in S
  <2> DEFINE r == Round(s, values, i)
  <2>0. i \in 1 .. n + 1 /\ i # n + 1
    BY <1>0
  <2> SUFFICES ASSUME Clean(s, i) PROVE Passes(i) <=> LegalFrom(s, values, i)
    <3> HIDE DEF Passes
    <3> QED BY <2>0
  <2>1. /\ ~r.ok => ~LegalFrom(s, values, i)
        /\ r.ok => /\ r.then <= n => Clean(s, r.then)
                   /\ LegalFrom(s, values, i) <=>
                        r.refs \subseteq DOMAIN values /\ LegalFrom(s, values, r.then)
    BY RoundLegal
  <2>2. r.ok => r.then \in i + 1 .. n + 1
    BY RoundAdvances
  <2>3. scan[i] = After(r, scan[r.then])
    BY <1>1
  <2> HIDE DEF r
  <2>4. CASE r.ok
    <3>1. r.then \in S
      <4> HIDE DEF S
      <4> QED BY <2>2, <2>4, <1>3
    <3>2. r.then <= n \/ r.then = n + 1
      BY <2>2, <2>4, <1>0
    <3>3. Passes(r.then) <=> LegalFrom(s, values, r.then)
      <4> HIDE DEF Passes
      <4> QED BY <3>1, <3>2, <2>1, <2>4
    <3>4. scan[i].refs = r.refs \cup scan[r.then].refs
      BY <2>3, <2>4, AfterRound
    <3>6. scan[i].ok = scan[r.then].ok
      BY <2>3, <2>4, AfterRoundOk
    <3>5. Passes(i) <=> r.refs \subseteq DOMAIN values /\ Passes(r.then)
      <4>1. scan[i].refs \subseteq DOMAIN values <=>
               r.refs \subseteq DOMAIN values /\ scan[r.then].refs \subseteq DOMAIN values
        BY <3>4
      <4> QED
        BY <4>1, <3>6, Zenon
    <3> HIDE DEF Passes
    <3> QED
      BY <3>3, <3>5, <2>1, <2>4
  <2>5. CASE ~r.ok
    <3>1. scan[i].ok = FALSE
      BY <2>3, <2>5, AfterError
    <3> QED
      BY <3>1, <2>1, <2>5, Zenon
  <2> QED
    BY <2>4, <2>5
<1>4. 1 \in S
  <2>1. 1 .. n + 1 \subseteq S
    <3> HIDE DEF S, n
    <3> QED BY <1>0, <1>2, <1>3, Backwards
  <2> HIDE DEF S
  <2> QED BY <2>1, <1>0
<1>5. Passes(1) <=> LegalFrom(s, values, 1)
  <2>1. (1 <= n /\ Clean(s, 1)) \/ 1 = n + 1
    BY <1>0 DEF Clean
  <2> HIDE DEF Passes, n
  <2> QED BY <1>4, <2>1
<1>6. LegalFrom(s, values, 1) <=> Legal(s, values)
  BY <1>0 DEF LegalFrom, Legal, Resolved
<1>7. Passes(1) <=> ~Refused(s, values)
  BY <1>1, Zenon DEF Refused
<1> HIDE DEF Passes
<1> QED
  BY <1>5, <1>6, <1>7

(* What Substituted has for each position.                                 *)
Covered(s, p) == \E q \in 1 .. p - 1 : p <= q + 3 /\ IsReference(s, q)
Escapes1(s, p) == s[p] = Dollar /\ p < Len(s) /\ s[p + 1] = Open
Piece(s, values, p) ==
    CASE IsReference(s, p) -> values[s[p + 2]]
      [] Covered(s, p)     -> <<>>
      [] Escapes1(s, p)    -> <<>>
      [] OTHER             -> <<s[p]>>

LEMMA SubstitutedPieces ==
    ASSUME NEW s, NEW values
    PROVE  Substituted(s, values) = FlattenSeq([p \in DOMAIN s |-> Piece(s, values, p)])
BY DEF Substituted, Piece, Covered, Escapes1

LEMMA PieceCases ==
    ASSUME NEW s, NEW values, NEW p
    PROVE  /\ IsReference(s, p) /\ ~Covered(s, p) /\ ~Escapes1(s, p)
                => Piece(s, values, p) = values[s[p + 2]]
           /\ ~IsReference(s, p) /\ (Covered(s, p) \/ Escapes1(s, p)) => Piece(s, values, p) = <<>>
           /\ ~IsReference(s, p) /\ ~Covered(s, p) /\ ~Escapes1(s, p)
                => Piece(s, values, p) = <<s[p]>>
BY Zenon DEF Piece

(* No reference lies within another, nor is it a dollar.                   *)
LEMMA ReferencesApart ==
    ASSUME NEW s \in Text, NEW p \in 1 .. Len(s), IsReference(s, p)
    PROVE  ~Covered(s, p) /\ ~Escapes1(s, p)
<1>0. Len(s) \in Nat
  BY DEF Text
<1>1. s[p] = Open /\ s[p + 1] = Namespace
  BY ReferenceOpens
<1>2. ASSUME NEW q \in 1 .. p - 1, p <= q + 3, IsReference(s, q)
      PROVE  FALSE
  <2>1. s[q + 1] = Namespace /\ s[q + 3] = Close
    BY <1>2 DEF IsReference, IsOpener, opensArgNamespace
  <2>2. p = q + 1 \/ p = q + 2 \/ p = q + 3
    BY <1>0, <1>2
  <2>3. p # q + 1 /\ p # q + 3
    BY <2>1, <1>1, Differ
  <2>4. p = q + 2 => p + 1 = q + 3
    BY <1>0
  <2> QED
    BY <2>1, <2>2, <2>3, <2>4, <1>1, Differ
<1> QED
  BY <1>1, <1>2, Differ DEF Covered, Escapes1

LEMMA PieceTypes ==
    ASSUME NEW s \in Text, NEW values, Texts(values), Legal(s, values), NEW p \in 1 .. Len(s)
    PROVE  Piece(s, values, p) \in Text
<1>0. s \in Seq(Tokens) /\ DOMAIN s = 1 .. Len(s) /\ s[p] \in Tokens
  BY DEF Text
<1>1. CASE IsReference(s, p)
  <2>1. s[p + 2] \in DOMAIN values
    BY <1>0, <1>1 DEF Legal, IsReference
  <2>2. Piece(s, values, p) = values[s[p + 2]]
    BY <1>1, ReferencesApart, PieceCases
  <2> QED
    BY <2>1, <2>2 DEF Texts
<1>2. CASE ~IsReference(s, p)
  <2>1. Piece(s, values, p) \in {<<>>, <<s[p]>>}
    BY <1>2, PieceCases
  <2>2. <<s[p]>> \in Text
    BY <1>0 DEF Text
  <2> QED
    BY <2>1, <2>2, Opener
<1> QED
  BY <1>1, <1>2

(* flat[k]: what the first k positions are replaced by.                    *)
Flat(s, values, flat) ==
    /\ flat \in [0 .. Len(s) -> Text]
    /\ flat[0] = <<>>
    /\ \A p \in 1 .. Len(s) : flat[p] = flat[p - 1] \o Piece(s, values, p)

LEMMA FlatExists ==
    ASSUME NEW s \in Text, NEW values, Texts(values), Legal(s, values)
    PROVE  \E flat : Flat(s, values, flat) /\ Substituted(s, values) = flat[Len(s)]
<1> DEFINE q == [p \in 1 .. Len(s) |-> Piece(s, values, p)]
<1>0. Len(s) \in Nat /\ DOMAIN s = 1 .. Len(s)
  BY DEF Text
<1>1. q \in [1 .. Len(s) -> Text]
  BY PieceTypes
<1>2. q \in Seq(Seq(Tokens)) /\ Len(q) = Len(s)
  <2> HIDE DEF q
  <2> QED BY <1>0, <1>1, FunctionIsSeq DEF Text
<1>3. \A p \in 1 .. Len(s) : q[p] = Piece(s, values, p)
  OBVIOUS
<1>4. Substituted(s, values) = FlattenSeq(q)
  BY <1>0, SubstitutedPieces
<1> HIDE DEF q
<1>5. PICK flat \in [0 .. Len(q) -> Seq(Tokens)] :
              /\ flat[0] = <<>>
              /\ \A i \in 1 .. Len(q) : flat[i] = flat[i - 1] \o q[i]
              /\ FlattenSeq(q) = flat[Len(q)]
  BY <1>2, FlattenPieces
<1>6. Flat(s, values, flat)
  BY <1>2, <1>3, <1>5 DEF Flat, Text
<1> QED
  BY <1>2, <1>4, <1>5, <1>6

LEMMA Assoc ==
    ASSUME NEW a \in Text, NEW b \in Text, NEW c \in Text
    PROVE  (a \o b) \o c = a \o (b \o c)
BY ConcatAssociative DEF Text

LEMMA NoneAdded ==
    ASSUME NEW a \in Text
    PROVE  a \o <<>> = a /\ <<>> \o a = a
BY ConcatEmptySeq DEF Text

LEMMA FlatTypes ==
    ASSUME NEW s \in Text, NEW values, NEW flat, Flat(s, values, flat), NEW k \in 0 .. Len(s)
    PROVE  flat[k] \in Text
BY DEF Flat

(* What is left as it is, position by position, is left as a whole.        *)
LEMMA Untouched ==
    ASSUME NEW s \in Text, NEW values, NEW flat, Flat(s, values, flat),
           NEW a \in 1 .. Len(s) + 1, NEW b \in a - 1 .. Len(s),
           \A p \in a .. b : Piece(s, values, p) = <<s[p]>>
    PROVE  flat[b] = flat[a - 1] \o SubSeq(s, a, b)
<1>0. Len(s) \in Nat /\ s \in Seq(Tokens)
  BY DEF Text
<1> DEFINE Is(c) == flat[c] = flat[a - 1] \o SubSeq(s, a, c)
           S == {k \in Nat : a - 1 + k <= b => Is(a - 1 + k)}
<1>1. 0 \in S
  <2>1. SubSeq(s, a, a - 1) = <<>>
    BY <1>0, SubSeqEmpty
  <2>2. flat[a - 1] \in Text
    BY <1>0, FlatTypes
  <2>3. a - 1 + 0 = a - 1
    BY <1>0
  <2>4. Is(a - 1)
    BY <2>1, <2>2, NoneAdded
  <2> HIDE DEF Is
  <2> QED
    BY <2>3, <2>4
<1>2. ASSUME NEW k \in Nat, k \in S
      PROVE  k + 1 \in S
  <2> DEFINE c == a - 1 + k
  <2>0. c \in Nat /\ a - 1 + (k + 1) = c + 1
    BY <1>0
  <2> SUFFICES ASSUME c + 1 <= b PROVE Is(c + 1)
    <3> HIDE DEF c, Is
    <3> QED BY <2>0
  <2>1. flat[c] = flat[a - 1] \o SubSeq(s, a, c)
    <3>1. Is(c)
      <4> HIDE DEF Is
      <4> QED BY <1>2, <1>0
    <3> HIDE DEF c
    <3> QED BY <3>1
  <2>2. c + 1 \in a .. b /\ c + 1 \in 1 .. Len(s) /\ (c + 1) - 1 = c /\ a \in 1 .. Len(s)
        /\ c + 1 \in a .. Len(s)
    BY <1>0
  <2> HIDE DEF c
  <2>3. flat[c + 1] = flat[c] \o <<s[c + 1]>>
    BY <2>2 DEF Flat
  <2>4. SubSeq(s, a, c + 1) = SubSeq(s, a, c) \o <<s[c + 1]>>
    <3>1. SubSeq(s, a, c + 1) = SubSeq(s, a, (c + 1) - 1) \o <<s[c + 1]>>
      BY <2>2, <1>0, SubSeqRecursiveSecond
    <3> QED
      BY <3>1, <2>2
  <2>5. flat[a - 1] \in Text /\ SubSeq(s, a, c) \in Text /\ <<s[c + 1]>> \in Text
    <3>1. flat[a - 1] \in Text
      BY <1>0, FlatTypes
    <3>2. SubSeq(s, a, c) \in Text
      BY <1>0, <2>0, <2>2, Part
    <3>3. s[c + 1] \in Tokens
      BY <1>0, <2>2, ElementOfSeq
    <3>4. <<s[c + 1]>> \in Text
      BY <3>3 DEF Text
    <3> QED
      BY <3>1, <3>2, <3>4
  <2>6. (flat[a - 1] \o SubSeq(s, a, c)) \o <<s[c + 1]>>
           = flat[a - 1] \o (SubSeq(s, a, c) \o <<s[c + 1]>>)
    BY <2>5, Assoc
  <2> QED
    BY <2>1, <2>3, <2>4, <2>6, Zenon
<1>3. b - (a - 1) \in Nat /\ a - 1 + (b - (a - 1)) = b
  BY <1>0
<1>4. b - (a - 1) \in S
  <2> HIDE DEF S
  <2> QED BY <1>1, <1>2, <1>3, InductiveSet
<1>5. Is(b)
  <2> HIDE DEF Is
  <2> QED BY <1>3, <1>4
<1> QED
  BY <1>5

LEMMA NotCovered ==
    ASSUME NEW s \in Text, NEW i \in 1 .. Len(s), NEW j \in i .. Len(s) + 1, Clean(s, i),
           \A k \in i .. j - 1 : s[k] # Open, NEW p \in i .. j
    PROVE  ~Covered(s, p)
<1>0. Len(s) \in Nat
  BY DEF Text
<1>1. \A q \in i .. j - 1 : ~IsReference(s, q)
  BY <1>0, OpenersSkipped
<1>2. ASSUME NEW q \in 1 .. p - 1, p <= q + 3, IsReference(s, q)
      PROVE  FALSE
  <2>1. q \in 1 .. i - 1
    BY <1>0, <1>1, <1>2
  <2>2. q + 3 < i
    BY <2>1, <1>2 DEF Clean
  <2> QED
    BY <2>2, <1>0, <1>2
<1> QED
  BY <1>2 DEF Covered

LEMMA LiteralBefore ==
    ASSUME NEW s \in Text, NEW values, NEW i \in 1 .. Len(s), NEW j \in i .. Len(s) + 1, Clean(s, i),
           \A k \in i .. j - 1 : s[k] # Open, NEW p \in i .. j - 1,
           p < j - 1 \/ j = Len(s) + 1 \/ ~Escaped(s, i, j)
    PROVE  Piece(s, values, p) = <<s[p]>>
<1>0. Len(s) \in Nat
  BY DEF Text
<1>1. ~IsReference(s, p)
  BY <1>0, OpenersSkipped
<1>2. ~Covered(s, p)
  <2>1. p \in i .. j
    BY <1>0
  <2> QED
    BY <2>1, NotCovered
<1>3. ~Escapes1(s, p)
  <2>1. CASE p < j - 1
    <3>1. p + 1 \in i .. j - 1
      BY <1>0, <2>1
    <3> QED
      BY <3>1 DEF Escapes1
  <2>2. CASE p = j - 1 /\ j = Len(s) + 1
    BY <2>2, <1>0 DEF Escapes1
  <2>3. CASE p = j - 1 /\ ~Escaped(s, i, j)
    <3>1. j > i /\ j - 1 = p
      BY <1>0, <2>3
    <3> QED
      BY <2>3, <3>1 DEF Escaped, Escapes1
  <2> QED
    BY <2>1, <2>2, <2>3, <1>0
<1> QED
  BY <1>1, <1>2, <1>3, PieceCases

LEMMA RoundWrites ==
    ASSUME NEW s \in Text, NEW values, Texts(values), Legal(s, values),
           NEW flat, Flat(s, values, flat), NEW i \in 1 .. Len(s), Clean(s, i),
           Round(s, values, i).ok
    PROVE  flat[i - 1] \o Round(s, values, i).out = flat[Round(s, values, i).then - 1]
<1> DEFINE r == Round(s, values, i)
           n == Len(s)
<1>0. n \in Nat /\ DOMAIN s = 1 .. n
  BY DEF Text
<1>1. PICK j \in i .. Len(s) + 1 :
              /\ \A k \in i .. j - 1 : s[k] # Open
              /\ \/ NoOpener(s, i, j, r)
                 \/ /\ j <= Len(s) /\ s[j] = Open
                    /\ \/ Escapes(s, i, j, r) \/ OpensElse(s, i, j, r)
                       \/ Breaks(s, i, j, r) \/ Refers(s, values, i, j, r)
  <2> HIDE DEF r
  <2> QED BY RoundCases DEF r
<1> HIDE DEF r
<1> SUFFICES flat[i - 1] \o r.out = flat[r.then - 1]
  BY DEF r
<1>2. r.ok
  BY DEF r
<1>3. \A p \in i .. j - 1 : p < j - 1 \/ j = n + 1 \/ ~Escaped(s, i, j) => Piece(s, values, p) = <<s[p]>>
  BY <1>1, LiteralBefore
<1>4. \A p \in i .. j : ~Covered(s, p)
  BY <1>1, NotCovered
<1>5. i - 1 \in 0 .. n /\ flat[i - 1] \in Text
  BY <1>0, FlatTypes
<1>6. CASE NoOpener(s, i, j, r)
  <2>1. r.out = SubSeq(s, i, n) /\ r.then = n + 1 /\ j = n + 1
    BY <1>6 DEF NoOpener, Wrote
  <2>2. i \in 1 .. n + 1 /\ n \in i - 1 .. n /\ (n + 1) - 1 = n
    BY <1>0
  <2>3. \A p \in i .. n : Piece(s, values, p) = <<s[p]>>
    BY <2>1, <1>3, <1>0
  <2>4. flat[n] = flat[i - 1] \o SubSeq(s, i, n)
    <3> HIDE DEF n
    <3> QED BY <2>2, <2>3, Untouched DEF n
  <2> QED
    BY <2>1, <2>2, <2>4
<1>7. CASE j <= n /\ s[j] = Open /\ Escapes(s, i, j, r)
  <2>1. r.out = SubSeq(s, i, j - 2) \o <<Open>> /\ r.then = j + 1 /\ j > i /\ s[j - 1] = Dollar
    BY <1>7 DEF Escapes, Escaped, Wrote
  <2>2. /\ i \in 1 .. n + 1 /\ j - 2 \in i - 1 .. n /\ j - 1 \in 1 .. n /\ j \in 1 .. n /\ j \in i .. j
        /\ (j - 1) - 1 = j - 2 /\ (j - 1) + 1 = j /\ (j + 1) - 1 = j /\ j - 1 \in i .. j - 1 /\ j # 1
        /\ j - 1 < n
    BY <1>0, <1>7, <2>1
  <2>3. \A p \in i .. j - 2 : Piece(s, values, p) = <<s[p]>>
    BY <1>3, <1>0
  <2>4. flat[j - 2] = flat[i - 1] \o SubSeq(s, i, j - 2)
    <3> DEFINE b == j - 2
    <3>1. b \in i - 1 .. n /\ \A p \in i .. b : Piece(s, values, p) = <<s[p]>>
      BY <2>2, <2>3
    <3>3. i \in 1 .. Len(s) + 1
      BY <2>2
    <3> HIDE DEF b
    <3>2. flat[b] = flat[i - 1] \o SubSeq(s, i, b)
      BY <3>1, <3>3, Untouched
    <3> QED
      BY <3>2 DEF b
  <2>5. ~IsReference(s, j - 1) /\ Escapes1(s, j - 1)
    BY <2>1, <2>2, <1>7, <1>1 DEF IsReference, IsOpener, Escapes1
  <2>6. Piece(s, values, j - 1) = <<>>
    BY <2>5, PieceCases
  <2>7. Piece(s, values, j) = <<Open>>
    <3>1. ~IsReference(s, j)
      BY <2>1, <2>2 DEF IsReference, IsOpener
    <3>2. ~Covered(s, j) /\ ~Escapes1(s, j)
      BY <1>4, <1>7, <2>2, Differ DEF Escapes1
    <3> QED
      BY <3>1, <3>2, <1>7, PieceCases
  <2>8. flat[j - 1] = flat[j - 2] \o <<>> /\ flat[j] = flat[j - 1] \o <<Open>>
    BY <2>2, <2>6, <2>7 DEF Flat
  <2>9. flat[j - 2] \in Text /\ SubSeq(s, i, j - 2) \in Text
    <3>1. j - 2 \in 0 .. n
      BY <2>2, <1>0
    <3>2. SubSeq(s, i, j - 2) \in Text
      BY <1>0, <2>2, Part
    <3> QED
      BY <3>1, <3>2, FlatTypes
  <2>10. flat[j - 1] = flat[j - 2]
    BY <2>8, <2>9, NoneAdded
  <2>11. flat[i - 1] \o (SubSeq(s, i, j - 2) \o <<Open>>) = flat[j]
    <3>1. (flat[i - 1] \o SubSeq(s, i, j - 2)) \o <<Open>>
             = flat[i - 1] \o (SubSeq(s, i, j - 2) \o <<Open>>)
      BY <2>9, <1>5, Opener, Assoc
    <3>2. flat[j] = flat[j - 2] \o <<Open>>
      BY <2>8, <2>10, Zenon
    <3> QED
      BY <3>1, <3>2, <2>4, Zenon
  <2> QED
    BY <2>1, <2>2, <2>11
<1>8. CASE j <= n /\ s[j] = Open /\ OpensElse(s, i, j, r)
  <2>1. r.out = SubSeq(s, i, j) /\ r.then = j + 1 /\ ~Escaped(s, i, j) /\ ~opensArgNamespace(s, j + 1)
    BY <1>8 DEF OpensElse, Wrote
  <2>2. i \in 1 .. n + 1 /\ j \in i - 1 .. n /\ (j + 1) - 1 = j /\ j \in i .. j
    BY <1>0, <1>8
  <2>3. Piece(s, values, j) = <<s[j]>>
    <3>1. ~IsReference(s, j)
      BY <2>1 DEF IsReference, IsOpener
    <3>2. ~Covered(s, j) /\ ~Escapes1(s, j)
      BY <1>4, <1>8, <2>2, Differ DEF Escapes1
    <3> QED
      BY <3>1, <3>2, PieceCases
  <2>4. \A p \in i .. j : Piece(s, values, p) = <<s[p]>>
    <3>1. \A p \in i .. j : p = j \/ p \in i .. j - 1
      BY <1>0
    <3> QED
      BY <3>1, <2>1, <2>3, <1>3
  <2>5. flat[j] = flat[i - 1] \o SubSeq(s, i, j)
    BY <2>2, <2>4, Untouched
  <2> QED
    BY <2>1, <2>2, <2>5
<1>9. CASE j <= n /\ s[j] = Open /\ Refers(s, values, i, j, r)
  <2>1. r.out = SubSeq(s, i, j - 1) \o Value(s, values, j) /\ r.then = j + 4
    BY <1>9 DEF Refers, Wrote
  <2>2. ~Escaped(s, i, j) /\ opensArgNamespace(s, j + 1) /\ Closed(s, j)
    BY <1>9 DEF Refers
  <2>3. /\ i \in 1 .. n + 1 /\ j - 1 \in i - 1 .. n /\ j \in i .. n /\ j \in 1 .. n
        /\ j + 1 \in 1 .. n /\ j + 2 \in 1 .. n /\ j + 3 \in 1 .. n /\ j \in 0 .. n
        /\ (j + 1) - 1 = j /\ (j + 2) - 1 = j + 1 /\ (j + 3) - 1 = j + 2 /\ (j + 4) - 1 = j + 3
    BY <1>0, <1>9, <2>2 DEF Closed
  <2>4. IsOpener(s, j) /\ IsReference(s, j) /\ \A p \in j + 1 .. j + 3 : ~IsOpener(s, p)
    BY <1>9, <2>2, <2>3, ReferenceBody
  <2>5. flat[j - 1] = flat[i - 1] \o SubSeq(s, i, j - 1)
    <3> DEFINE b == j - 1
    <3>1. b \in i - 1 .. n /\ \A p \in i .. b : Piece(s, values, p) = <<s[p]>>
      BY <2>2, <2>3, <1>3
    <3> HIDE DEF b
    <3>2. flat[b] = flat[i - 1] \o SubSeq(s, i, b)
      BY <2>3, <3>1, Untouched
    <3> QED
      BY <3>2 DEF b
  <2>6. Piece(s, values, j) = Value(s, values, j)
    <3>1. s[j + 2] \in DOMAIN values
      BY <2>3, <2>4, <1>0 DEF Legal
    <3>2. Piece(s, values, j) = values[s[j + 2]]
      BY <2>3, <2>4, ReferencesApart, PieceCases
    <3> QED
      BY <3>1, <3>2 DEF Value
  <2>7. \A p \in j + 1 .. j + 3 : Piece(s, values, p) = <<>>
    <3> SUFFICES ASSUME NEW p \in j + 1 .. j + 3 PROVE Piece(s, values, p) = <<>>
      OBVIOUS
    <3>1. ~IsReference(s, p)
      BY <2>4 DEF IsReference
    <3>2. j \in 1 .. p - 1 /\ p <= j + 3
      BY <2>3, <1>0
    <3>3. Covered(s, p)
      BY <3>2, <2>4 DEF Covered
    <3> QED
      BY <3>1, <3>3, PieceCases
  <2>8. flat[j] = flat[j - 1] \o Value(s, values, j)
    BY <2>3, <2>6 DEF Flat
  <2>9. flat[j + 1] = flat[j] \o <<>> /\ flat[j + 2] = flat[j + 1] \o <<>>
        /\ flat[j + 3] = flat[j + 2] \o <<>>
    <3>1. j + 1 \in j + 1 .. j + 3 /\ j + 2 \in j + 1 .. j + 3 /\ j + 3 \in j + 1 .. j + 3
      BY <2>3
    <3>2. Piece(s, values, j + 1) = <<>> /\ Piece(s, values, j + 2) = <<>>
          /\ Piece(s, values, j + 3) = <<>>
      BY <2>7, <3>1
    <3> QED
      BY <3>2, <2>3 DEF Flat
  <2>10. flat[j] \in Text
    BY <2>3, FlatTypes
  <2>11. flat[j + 3] = flat[j]
    BY <2>9, <2>10, NoneAdded
  <2>12. SubSeq(s, i, j - 1) \in Text /\ Value(s, values, j) \in Text
    <3>1. SubSeq(s, i, j - 1) \in Text
      BY <1>0, <2>3, Part
    <3>2. Piece(s, values, j) \in Text
      BY <2>3, PieceTypes
    <3> QED
      BY <3>1, <3>2, <2>6
  <2>13. flat[i - 1] \o (SubSeq(s, i, j - 1) \o Value(s, values, j)) = flat[j]
    <3>1. (flat[i - 1] \o SubSeq(s, i, j - 1)) \o Value(s, values, j)
             = flat[i - 1] \o (SubSeq(s, i, j - 1) \o Value(s, values, j))
      BY <2>12, <1>5, Assoc
    <3> QED
      BY <3>1, <2>5, <2>8, Zenon
  <2> QED
    BY <2>1, <2>3, <2>11, <2>13
<1>10. ~Breaks(s, i, j, r)
  BY <1>2 DEF Breaks, Malformed, Wrote
<1> QED
  BY <1>1, <1>6, <1>7, <1>8, <1>9, <1>10

(* A legal text comes out as the documentation says.                       *)
LEMMA LegalIsSubstituted ==
    ASSUME NEW s \in Text, NEW values, Texts(values), Legal(s, values)
    PROVE  scanArgs(s, values).out = Substituted(s, values)
<1> DEFINE n == Len(s)
<1>0. n \in Nat /\ DOMAIN s = 1 .. n
  BY DEF Text
<1>1. PICK scan :
         /\ scan[n + 1] = Scanned(<<>>, {}, TRUE)
         /\ \A i \in 1 .. n : scan[i] = After(Round(s, values, i), scan[Round(s, values, i).then])
         /\ scanArgs(s, values) = scan[1]
  BY ScanEquation
<1>2. PICK flat : Flat(s, values, flat) /\ Substituted(s, values) = flat[n]
  BY FlatExists
<1> DEFINE Is(i) == scan[i].out \in Text /\ flat[i - 1] \o scan[i].out = flat[n]
           S == {i \in 1 .. n + 1 : (i <= n /\ Clean(s, i)) \/ i = n + 1 => Is(i)}
<1>3. n + 1 \in S
  <2>1. scan[n + 1].out = <<>>
    BY <1>1 DEF Scanned
  <2>2. flat[n] \in Text
    BY <1>0, <1>2, FlatTypes
  <2>3. (n + 1) - 1 = n /\ n + 1 \in 1 .. n + 1
    BY <1>0
  <2>4. flat[n] \o scan[n + 1].out = flat[n]
    BY <2>1, <2>2, NoneAdded
  <2>5. Is(n + 1)
    BY <2>1, <2>3, <2>4, Opener
  <2> HIDE DEF Is
  <2> QED
    BY <2>3, <2>5
<1>4. ASSUME NEW i \in 1 .. n, \A k \in i + 1 .. n + 1 : k \in S
      PROVE  i \in S
  <2> DEFINE r == Round(s, values, i)
  <2>0. i \in 1 .. n + 1 /\ i # n + 1 /\ i - 1 \in 0 .. n
    BY <1>0
  <2> SUFFICES ASSUME Clean(s, i) PROVE Is(i)
    <3> HIDE DEF Is
    <3> QED BY <2>0
  <2>1. r.ok
    <3>1. LegalFrom(s, values, i)
      BY <1>0 DEF Legal, LegalFrom, Resolved
    <3> QED
      BY <3>1, RoundLegal
  <2>2. r.then \in i + 1 .. n + 1 /\ (r.then <= n => Clean(s, r.then))
    BY <2>1, RoundLegal, RoundAdvances
  <2>3. scan[i] = After(r, scan[r.then])
    BY <1>1
  <2>4. flat[i - 1] \o r.out = flat[r.then - 1]
    BY <1>2, <2>1, RoundWrites
  <2>5. r.out \in Text /\ flat[i - 1] \in Text
    BY <2>0, <1>2, RoundTypes, FlatTypes
  <2> HIDE DEF r
  <2>6. r.then \in S /\ (r.then <= n \/ r.then = n + 1)
    <3> HIDE DEF S
    <3> QED BY <2>2, <1>0, <1>4
  <2>7. Is(r.then)
    <3> HIDE DEF Is
    <3> QED BY <2>6, <2>2
  <2>8. scan[i].out = r.out \o scan[r.then].out
    BY <2>1, <2>3, AfterRound
  <2>9. flat[i - 1] \o (r.out \o scan[r.then].out) = (flat[i - 1] \o r.out) \o scan[r.then].out
    BY <2>5, <2>7, Assoc
  <2>10. r.out \o scan[r.then].out \in Text
    BY <2>5, <2>7, Joined
  <2> QED
    BY <2>4, <2>7, <2>8, <2>9, <2>10
<1>5. 1 \in S
  <2>1. 1 .. n + 1 \subseteq S
    <3> HIDE DEF S, n
    <3> QED BY <1>0, <1>3, <1>4, Backwards
  <2> HIDE DEF S
  <2> QED BY <2>1, <1>0
<1>6. Is(1)
  <2>1. (1 <= n /\ Clean(s, 1)) \/ 1 = n + 1
    BY <1>0 DEF Clean
  <2> HIDE DEF Is, n
  <2> QED BY <1>5, <2>1
<1>7. flat[0] = <<>> /\ 1 - 1 = 0
  BY <1>2 DEF Flat
<1>8. <<>> \o scan[1].out = flat[n] /\ scan[1].out \in Text
  BY <1>6, <1>7
<1>9. scan[1].out = flat[n]
  BY <1>8, NoneAdded
<1> QED
  BY <1>1, <1>2, <1>9

(* Every text, of whatever length, with arguments of whatever values: it   *)
(* is refused exactly when an opener in it opens no reference to a         *)
(* declared argument, and what is not refused is written with its          *)
(* references replaced, its escapes resolved and all else as it was        *)
(* (scanArgs and undeclaredError, tck/args.go).                            *)
THEOREM ScannerIsRight ==
    ASSUME NEW s \in Text, NEW values, Texts(values)
    PROVE  /\ Refused(s, values) <=> ~Legal(s, values)
           /\ ~Refused(s, values) => scanArgs(s, values).out = Substituted(s, values)
BY RefusedIffIllegal, LegalIsSubstituted
=============================================================================
