--------------------------- MODULE FlowTableProofs ---------------------------
(***************************************************************************)
(* Proofs about FlowMatch, for any fields and any width, and FlowTable, for *)
(* any addresses, matches, priorities, timeouts and times.                  *)
(*                                                                         *)
(* Matches without masks are compared as the comments of match_std.c say;   *)
(* matches with masks are not.                                              *)
(*                                                                         *)
(* Of a table: its lists agree with its entries, and two of them are        *)
(* sorted, the one for matching by priority and the one for hard timeouts   *)
(* by time.  That is why the look-up and the round of timeouts may stop     *)
(* early.                                                                   *)
(*                                                                         *)
(* Before that, facts about the operators of Lists and about InsertAt, for  *)
(* lists of any length: what stays in a list, in which order, and where     *)
(* loops stop.                                                              *)
(***************************************************************************)
EXTENDS FlowTable, FiniteSetTheorems, SequenceTheorems, WellFoundedInduction, TLAPS

------------------------------------------------------------------------------
(* Matches *)

\* match_std_strict finds equal matches, if neither has a mask.
THEOREM StrictWithoutMasks ==
  ASSUME NEW a, NEW b, IsMatch(a), IsMatch(b), Unmasked(a), Unmasked(b)
  PROVE  Strict(a, b) <=> SameMatch(a, b)
<1>1. /\ \A f \in DOMAIN a : a[f].val \in SUBSET Bits /\ a[f].mask = Bits /\ a[f].masked = FALSE
      /\ \A f \in DOMAIN b : b[f].val \in SUBSET Bits /\ b[f].mask = Bits /\ b[f].masked = FALSE
  BY DEF IsMatch, Unmasked, Tlv, Word
<1>2. \A v, w \in SUBSET Bits : Differ(v, w) \cap Bits = {} <=> v = w
  BY DEF Differ
<1>3. Strict(a, b) <=> DOMAIN a = DOMAIN b /\ \A f \in DOMAIN a : a[f].val = b[f].val
  BY <1>1 DEF Strict, SameHeader
<1>4. SameMatch(a, b) <=> DOMAIN a = DOMAIN b /\ \A f \in DOMAIN a : a[f].val = b[f].val
  BY <1>1, <1>2 DEF SameMatch
<1> QED
  BY <1>3, <1>4

\* match_std_nonstrict finds the flows whose packets are all covered by the
\* flow-mod's match, if neither has a mask and words have a bit.
THEOREM NonstrictWithoutMasks ==
  ASSUME NEW a, NEW b, IsMatch(a), IsMatch(b), Unmasked(a), Unmasked(b), Bits # {}
  PROVE  Nonstrict(a, b) <=> Wider(a, b)
<1>1. /\ DOMAIN a \subseteq Fields /\ DOMAIN b \subseteq Fields
      /\ \A f \in DOMAIN a : a[f].val \in SUBSET Bits /\ a[f].mask = Bits /\ a[f].masked = FALSE
      /\ \A f \in DOMAIN b : b[f].val \in SUBSET Bits /\ b[f].mask = Bits /\ b[f].masked = FALSE
  BY DEF IsMatch, Unmasked, Tlv, Word
<1>2. \A v, w \in SUBSET Bits : Differ(v, w) \cap Bits = {} <=> v = w
  BY DEF Differ
<1>3. ASSUME NEW pk \in AllPackets, NEW m, DOMAIN m \subseteq Fields,
             \A f \in DOMAIN m : m[f].val \in SUBSET Bits /\ m[f].mask = Bits
      PROVE  Covers(m, pk) <=> \A f \in DOMAIN m : m[f].val = pk[f]
  <2>1. DOMAIN pk = Fields /\ \A f \in Fields : pk[f] \in SUBSET Bits
    BY DEF AllPackets, Word
  <2> QED
    BY <1>2, <1>3, <2>1 DEF Covers
<1>4. ASSUME Nonstrict(a, b) PROVE Wider(a, b)
  <2>1. \A f \in DOMAIN a : f \in DOMAIN b /\ a[f].val = b[f].val
    BY <1>1, <1>4 DEF Nonstrict, SameHeader
  <2> QED
    BY <1>1, <1>3, <2>1 DEF Wider
<1>5. ASSUME Wider(a, b) PROVE Nonstrict(a, b)
  <2> DEFINE pk == [f \in Fields |-> IF f \in DOMAIN b THEN b[f].val
                                     ELSE IF f \in DOMAIN a THEN Bits \ a[f].val ELSE {}]
  <2>1. pk \in AllPackets
    BY <1>1 DEF AllPackets, Word
  <2>2. Covers(b, pk)
    BY <1>1, <1>3, <2>1
  <2>3. \A f \in DOMAIN a : a[f].val = pk[f]
    BY <1>1, <1>3, <1>5, <2>1, <2>2 DEF Wider
  <2>4. \A f \in DOMAIN a : f \in DOMAIN b
    <3>1. \A v : v \in SUBSET Bits => v # Bits \ v
      OBVIOUS
    <3> QED
      BY <1>1, <2>3, <3>1
  <2>5. \A f \in DOMAIN a : a[f].masked = FALSE /\ b[f].masked = FALSE
    BY <1>1, <2>4
  <2>6. \A f \in DOMAIN a : a[f].val = b[f].val
    BY <1>1, <2>3, <2>4
  <2> HIDE DEF pk
  <2> QED
    BY <2>4, <2>5, <2>6 DEF Nonstrict, SameHeader
<1> QED
  BY <1>4, <1>5

\* match_std_overlap finds the matches that share a packet, if neither has a mask.
THEOREM OverlapWithoutMasks ==
  ASSUME NEW a, NEW b, IsMatch(a), IsMatch(b), Unmasked(a), Unmasked(b)
  PROVE  Overlap(a, b) <=> Meet(a, b)
<1>1. /\ DOMAIN a \subseteq Fields /\ DOMAIN b \subseteq Fields
      /\ \A f \in DOMAIN a : a[f].val \in SUBSET Bits /\ a[f].mask = Bits
      /\ \A f \in DOMAIN b : b[f].val \in SUBSET Bits /\ b[f].mask = Bits
  BY DEF IsMatch, Unmasked, Tlv, Word
<1>2. \A v, w \in SUBSET Bits : Differ(v, w) \cap Bits = {} <=> v = w
  BY DEF Differ
<1>3. \A f \in DOMAIN a \cap DOMAIN b : Incompatible(a[f], b[f]) <=> a[f].val # b[f].val
  BY <1>1 DEF Incompatible
<1>4. ASSUME NEW pk \in AllPackets, NEW m, DOMAIN m \subseteq Fields,
             \A f \in DOMAIN m : m[f].val \in SUBSET Bits /\ m[f].mask = Bits
      PROVE  Covers(m, pk) <=> \A f \in DOMAIN m : m[f].val = pk[f]
  <2>1. DOMAIN pk = Fields /\ \A f \in Fields : pk[f] \in SUBSET Bits
    BY DEF AllPackets, Word
  <2> QED
    BY <1>2, <1>4, <2>1 DEF Covers
<1>5. ASSUME Overlap(a, b) PROVE Meet(a, b)
  <2> DEFINE pk == [f \in Fields |-> IF f \in DOMAIN a THEN a[f].val
                                     ELSE IF f \in DOMAIN b THEN b[f].val ELSE {}]
  <2>1. pk \in AllPackets
    BY <1>1 DEF AllPackets, Word
  <2>2. Covers(a, pk)
    BY <1>1, <1>4, <2>1
  <2>3. Covers(b, pk)
    BY <1>1, <1>3, <1>4, <1>5, <2>1 DEF Overlap
  <2> QED
    BY <2>1, <2>2, <2>3 DEF Meet
<1>6. ASSUME Meet(a, b) PROVE Overlap(a, b)
  BY <1>1, <1>3, <1>4, <1>6 DEF Meet, Overlap
<1> QED
  BY <1>5, <1>6

\* With masks it is not so: a flow-mod with a mask selects a flow that has no
\* packet in common with it.
THEOREM NonstrictWithMasksErrs ==
  ASSUME NEW f \in Fields, NEW i \in Bits
  PROVE  LET a == [g \in {f} |-> Masked({}, {i})]
             b == [g \in {f} |-> Masked({i}, {i})]
         IN  Nonstrict(a, b) /\ ~Meet(a, b)
<1> DEFINE a == [g \in {f} |-> Masked({}, {i})]
           b == [g \in {f} |-> Masked({i}, {i})]
<1>1. Nonstrict(a, b)
  BY DEF Nonstrict, SameHeader, NonstrictMask, Not, Masked
<1>2. ASSUME NEW pk \in AllPackets, Covers(a, pk), Covers(b, pk) PROVE FALSE
  <2>1. Differ({}, pk[f]) \cap {i} = {} /\ Differ({i}, pk[f]) \cap {i} = {}
    BY <1>2 DEF Covers, Masked
  <2> QED
    BY <2>1 DEF Differ
<1> QED
  BY <1>1, <1>2 DEF Meet

\* Nor for overlaps: of two prefixes one covers all packets of the other, and no
\* overlap is found.
THEOREM OverlapWithMasksErrs ==
  ASSUME NEW f \in Fields, NEW i \in Bits, NEW j \in Bits, i # j
  PROVE  LET a == [g \in {f} |-> Masked({}, {i})]
             b == [g \in {f} |-> Masked({j}, {i, j})]
         IN  ~Overlap(a, b) /\ Wider(a, b) /\ Meet(a, b)
<1> DEFINE a == [g \in {f} |-> Masked({}, {i})]
           b == [g \in {f} |-> Masked({j}, {i, j})]
           pk == [g \in Fields |-> {j}]
<1>1. ~Overlap(a, b)
  BY DEF Overlap, Incompatible, Masked
<1>2. Wider(a, b)
  BY DEF Wider, Covers, Masked, Differ
<1>3. pk \in AllPackets /\ Covers(a, pk) /\ Covers(b, pk)
  BY DEF AllPackets, Word, Covers, Masked, Differ
<1> QED
  BY <1>1, <1>2, <1>3 DEF Meet
------------------------------------------------------------------------------
(* Induction over numbers, for a set of numbers: it rests on < being          *)
(* well-founded on Nat.                                                       *)

\* Every set of numbers has a least one.
LEMMA LeastNumber ==
  ASSUME NEW T \in SUBSET Nat, T # {}
  PROVE  \E x \in T : \A y \in T : x <= y
<1> DEFINE R == OpToRel(<, Nat)
<1>1. IsWellFoundedOn(R, Nat)
  BY NatLessThanWellFounded
<1>2. PICK x \in T : \A y \in T : ~(<<y, x>> \in R)
  <2> HIDE DEF R
  <2> QED BY <1>1, WFMin
<1>3. ASSUME NEW y \in T, y < x PROVE FALSE
  <2>1. <<y, x>> \in R
    BY <1>3 DEF OpToRel
  <2> QED BY <1>2, <2>1
<1> QED BY <1>3

\* Induction: a set of numbers that has 0 and, with a number, the next has all.
LEMMA AllNumbers ==
  ASSUME NEW S, 0 \in S, \A n \in Nat : n \in S => n + 1 \in S
  PROVE  Nat \subseteq S
<1> SUFFICES ASSUME Nat \ S # {} PROVE FALSE
  OBVIOUS
<1>1. PICK x \in Nat \ S : \A y \in Nat \ S : x <= y
  BY LeastNumber
<1>2. x # 0 /\ x - 1 \in Nat
  BY <1>1
<1>3. x - 1 \in S
  BY <1>1, <1>2
<1> QED BY <1>1, <1>2, <1>3
------------------------------------------------------------------------------
(* Loops that remove elements *)

\* What is left after each round of the loop over l.
Rounds(kept, l, S, m) ==
  /\ DOMAIN kept = 0 .. m
  /\ kept[0] = << >>
  /\ \A n \in 1 .. m :
       kept[n] = IF l[n] \in S THEN Append(kept[n - 1], l[n]) ELSE kept[n - 1]

\* The same as the function that Only defines.
Loop(kept, l, S, m) ==
  kept = [n \in 0 .. m |->
            IF n = 0 THEN << >>
            ELSE IF l[n] \in S THEN Append(kept[n - 1], l[n])
            ELSE kept[n - 1]]

\* The function that Only defines goes round by round.
LEMMA LoopRounds ==
  ASSUME NEW kept, NEW l, NEW S, NEW m \in Nat, Loop(kept, l, S, m)
  PROVE  Rounds(kept, l, S, m)
<1> DEFINE Step(n) == IF n = 0 THEN << >>
                      ELSE IF l[n] \in S THEN Append(kept[n - 1], l[n])
                      ELSE kept[n - 1]
<1>1. kept = [n \in 0 .. m |-> Step(n)]
  BY DEF Loop
<1>2. DOMAIN kept = 0 .. m /\ \A n \in 0 .. m : kept[n] = Step(n)
  <2> HIDE DEF Step
  <2> QED BY <1>1
<1>3. 0 \in 0 .. m /\ \A n \in 1 .. m : n \in 0 .. m /\ n # 0
  OBVIOUS
<1> QED BY <1>2, <1>3 DEF Rounds

\* The loop is defined, for every number of rounds.
LEMMA LoopExists ==
  ASSUME NEW l, NEW S, NEW m \in Nat
  PROVE  \E kept : Loop(kept, l, S, m)
<1> DEFINE Step(kept, n) == IF n = 0 THEN << >>
                            ELSE IF l[n] \in S THEN Append(kept[n - 1], l[n])
                            ELSE kept[n - 1]
           G == {k \in Nat : \E kept : kept = [n \in 0 .. k |-> Step(kept, n)]}
<1>1. 0 \in G
  <2> DEFINE kept == [n \in 0 .. 0 |-> << >>]
  <2>1. \A n \in 0 .. 0 : Step(kept, n) = << >>
    OBVIOUS
  <2>2. kept = [n \in 0 .. 0 |-> Step(kept, n)]
    <3> HIDE DEF Step
    <3> QED BY <2>1
  <2> HIDE DEF kept
  <2> QED BY <2>2
<1>2. ASSUME NEW k \in Nat, k \in G PROVE k + 1 \in G
  <2> HIDE DEF Step
  <2>1. PICK old : old = [n \in 0 .. k |-> Step(old, n)]
    BY <1>2
  <2> DEFINE new == [n \in 0 .. k + 1 |-> Step(old, n)]
  <2>2. \A n \in 0 .. k : new[n] = old[n]
    BY <2>1
  <2>3. \A n \in 0 .. k + 1 : n = 0 \/ n - 1 \in 0 .. k
    OBVIOUS
  <2>4. DOMAIN new = 0 .. k + 1 /\ \A n \in 0 .. k + 1 : new[n] = Step(old, n)
    OBVIOUS
  <2>5. new = [n \in 0 .. k + 1 |-> new[n]]
    OBVIOUS
  <2> HIDE DEF new
  <2>6. \A n \in 0 .. k + 1 : Step(new, n) = Step(old, n)
    BY <2>2, <2>3 DEF Step
  <2>7. new = [n \in 0 .. k + 1 |-> Step(new, n)]
    BY <2>4, <2>5, <2>6
  <2> QED BY <2>7
<1>3. m \in G
  <2> HIDE DEF G
  <2> QED BY <1>1, <1>2, AllNumbers
<1> QED BY <1>3 DEF Loop

\* The same list gives the same rounds.
LEMMA RoundsAgree ==
  ASSUME NEW l, NEW k, NEW S, NEW m \in Nat, NEW n \in Nat, m <= n,
         \A i \in 1 .. m : l[i] = k[i],
         NEW f, Rounds(f, l, S, m), NEW g, Rounds(g, k, S, n)
  PROVE  f[m] = g[m]
<1> DEFINE G == {i \in Nat : i <= m => f[i] = g[i]}
<1>1. 0 \in G
  BY DEF Rounds
<1>2. ASSUME NEW i \in Nat, i \in G PROVE i + 1 \in G
  <2> SUFFICES ASSUME i + 1 <= m PROVE f[i + 1] = g[i + 1]
    OBVIOUS
  <2>1. i + 1 \in 1 .. m /\ i + 1 \in 1 .. n /\ (i + 1) - 1 = i /\ i <= m
    OBVIOUS
  <2>2. f[i] = g[i] /\ l[i + 1] = k[i + 1]
    BY <1>2, <2>1
  <2> QED BY <2>1, <2>2 DEF Rounds
<1>3. m \in G
  <2> HIDE DEF G
  <2> QED BY <1>1, <1>2, AllNumbers
<1> QED BY <1>3

\* Only returns what the last round leaves.
LEMMA OnlyIsLastRound ==
  ASSUME NEW l, NEW S, Len(l) \in Nat
  PROVE  \E kept : Rounds(kept, l, S, Len(l)) /\ Only(l, S) = kept[Len(l)]
<1> DEFINE kept == CHOOSE k : Loop(k, l, S, Len(l))
<1>1. Loop(kept, l, S, Len(l))
  BY LoopExists
<1>2. Only(l, S) = kept[Len(l)]
  BY DEF Only, Loop
<1> QED BY <1>1, <1>2, LoopRounds

\* The loop over the empty list.
LEMMA OnlyEmpty ==
  ASSUME NEW S
  PROVE  Only(<< >>, S) = << >>
<1>1. Len(<< >>) = 0 /\ 0 \in Nat
  OBVIOUS
<1>2. PICK kept : Rounds(kept, << >>, S, Len(<< >>)) /\ Only(<< >>, S) = kept[Len(<< >>)]
  BY <1>1, OnlyIsLastRound
<1> QED BY <1>1, <1>2 DEF Rounds

\* The loop over a list that is one element longer.
LEMMA OnlyAppend ==
  ASSUME NEW A, NEW l \in Seq(A), NEW e \in A, NEW S
  PROVE  Only(Append(l, e), S) = IF e \in S THEN Append(Only(l, S), e) ELSE Only(l, S)
<1> DEFINE k == Append(l, e)
           n == Len(l)
<1>2. /\ n \in Nat /\ Len(k) = n + 1 /\ Len(k) \in Nat /\ k[n + 1] = e
      /\ \A i \in 1 .. n : l[i] = k[i]
  OBVIOUS
<1> HIDE DEF k
<1>3. PICK f : Rounds(f, l, S, n) /\ Only(l, S) = f[n]
  BY <1>2, OnlyIsLastRound
<1>4. PICK g : Rounds(g, k, S, n + 1) /\ Only(k, S) = g[n + 1]
  <2>1. \E g : Rounds(g, k, S, Len(k)) /\ Only(k, S) = g[Len(k)]
    BY <1>2, OnlyIsLastRound
  <2> HIDE DEF n
  <2> QED BY <1>2, <2>1
<1> HIDE DEF n
<1>5. f[n] = g[n]
  <2>1. n + 1 \in Nat /\ n <= n + 1
    BY <1>2
  <2> QED BY <1>2, <1>3, <1>4, <2>1, RoundsAgree
<1>6. n + 1 \in 1 .. n + 1 /\ (n + 1) - 1 = n
  BY <1>2
<1>7. Only(k, S) = IF e \in S THEN Append(Only(l, S), e) ELSE Only(l, S)
  BY <1>2, <1>3, <1>4, <1>5, <1>6 DEF Rounds
<1> QED BY <1>7 DEF k

\* Induction: a set that has the empty list and, with a list, those that are one
\* element longer has all lists.
LEMMA AllLists ==
  ASSUME NEW A, NEW T, << >> \in T,
         \A l \in Seq(A) : \A e \in A : l \in T => Append(l, e) \in T
  PROVE  Seq(A) \subseteq T
<1> DEFINE G == {n \in Nat : \A l \in Seq(A) : Len(l) = n => l \in T}
<1>1. 0 \in G
  BY EmptySeq
<1>2. ASSUME NEW n \in Nat, n \in G PROVE n + 1 \in G
  <2> SUFFICES ASSUME NEW l \in Seq(A), Len(l) = n + 1 PROVE l \in T
    OBVIOUS
  <2> DEFINE k == [i \in 1 .. n |-> l[i]]
  <2>1. /\ DOMAIN l = 1 .. n + 1 /\ n + 1 \in 1 .. n + 1
        /\ \A i \in 1 .. n : i \in 1 .. n + 1
        /\ \A i \in 1 .. n + 1 : i \in 1 .. n \/ i = n + 1
    OBVIOUS
  <2>2. \A i \in 1 .. n + 1 : l[i] \in A
    BY <2>1
  <2>3. k \in Seq(A) /\ Len(k) = n
    BY <2>1, <2>2
  <2>4. k \in T
    BY <1>2, <2>3
  <2>5. l = Append(k, l[n + 1])
    <3>1. Append(k, l[n + 1]) \in Seq(A) /\ Len(Append(k, l[n + 1])) = n + 1
      BY <2>1, <2>2, <2>3
    <3>2. \A i \in 1 .. n + 1 : Append(k, l[n + 1])[i] = l[i]
      BY <2>1, <2>2, <2>3
    <3> HIDE DEF k
    <3> QED BY <3>1, <3>2, SeqEqual
  <2> HIDE DEF k
  <2> QED BY <2>1, <2>2, <2>3, <2>4, <2>5
<1>3. Nat \subseteq G
  <2> HIDE DEF G
  <2> QED BY <1>1, <1>2, AllNumbers
<1> QED BY <1>3
------------------------------------------------------------------------------
(* Lists *)

\* Element e behind the others.
LEMMA AppendFacts ==
  ASSUME NEW A, NEW l \in Seq(A), NEW e \in A
  PROVE  /\ Append(l, e) \in Seq(A)
         /\ ToSet(Append(l, e)) = ToSet(l) \cup {e}
         /\ \A a, b : Before(Append(l, e), a, b) <=>
                        Before(l, a, b) \/ (b = e /\ a \in ToSet(l))
         /\ NoTwice(Append(l, e)) <=> NoTwice(l) /\ e \notin ToSet(l)
<1> DEFINE k == Append(l, e)
           n == Len(l)
<1>1. /\ n \in Nat /\ DOMAIN l = 1 .. n /\ k \in Seq(A)
      /\ DOMAIN k = 1 .. n + 1
      /\ \A j \in 1 .. n : k[j] = l[j]
      /\ k[n + 1] = e
  OBVIOUS
<1> HIDE DEF k, n
<1>2. /\ \A j \in 1 .. n + 1 : j \in 1 .. n \/ j = n + 1
      /\ \A j \in 1 .. n : j \in 1 .. n + 1 /\ j # n + 1 /\ j < n + 1 /\ ~(n + 1 < j)
      /\ n + 1 \in 1 .. n + 1 /\ ~(n + 1 < n + 1)
  BY <1>1
<1>3. ToSet(k) = ToSet(l) \cup {e}
  BY <1>1, <1>2 DEF ToSet
<1>4. \A a, b : Before(k, a, b) <=> Before(l, a, b) \/ (b = e /\ a \in ToSet(l))
  <2>1. ASSUME NEW a, NEW b, Before(k, a, b)
        PROVE  Before(l, a, b) \/ (b = e /\ a \in ToSet(l))
    BY <1>1, <1>2, <2>1 DEF Before, ToSet
  <2>2. ASSUME NEW a, NEW b, Before(l, a, b) PROVE Before(k, a, b)
    BY <1>1, <1>2, <2>2 DEF Before
  <2>3. ASSUME NEW a \in ToSet(l) PROVE Before(k, a, e)
    BY <1>1, <1>2, <2>3 DEF Before, ToSet
  <2> QED BY <2>1, <2>2, <2>3
<1>5. NoTwice(k) <=> NoTwice(l) /\ e \notin ToSet(l)
  <2>1. ASSUME NoTwice(k) PROVE NoTwice(l) /\ e \notin ToSet(l)
    BY <1>1, <1>2, <2>1 DEF NoTwice, ToSet
  <2>2. ASSUME NoTwice(l), e \notin ToSet(l) PROVE NoTwice(k)
    BY <1>1, <1>2, <2>2 DEF NoTwice, ToSet
  <2> QED BY <2>1, <2>2
<1> QED BY <1>1, <1>3, <1>4, <1>5 DEF k

\* What Only leaves: the elements in S, in the order they had.
LEMMA OnlyFacts ==
  ASSUME NEW A, NEW l \in Seq(A), NEW S
  PROVE  /\ Only(l, S) \in Seq(A)
         /\ ToSet(Only(l, S)) = ToSet(l) \cap S
         /\ \A a, b : Before(Only(l, S), a, b) <=> Before(l, a, b) /\ a \in S /\ b \in S
         /\ NoTwice(l) => NoTwice(Only(l, S))
<1> DEFINE Facts(k) ==
             /\ Only(k, S) \in Seq(A)
             /\ ToSet(Only(k, S)) = ToSet(k) \cap S
             /\ \A a, b : Before(Only(k, S), a, b) <=> Before(k, a, b) /\ a \in S /\ b \in S
             /\ NoTwice(k) => NoTwice(Only(k, S))
           T == {k \in Seq(A) : Facts(k)}
<1>1. << >> \in T
  <2>1. << >> \in Seq(A) /\ DOMAIN << >> = {}
    OBVIOUS
  <2>2. Only(<< >>, S) = << >>
    BY OnlyEmpty
  <2>3. ToSet(<< >>) = {} /\ NoTwice(<< >>) /\ \A a, b : ~Before(<< >>, a, b)
    BY <2>1 DEF ToSet, NoTwice, Before
  <2> QED BY <2>1, <2>2, <2>3
<1>2. ASSUME NEW k \in Seq(A), NEW e \in A, k \in T PROVE Append(k, e) \in T
  <2> DEFINE w == Only(k, S)
  <2>1. Facts(k)
    BY <1>2
  <2>2. Only(Append(k, e), S) = IF e \in S THEN Append(w, e) ELSE w
    BY OnlyAppend
  <2>3. /\ Append(k, e) \in Seq(A) /\ ToSet(Append(k, e)) = ToSet(k) \cup {e}
        /\ \A a, b : Before(Append(k, e), a, b) <=>
                        Before(k, a, b) \/ (b = e /\ a \in ToSet(k))
        /\ NoTwice(Append(k, e)) <=> NoTwice(k) /\ e \notin ToSet(k)
    BY AppendFacts
  <2> HIDE DEF w
  <2>4. /\ w \in Seq(A)
        /\ ToSet(w) = ToSet(k) \cap S
        /\ \A a, b : Before(w, a, b) <=> Before(k, a, b) /\ a \in S /\ b \in S
        /\ NoTwice(k) => NoTwice(w)
    BY <2>1 DEF w
  <2>5. /\ Append(w, e) \in Seq(A) /\ ToSet(Append(w, e)) = ToSet(w) \cup {e}
        /\ \A a, b : Before(Append(w, e), a, b) <=>
                        Before(w, a, b) \/ (b = e /\ a \in ToSet(w))
        /\ NoTwice(Append(w, e)) <=> NoTwice(w) /\ e \notin ToSet(w)
    BY <2>4, AppendFacts
  <2>6. CASE e \in S
    <3>1. Only(Append(k, e), S) = Append(w, e)
      BY <2>2, <2>6
    <3>2. Facts(Append(k, e))
      BY <2>3, <2>4, <2>5, <2>6, <3>1
    <3> HIDE DEF Facts
    <3> QED BY <2>3, <3>2
  <2>7. CASE e \notin S
    <3>1. Only(Append(k, e), S) = w
      BY <2>2, <2>7
    <3>2. \A a : a \in S => a # e
      BY <2>7
    <3>3. Facts(Append(k, e))
      BY <2>3, <2>4, <2>7, <3>1, <3>2
    <3> HIDE DEF Facts
    <3> QED BY <2>3, <3>3
  <2> QED BY <2>6, <2>7
<1>3. Seq(A) \subseteq T
  <2> HIDE DEF T
  <2> QED BY <1>1, <1>2, AllLists
<1>4. Facts(l)
  BY <1>3
<1> QED BY <1>4

\* Where a loop over l stops that looks for an element in S.
LEMMA FirstPlaceFacts ==
  ASSUME NEW A, NEW l \in Seq(A), NEW S
  PROVE  /\ FirstPlace(l, S) \in 1 .. Len(l) + 1
         /\ FirstPlace(l, S) <= Len(l) => l[FirstPlace(l, S)] \in S
         /\ \A j \in 1 .. FirstPlace(l, S) - 1 : l[j] \notin S
<1> DEFINE T == {i \in 1 .. Len(l) + 1 : i <= Len(l) => l[i] \in S}
<1>1. Len(l) \in Nat
  OBVIOUS
<1>2. T \in SUBSET Nat /\ Len(l) + 1 \in T
  BY <1>1
<1>3. PICK i \in T : \A k \in T : i <= k
  <2> HIDE DEF T
  <2> QED BY <1>2, LeastNumber
<1>4. i \in 1 .. Len(l) + 1 /\ (i <= Len(l) => l[i] \in S)
  OBVIOUS
<1>5. ASSUME NEW j \in 1 .. i - 1 PROVE l[j] \notin S
  <2>1. j \in 1 .. Len(l) + 1 /\ ~(i <= j)
    BY <1>1, <1>4
  <2> QED BY <1>3, <2>1
<1>6. \E p \in 1 .. Len(l) + 1 : /\ p <= Len(l) => l[p] \in S
                                 /\ \A j \in 1 .. p - 1 : l[j] \notin S
  BY <1>4, <1>5
<1> QED BY <1>6 DEF FirstPlace

\* Element e in place i of a list.
LEMMA InsertAtElements ==
  ASSUME NEW A, NEW l \in Seq(A), NEW i \in 1 .. Len(l) + 1, NEW e \in A
  PROVE  /\ InsertAt(l, i, e) \in Seq(A)
         /\ Len(InsertAt(l, i, e)) = Len(l) + 1
         /\ \A j \in 1 .. i - 1 : InsertAt(l, i, e)[j] = l[j]
         /\ InsertAt(l, i, e)[i] = e
         /\ \A j \in i .. Len(l) : InsertAt(l, i, e)[j + 1] = l[j]
<1>1. Len(l) \in Nat /\ i \in Nat /\ i >= 1 /\ i <= Len(l) + 1
  OBVIOUS
<1>2. /\ SubSeq(l, 1, i - 1) \in Seq(A) /\ Len(SubSeq(l, 1, i - 1)) = i - 1
      /\ \A j \in 1 .. i - 1 : SubSeq(l, 1, i - 1)[j] = l[j]
  BY <1>1
<1>3. /\ SubSeq(l, i, Len(l)) \in Seq(A) /\ Len(SubSeq(l, i, Len(l))) = Len(l) - i + 1
      /\ \A j \in 1 .. Len(l) - i + 1 : SubSeq(l, i, Len(l))[j] = l[i + j - 1]
  BY <1>1
<1> DEFINE front == SubSeq(l, 1, i - 1)
           back == SubSeq(l, i, Len(l))
<1>4. InsertAt(l, i, e) = front \o <<e>> \o back
  BY DEF InsertAt
<1> HIDE DEF front, back
<1>5. <<e>> \in Seq(A) /\ Len(<<e>>) = 1 /\ <<e>>[1] = e
  OBVIOUS
<1>6. /\ front \o <<e>> \in Seq(A) /\ Len(front \o <<e>>) = i
      /\ \A j \in 1 .. i : (front \o <<e>>)[j] = IF j <= i - 1 THEN l[j] ELSE e
  BY <1>1, <1>2, <1>5, ConcatProperties DEF front
<1>7. /\ front \o <<e>> \o back \in Seq(A) /\ Len(front \o <<e>> \o back) = Len(l) + 1
      /\ \A j \in 1 .. Len(l) + 1 : (front \o <<e>> \o back)[j] =
            IF j <= i THEN (front \o <<e>>)[j] ELSE back[j - i]
  <2> DEFINE most == front \o <<e>>
  <2>1. most \in Seq(A) /\ Len(most) = i
    BY <1>6
  <2>2. back \in Seq(A) /\ Len(back) = Len(l) - i + 1
    BY <1>3 DEF back
  <2> HIDE DEF most
  <2>3. /\ most \o back \in Seq(A) /\ Len(most \o back) = Len(most) + Len(back)
        /\ \A j \in 1 .. Len(most) + Len(back) :
             (most \o back)[j] = IF j <= Len(most) THEN most[j] ELSE back[j - Len(most)]
    BY <2>1, <2>2, ConcatProperties
  <2>4. i + (Len(l) - i + 1) = Len(l) + 1
    BY <1>1
  <2> QED BY <2>1, <2>2, <2>3, <2>4 DEF most
<1>8. \A j \in 1 .. i - 1 : (front \o <<e>> \o back)[j] = l[j]
  BY <1>1, <1>6, <1>7
<1>9. (front \o <<e>> \o back)[i] = e
  BY <1>1, <1>6, <1>7
<1>10. ASSUME NEW j \in i .. Len(l)
       PROVE  (front \o <<e>> \o back)[j + 1] = l[j]
  <2>1. j + 1 \in 1 .. Len(l) + 1 /\ ~(j + 1 <= i) /\ j + 1 - i \in 1 .. Len(l) - i + 1
    BY <1>1
  <2>2. i + (j + 1 - i) - 1 = j
    BY <1>1
  <2>3. (front \o <<e>> \o back)[j + 1] = back[j + 1 - i]
    BY <1>7, <2>1
  <2>4. back[j + 1 - i] = l[i + (j + 1 - i) - 1]
    BY <1>3, <2>1 DEF back
  <2> QED BY <2>2, <2>3, <2>4
<1> QED BY <1>4, <1>7, <1>8, <1>9, <1>10

\* What the list has then, and in which order.
LEMMA InsertAtFacts ==
  ASSUME NEW A, NEW l \in Seq(A), NEW i \in 1 .. Len(l) + 1, NEW e \in A
  PROVE  /\ InsertAt(l, i, e) \in Seq(A)
         /\ ToSet(InsertAt(l, i, e)) = ToSet(l) \cup {e}
         /\ \A a, b : Before(InsertAt(l, i, e), a, b) <=>
              \/ Before(l, a, b)
              \/ b = e /\ \E j \in 1 .. i - 1 : l[j] = a
              \/ a = e /\ \E j \in i .. Len(l) : l[j] = b
         /\ NoTwice(l) /\ e \notin ToSet(l) => NoTwice(InsertAt(l, i, e))
<1> DEFINE w == InsertAt(l, i, e)
           At(j) == IF j < i THEN j ELSE j + 1
<1>0. /\ w \in Seq(A)
      /\ Len(w) = Len(l) + 1
      /\ \A j \in 1 .. i - 1 : w[j] = l[j]
      /\ w[i] = e
      /\ \A j \in i .. Len(l) : w[j + 1] = l[j]
  <2> HIDE DEF At
  <2>1. w \in Seq(A)
    BY InsertAtElements
  <2>2. Len(w) = Len(l) + 1
    BY InsertAtElements
  <2>3. \A j \in 1 .. i - 1 : w[j] = l[j]
    BY InsertAtElements
  <2>4. w[i] = e
    BY InsertAtElements
  <2>5. \A j \in i .. Len(l) : w[j + 1] = l[j]
    BY InsertAtElements
  <2> QED BY <2>1, <2>2, <2>3, <2>4, <2>5
<1> HIDE DEF w
<1>1. /\ w \in Seq(A) /\ Len(w) = Len(l) + 1 /\ Len(l) \in Nat
      /\ i \in Nat /\ i >= 1 /\ i <= Len(l) + 1
      /\ DOMAIN w = 1 .. Len(l) + 1 /\ DOMAIN l = 1 .. Len(l)
      /\ w[i] = e
      /\ \A j \in 1 .. i - 1 : w[j] = l[j]
      /\ \A j \in i .. Len(l) : w[j + 1] = l[j]
  BY <1>0
<1>2. \A j \in 1 .. Len(l) : At(j) \in 1 .. Len(l) + 1 /\ At(j) # i /\ w[At(j)] = l[j]
  <2>1. ASSUME NEW j \in 1 .. Len(l), j < i
        PROVE  At(j) \in 1 .. Len(l) + 1 /\ At(j) # i /\ w[At(j)] = l[j]
    <3>1. j \in 1 .. i - 1 /\ At(j) = j
      BY <1>1, <2>1
    <3>2. w[j] = l[j]
      BY <1>1, <3>1
    <3> QED BY <1>1, <2>1, <3>1, <3>2
  <2>2. ASSUME NEW j \in 1 .. Len(l), ~(j < i)
        PROVE  At(j) \in 1 .. Len(l) + 1 /\ At(j) # i /\ w[At(j)] = l[j]
    <3>1. j \in i .. Len(l) /\ At(j) = j + 1
      BY <1>1, <2>2
    <3>2. w[j + 1] = l[j]
      BY <1>1, <3>1
    <3> QED BY <1>1, <2>2, <3>1, <3>2
  <2> HIDE DEF At
  <2> QED BY <2>1, <2>2
<1>3. \A k \in 1 .. Len(l) + 1 : k # i => \E j \in 1 .. Len(l) : k = At(j)
  <2>1. ASSUME NEW k \in 1 .. Len(l) + 1, k # i PROVE \E j \in 1 .. Len(l) : k = At(j)
    <3>1. CASE k < i
      <4>1. k \in 1 .. Len(l) /\ k = At(k)
        BY <1>1, <3>1
      <4> QED BY <4>1
    <3>2. CASE k > i
      <4>1. k - 1 \in 1 .. Len(l) /\ k = At(k - 1)
        BY <1>1, <3>2
      <4> QED BY <4>1
    <3> QED BY <1>1, <2>1, <3>1, <3>2
  <2> QED BY <2>1
<1>4. \A j, k \in 1 .. Len(l) : /\ j < k <=> At(j) < At(k)
                                /\ At(j) = At(k) => j = k
                                /\ At(j) < i <=> j \in 1 .. i - 1
                                /\ i < At(j) <=> j \in i .. Len(l)
  BY <1>1
<1> HIDE DEF At
<1>5. ToSet(w) = ToSet(l) \cup {e}
  <2>1. i \in 1 .. Len(l) + 1
    OBVIOUS
  <2>2. ASSUME NEW k \in 1 .. Len(l) + 1 PROVE w[k] \in ToSet(l) \cup {e}
    <3>1. CASE k = i
      BY <3>1, <1>1
    <3>2. CASE k # i
      <4>1. PICK j \in 1 .. Len(l) : k = At(j)
        BY <1>3, <3>2
      <4>2. w[k] = l[j]
        BY <1>2, <4>1
      <4> QED BY <1>1, <4>1, <4>2 DEF ToSet
    <3> QED BY <3>1, <3>2
  <2>3. ASSUME NEW j \in 1 .. Len(l) PROVE l[j] \in ToSet(w)
    BY <1>1, <1>2 DEF ToSet
  <2> QED BY <1>1, <2>1, <2>2, <2>3 DEF ToSet
<1>6. ASSUME NEW a, NEW b, Before(w, a, b)
      PROVE  \/ Before(l, a, b)
             \/ b = e /\ \E j \in 1 .. i - 1 : l[j] = a
             \/ a = e /\ \E j \in i .. Len(l) : l[j] = b
  <2>1. PICK m, n \in 1 .. Len(l) + 1 : m < n /\ w[m] = a /\ w[n] = b
    BY <1>1, <1>6 DEF Before
  <2>2. CASE n = i
    <3>1. PICK j \in 1 .. Len(l) : m = At(j)
      BY <1>3, <2>1, <2>2
    <3> QED BY <1>1, <1>2, <1>4, <2>1, <2>2, <3>1
  <2>3. CASE m = i
    <3>1. PICK j \in 1 .. Len(l) : n = At(j)
      BY <1>3, <2>1, <2>3
    <3> QED BY <1>1, <1>2, <1>4, <2>1, <2>3, <3>1
  <2>4. CASE m # i /\ n # i
    <3>1. PICK j, k \in 1 .. Len(l) : m = At(j) /\ n = At(k)
      BY <1>3, <2>4
    <3> QED BY <1>1, <1>2, <1>4, <2>1, <3>1 DEF Before
  <2> QED BY <2>2, <2>3, <2>4
<1>7. ASSUME NEW a, NEW b, Before(l, a, b) PROVE Before(w, a, b)
  <2>1. PICK j, k \in 1 .. Len(l) : j < k /\ l[j] = a /\ l[k] = b
    BY <1>1, <1>7 DEF Before
  <2> QED BY <1>1, <1>2, <1>4, <2>1 DEF Before
<1>8. ASSUME NEW j \in 1 .. i - 1 PROVE Before(w, l[j], e)
  <2>1. j \in 1 .. Len(l) /\ i \in 1 .. Len(l) + 1
    BY <1>1
  <2>2. At(j) \in 1 .. Len(l) + 1 /\ At(j) < i /\ w[At(j)] = l[j]
    BY <1>2, <1>4, <2>1
  <2> QED BY <1>1, <2>1, <2>2 DEF Before
<1>9. ASSUME NEW j \in i .. Len(l) PROVE Before(w, e, l[j])
  <2>1. j \in 1 .. Len(l) /\ i \in 1 .. Len(l) + 1
    BY <1>1
  <2>2. At(j) \in 1 .. Len(l) + 1 /\ i < At(j) /\ w[At(j)] = l[j]
    BY <1>2, <1>4, <2>1
  <2> QED BY <1>1, <2>1, <2>2 DEF Before
<1>10. ASSUME NoTwice(l), e \notin ToSet(l), NEW m \in 1 .. Len(l) + 1,
              NEW n \in 1 .. Len(l) + 1, w[m] = w[n]
       PROVE  m = n
  <2>1. \A k \in 1 .. Len(l) : l[k] # e
    BY <1>1, <1>10 DEF ToSet
  <2>2. (m = i) <=> (n = i)
    BY <1>1, <1>2, <1>3, <1>10, <2>1
  <2>3. CASE m # i
    <3>1. PICK j, k \in 1 .. Len(l) : m = At(j) /\ n = At(k)
      BY <1>3, <2>2, <2>3
    <3> QED BY <1>1, <1>2, <1>10, <3>1 DEF NoTwice
  <2> QED BY <2>2, <2>3
<1> QED BY <1>1, <1>5, <1>6, <1>7, <1>8, <1>9, <1>10 DEF NoTwice, w

\* Element e in the place of the one in place i.
LEMMA ReplaceFacts ==
  ASSUME NEW A, NEW l \in Seq(A), NEW i \in 1 .. Len(l), NEW e \in A,
         NoTwice(l), e \notin ToSet(l)
  PROVE  /\ [l EXCEPT ![i] = e] \in Seq(A)
         /\ ToSet([l EXCEPT ![i] = e]) = (ToSet(l) \ {l[i]}) \cup {e}
         /\ \A a, b \in ToSet(l) \ {l[i]} :
              Before([l EXCEPT ![i] = e], a, b) <=> Before(l, a, b)
         /\ \A a \in ToSet(l) \ {l[i]} :
              /\ Before([l EXCEPT ![i] = e], a, e) <=> Before(l, a, l[i])
              /\ Before([l EXCEPT ![i] = e], e, a) <=> Before(l, l[i], a)
         /\ ~Before([l EXCEPT ![i] = e], e, e)
         /\ NoTwice([l EXCEPT ![i] = e])
<1> DEFINE w == [l EXCEPT ![i] = e]
<1>1. /\ Len(l) \in Nat /\ DOMAIN l = 1 .. Len(l) /\ w \in Seq(A)
      /\ DOMAIN w = 1 .. Len(l) /\ w[i] = e
      /\ \A j \in 1 .. Len(l) : j # i => w[j] = l[j]
  OBVIOUS
<1>2. \A j \in 1 .. Len(l) : l[j] # e /\ (j # i => l[j] # l[i])
  BY <1>1 DEF ToSet, NoTwice
<1>3. \A j \in 1 .. Len(l) : w[j] = e <=> j = i
  BY <1>1, <1>2
<1> HIDE DEF w
<1>4. ToSet(w) = (ToSet(l) \ {l[i]}) \cup {e}
  BY <1>1, <1>2, <1>3 DEF ToSet
<1>5. \A a \in ToSet(l) \ {l[i]} : \A j \in 1 .. Len(l) : w[j] = a <=> l[j] = a
  BY <1>1, <1>2, <1>3 DEF ToSet
<1>6. \A j \in 1 .. Len(l) : w[j] = e <=> l[j] = l[i]
  BY <1>2, <1>3
<1>7. ~Before(w, e, e)
  BY <1>1, <1>3 DEF Before
<1>8. NoTwice(w)
  BY <1>1, <1>2, <1>3 DEF NoTwice
<1>9. \A a, b \in ToSet(l) \ {l[i]} : Before(w, a, b) <=> Before(l, a, b)
  BY <1>1, <1>5 DEF Before
<1>10. \A a \in ToSet(l) \ {l[i]} :
         (Before(w, a, e) <=> Before(l, a, l[i])) /\ (Before(w, e, a) <=> Before(l, l[i], a))
  BY <1>1, <1>5, <1>6 DEF Before
<1> QED BY <1>1, <1>4, <1>7, <1>8, <1>9, <1>10 DEF w
------------------------------------------------------------------------------
(* The lists of a table *)

ByPriority ==
  \A a, b : Before(matchList, a, b) => entries[a].prio >= entries[b].prio

ByTime ==
  \A a, b : Before(hardList, a, b) => entries[a].removeAt <= entries[b].removeAt

IInv == TypeOK /\ ListsAgree /\ ByPriority /\ ByTime

LEMMA BeforeIn ==
  ASSUME NEW l, NEW a, NEW b, Before(l, a, b)
  PROVE  a \in ToSet(l) /\ b \in ToSet(l)
BY DEF Before, ToSet

\* The fields of an entry.
LEMMA EntryFields ==
  ASSUME TypeOK
  PROVE  /\ DOMAIN entries \in SUBSET Addresses
         /\ \A a \in DOMAIN entries :
              /\ entries[a] \in Entry
              /\ entries[a].prio \in Nat /\ entries[a].removeAt \in Nat
              /\ entries[a].idle \in Nat /\ entries[a].lastUsed \in Nat
BY FlowTableAssumption DEF TypeOK, Entry

LEMMA ListsTyped ==
  ASSUME TypeOK
  PROVE  /\ matchList \in Seq(Addresses) /\ hardList \in Seq(Addresses)
         /\ idleList \in Seq(Addresses)
BY DEF TypeOK

\* A set of entries, with one that leaves and one that comes, and with several
\* that leave.
LEMMA Counts ==
  ASSUME NEW D \in SUBSET Addresses
  PROVE  /\ IsFiniteSet(D) /\ Cardinality(D) \in Nat
         /\ \A a \in Addresses \ D : Cardinality(D \cup {a}) = Cardinality(D) + 1
         /\ \A a \in Addresses \ D, b \in D :
              Cardinality((D \ {b}) \cup {a}) = Cardinality(D)
         /\ \A G \in SUBSET D : /\ Cardinality(D \ G) = Cardinality(D) - Cardinality(G)
                                /\ Cardinality(D \ G) \in Nat /\ Cardinality(G) \in Nat
<1>1. IsFiniteSet(D) /\ Cardinality(D) \in Nat
  BY FlowTableAssumption, FS_Subset, FS_CardinalityType
<1>2. \A a \in Addresses \ D : Cardinality(D \cup {a}) = Cardinality(D) + 1
  BY <1>1, FS_AddElement
<1>3. ASSUME NEW a \in Addresses \ D, NEW b \in D
      PROVE  Cardinality((D \ {b}) \cup {a}) = Cardinality(D)
  <2>1. IsFiniteSet(D \ {b}) /\ Cardinality(D \ {b}) = Cardinality(D) - 1
    BY <1>1, FS_RemoveElement
  <2>2. a \notin D \ {b}
    OBVIOUS
  <2>3. Cardinality((D \ {b}) \cup {a}) = Cardinality(D \ {b}) + 1
    BY <2>1, <2>2, FS_AddElement
  <2> QED BY <1>1, <2>1, <2>3
<1>4. ASSUME NEW G \in SUBSET D
      PROVE  /\ Cardinality(D \ G) = Cardinality(D) - Cardinality(G)
             /\ Cardinality(D \ G) \in Nat /\ Cardinality(G) \in Nat
  <2>1. IsFiniteSet(D \ G) /\ IsFiniteSet(G)
    BY <1>1, FS_Subset
  <2>2. D = (D \ G) \cup G /\ (D \ G) \cap G = {}
    OBVIOUS
  <2>3. Cardinality((D \ G) \cup G)
          = Cardinality(D \ G) + Cardinality(G) - Cardinality((D \ G) \cap G)
    BY <2>1, FS_Union
  <2>4. Cardinality((D \ G) \cap G) = 0
    BY <2>2, FS_EmptySet
  <2>5. Cardinality(D \ G) \in Nat /\ Cardinality(G) \in Nat
    BY <2>1, FS_CardinalityType
  <2>6. Cardinality(D) = Cardinality(D \ G) + Cardinality(G) - 0
    BY <2>2, <2>3, <2>4
  <2> QED BY <2>5, <2>6
<1> QED BY <1>1, <1>2, <1>3, <1>4

\* What is left of a list when entries leave it.
LEMMA WithoutFacts ==
  ASSUME NEW l \in Seq(Addresses), NoTwice(l), NEW gone
  PROVE  /\ Without(l, gone) \in Seq(Addresses)
         /\ ToSet(Without(l, gone)) = ToSet(l) \ gone
         /\ \A a, b : Before(Without(l, gone), a, b) <=>
                        Before(l, a, b) /\ a \notin gone /\ b \notin gone
         /\ NoTwice(Without(l, gone))
<1>1. ToSet(l) \subseteq Addresses
  BY DEF ToSet
<1>2. \A a, b : Before(l, a, b) => a \in Addresses /\ b \in Addresses
  BY <1>1, BeforeIn
<1> QED BY <1>1, <1>2, OnlyFacts DEF Without

\* Entries leave the table.
LEMMA LeaveInv ==
  ASSUME IInv, NEW gone \in SUBSET DOMAIN entries, Leave(gone), now' \in Nat, due' \in Nat
  PROVE  IInv'
<1>1. /\ DOMAIN entries' = DOMAIN entries \ gone
      /\ \A a \in DOMAIN entries \ gone : entries'[a] = entries[a]
      /\ matchList' = Without(matchList, gone) /\ hardList' = Without(hardList, gone)
      /\ idleList' = Without(idleList, gone) /\ active' = active - Cardinality(gone)
  BY DEF Leave
<1>2. \A l \in {matchList, hardList, idleList} : l \in Seq(Addresses) /\ NoTwice(l)
  BY ListsTyped DEF IInv, ListsAgree
<1>3. active' = Cardinality(DOMAIN entries') /\ active' \in 0 .. MaxEntries
  <2>1. /\ Cardinality(DOMAIN entries \ gone) = Cardinality(DOMAIN entries) - Cardinality(gone)
        /\ Cardinality(DOMAIN entries \ gone) \in Nat /\ Cardinality(gone) \in Nat
    BY Counts DEF IInv, TypeOK
  <2>2. active = Cardinality(DOMAIN entries) /\ active \in 0 .. MaxEntries /\ MaxEntries \in Nat
    BY FlowTableAssumption DEF IInv, ListsAgree, TypeOK
  <2> QED BY <1>1, <2>1, <2>2
<1>4. TypeOK'
  <2>1. entries' \in [DOMAIN entries' -> Entry]
    BY <1>1, EntryFields DEF IInv, Leave
  <2>2. DOMAIN entries' \subseteq Addresses
    BY <1>1, EntryFields DEF IInv
  <2> QED BY <1>1, <1>2, <1>3, <2>1, <2>2, WithoutFacts DEF TypeOK
<1>5. ListsAgree'
  <2>1. \A l \in {matchList', hardList', idleList'} : NoTwice(l)
    BY <1>1, <1>2, WithoutFacts
  <2>2. ToSet(matchList') = DOMAIN entries'
    BY <1>1, <1>2, WithoutFacts DEF IInv, ListsAgree
  <2>3. ToSet(hardList') = {a \in DOMAIN entries' : entries'[a].removeAt # 0}
    BY <1>1, <1>2, WithoutFacts DEF IInv, ListsAgree
  <2>4. ToSet(idleList') = {a \in DOMAIN entries' : entries'[a].idle # 0}
    BY <1>1, <1>2, WithoutFacts DEF IInv, ListsAgree
  <2> QED BY <1>3, <2>1, <2>2, <2>3, <2>4 DEF ListsAgree
<1>6. ByPriority'
  <2>1. ASSUME NEW a, NEW b, Before(matchList', a, b)
        PROVE  entries'[a].prio >= entries'[b].prio
    <3>1. Before(matchList, a, b) /\ a \notin gone /\ b \notin gone
      BY <1>1, <1>2, <2>1, WithoutFacts
    <3>2. a \in DOMAIN entries /\ b \in DOMAIN entries
      BY <3>1, BeforeIn DEF IInv, ListsAgree
    <3> QED BY <1>1, <3>1, <3>2 DEF IInv, ByPriority
  <2> QED BY <2>1 DEF ByPriority
<1>7. ByTime'
  <2>1. ASSUME NEW a, NEW b, Before(hardList', a, b)
        PROVE  entries'[a].removeAt <= entries'[b].removeAt
    <3>1. Before(hardList, a, b) /\ a \notin gone /\ b \notin gone
      BY <1>1, <1>2, <2>1, WithoutFacts
    <3>2. a \in DOMAIN entries /\ b \in DOMAIN entries
      BY <3>1, BeforeIn DEF IInv, ListsAgree
    <3> QED BY <1>1, <3>1, <3>2 DEF IInv, ByTime
  <2> QED BY <2>1 DEF ByTime
<1> QED BY <1>4, <1>5, <1>6, <1>7 DEF IInv
------------------------------------------------------------------------------
(* Adding *)

LEMMA NewEntryType ==
  ASSUME TypeOK, NEW p \in Priorities, NEW m \in Matches, NEW t \in Timeouts
  PROVE  NewEntry(p, m, t) \in Entry /\ NewEntry(p, m, t).prio = p
<1>1. t.hard \in Nat /\ t.idle \in Nat /\ now \in Nat /\ TicksPerSec \in Nat
  BY FlowTableAssumption DEF TypeOK
<1>2. \A x, y \in Nat : x * y \in Nat
  OBVIOUS
<1>3. now + t.hard * TicksPerSec \in Nat
  BY <1>1, <1>2
<1> QED BY <1>1, <1>3 DEF NewEntry, Entry

\* The hard timeouts stay in order when an entry is put before the first later one.
LEMMA InsertHardFacts ==
  ASSUME IInv, NEW l \in Seq(Addresses), NoTwice(l), ToSet(l) \subseteq DOMAIN entries,
         \A b \in ToSet(l) : entries[b].removeAt # 0,
         \A b, c : Before(l, b, c) => entries[b].removeAt <= entries[c].removeAt,
         NEW a \in Addresses \ DOMAIN entries, NEW e \in Entry
  PROVE  /\ InsertHard(l, a, e) \in Seq(Addresses) /\ NoTwice(InsertHard(l, a, e))
         /\ ToSet(InsertHard(l, a, e)) = ToSet(l) \cup (IF e.removeAt = 0 THEN {} ELSE {a})
         /\ \A b, c : Before(InsertHard(l, a, e), b, c) =>
              \/ Before(l, b, c)
              \/ c = a /\ b \in ToSet(l) /\ entries[b].removeAt <= e.removeAt
              \/ b = a /\ c \in ToSet(l) /\ e.removeAt <= entries[c].removeAt
<1>1. CASE e.removeAt = 0
  BY <1>1 DEF InsertHard
<1>2. CASE e.removeAt # 0
  <2> DEFINE S == {b \in DOMAIN entries : entries[b].removeAt > e.removeAt}
             i == FirstPlace(l, S)
  <2>1. InsertHard(l, a, e) = InsertAt(l, i, a)
    BY <1>2 DEF InsertHard
  <2>2. /\ i \in 1 .. Len(l) + 1
        /\ i <= Len(l) => l[i] \in S
        /\ \A j \in 1 .. i - 1 : l[j] \notin S
    BY FirstPlaceFacts
  <2>3. /\ e.removeAt \in Nat
        /\ \A b \in DOMAIN entries : entries[b].removeAt \in Nat
    BY EntryFields DEF IInv, Entry
  <2>4. Len(l) \in Nat /\ DOMAIN l = 1 .. Len(l) /\ \A j \in 1 .. Len(l) : l[j] \in ToSet(l)
    BY DEF ToSet
  <2>5. ASSUME NEW j \in 1 .. i - 1
        PROVE  l[j] \in ToSet(l) /\ entries[l[j]].removeAt <= e.removeAt
    <3>1. j \in 1 .. Len(l)
      BY <2>2, <2>4
    <3>2. l[j] \in ToSet(l) /\ l[j] \in DOMAIN entries
      BY <2>4, <3>1
    <3> QED BY <2>2, <2>3, <2>5, <3>2
  <2>6. ASSUME NEW j \in i .. Len(l)
        PROVE  l[j] \in ToSet(l) /\ e.removeAt <= entries[l[j]].removeAt
    <3>1. j \in 1 .. Len(l) /\ i \in 1 .. Len(l) /\ (i = j \/ i < j)
      BY <2>2, <2>4
    <3>2. l[i] \in DOMAIN entries /\ e.removeAt < entries[l[i]].removeAt
      BY <2>2, <2>3, <2>4, <3>1
    <3>3. l[j] \in ToSet(l) /\ l[j] \in DOMAIN entries
      BY <2>4, <3>1
    <3>4. i < j => Before(l, l[i], l[j])
      BY <2>4, <3>1 DEF Before
    <3>5. i < j => entries[l[i]].removeAt <= entries[l[j]].removeAt
      BY <3>4
    <3> QED BY <2>3, <3>1, <3>2, <3>3, <3>5
  <2>7. a \notin ToSet(l)
    OBVIOUS
  <2> HIDE DEF i
  <2>8. /\ InsertAt(l, i, a) \in Seq(Addresses) /\ NoTwice(InsertAt(l, i, a))
        /\ ToSet(InsertAt(l, i, a)) = ToSet(l) \cup {a}
        /\ \A b, c : Before(InsertAt(l, i, a), b, c) <=>
             \/ Before(l, b, c)
             \/ c = a /\ \E j \in 1 .. i - 1 : l[j] = b
             \/ b = a /\ \E j \in i .. Len(l) : l[j] = c
    BY <2>2, <2>7, InsertAtFacts
  <2> DEFINE w == InsertAt(l, i, a)
  <2> HIDE DEF w
  <2>9. ASSUME NEW b, NEW c, Before(w, b, c)
        PROVE  \/ Before(l, b, c)
               \/ c = a /\ b \in ToSet(l) /\ entries[b].removeAt <= e.removeAt
               \/ b = a /\ c \in ToSet(l) /\ e.removeAt <= entries[c].removeAt
    BY <2>5, <2>6, <2>8, <2>9 DEF w
  <2> QED BY <1>2, <2>1, <2>8, <2>9 DEF w
<1> QED BY <1>1, <1>2

LEMMA InsertIdleFacts ==
  ASSUME NEW l \in Seq(Addresses), NoTwice(l), NEW a \in Addresses, a \notin ToSet(l), NEW e
  PROVE  /\ InsertIdle(l, a, e) \in Seq(Addresses) /\ NoTwice(InsertIdle(l, a, e))
         /\ ToSet(InsertIdle(l, a, e)) = ToSet(l) \cup (IF e.idle = 0 THEN {} ELSE {a})
BY AppendFacts DEF InsertIdle

\* What Put does to the entries and the lists of timeouts.
LEMMA PutFacts ==
  ASSUME IInv, NEW a \in Addresses \ DOMAIN entries, NEW e \in Entry,
         NEW left \in SUBSET DOMAIN entries, Put(a, e, left)
  PROVE  /\ DOMAIN entries' = left \cup {a} /\ entries'[a] = e
         /\ \A b \in left : entries'[b] = entries[b]
         /\ DOMAIN entries' \subseteq Addresses /\ entries' \in [DOMAIN entries' -> Entry]
         /\ hardList' \in Seq(Addresses) /\ NoTwice(hardList')
         /\ idleList' \in Seq(Addresses) /\ NoTwice(idleList')
         /\ ToSet(hardList') = {b \in DOMAIN entries' : entries'[b].removeAt # 0}
         /\ ToSet(idleList') = {b \in DOMAIN entries' : entries'[b].idle # 0}
         /\ ByTime'
         /\ now' \in Nat /\ due' \in Nat
<1> DEFINE gone == DOMAIN entries \ left
           hard == Without(hardList, gone)
           idle == Without(idleList, gone)
<1>1. /\ entries' = [b \in left \cup {a} |-> IF b = a THEN e ELSE entries[b]]
      /\ hardList' = InsertHard(hard, a, e) /\ idleList' = InsertIdle(idle, a, e)
      /\ now' = now /\ due' = due
  BY DEF Put
<1>2. a \notin left /\ \A b \in DOMAIN entries : b \notin gone <=> b \in left
  OBVIOUS
<1>3. /\ DOMAIN entries' = left \cup {a} /\ entries'[a] = e
      /\ \A b \in left : entries'[b] = entries[b]
  BY <1>1, <1>2
<1>4. DOMAIN entries' \subseteq Addresses /\ entries' \in [DOMAIN entries' -> Entry]
  <2>1. \A b \in left : b \in Addresses /\ entries[b] \in Entry
    BY EntryFields DEF IInv
  <2> QED BY <1>1, <1>3, <2>1
<1>5. /\ hard \in Seq(Addresses) /\ NoTwice(hard) /\ idle \in Seq(Addresses) /\ NoTwice(idle)
      /\ ToSet(hard) = {b \in left : entries[b].removeAt # 0}
      /\ ToSet(idle) = {b \in left : entries[b].idle # 0}
      /\ \A b, c : Before(hard, b, c) => Before(hardList, b, c)
  <2>1. /\ hardList \in Seq(Addresses) /\ NoTwice(hardList)
        /\ idleList \in Seq(Addresses) /\ NoTwice(idleList)
        /\ ToSet(hardList) = {b \in DOMAIN entries : entries[b].removeAt # 0}
        /\ ToSet(idleList) = {b \in DOMAIN entries : entries[b].idle # 0}
    BY ListsTyped DEF IInv, ListsAgree
  <2> HIDE DEF gone
  <2>2. /\ hard \in Seq(Addresses) /\ NoTwice(hard) /\ ToSet(hard) = ToSet(hardList) \ gone
        /\ idle \in Seq(Addresses) /\ NoTwice(idle) /\ ToSet(idle) = ToSet(idleList) \ gone
        /\ \A b, c : Before(hard, b, c) => Before(hardList, b, c)
    BY <2>1, WithoutFacts
  <2> HIDE DEF hard, idle
  <2> QED BY <2>1, <2>2, <1>2 DEF gone
<1> HIDE DEF hard, idle, gone
<1>6. /\ ToSet(hard) \subseteq DOMAIN entries
      /\ \A b \in ToSet(hard) : entries[b].removeAt # 0
      /\ \A b, c : Before(hard, b, c) => entries[b].removeAt <= entries[c].removeAt
      /\ a \notin ToSet(idle)
  BY <1>2, <1>5 DEF IInv, ByTime
<1>7. /\ hardList' \in Seq(Addresses) /\ NoTwice(hardList')
      /\ ToSet(hardList') = ToSet(hard) \cup (IF e.removeAt = 0 THEN {} ELSE {a})
      /\ \A b, c : Before(hardList', b, c) =>
           \/ Before(hard, b, c)
           \/ c = a /\ b \in ToSet(hard) /\ entries[b].removeAt <= e.removeAt
           \/ b = a /\ c \in ToSet(hard) /\ e.removeAt <= entries[c].removeAt
  BY <1>1, <1>5, <1>6, InsertHardFacts
<1>8. /\ idleList' \in Seq(Addresses) /\ NoTwice(idleList')
      /\ ToSet(idleList') = ToSet(idle) \cup (IF e.idle = 0 THEN {} ELSE {a})
  BY <1>1, <1>5, <1>6, InsertIdleFacts
<1>9. ToSet(hardList') = {b \in DOMAIN entries' : entries'[b].removeAt # 0}
  BY <1>2, <1>3, <1>5, <1>7
<1>10. ToSet(idleList') = {b \in DOMAIN entries' : entries'[b].idle # 0}
  BY <1>2, <1>3, <1>5, <1>8
<1>11. ByTime'
  <2>1. ASSUME NEW b, NEW c, Before(hardList', b, c)
        PROVE  entries'[b].removeAt <= entries'[c].removeAt
    <3>1. CASE Before(hard, b, c)
      BY <3>1, <1>3, <1>5, <1>6, BeforeIn
    <3>2. CASE c = a /\ b \in ToSet(hard) /\ entries[b].removeAt <= e.removeAt
      BY <3>2, <1>3, <1>5
    <3>3. CASE b = a /\ c \in ToSet(hard) /\ e.removeAt <= entries[c].removeAt
      BY <3>3, <1>3, <1>5
    <3> QED BY <2>1, <1>7, <3>1, <3>2, <3>3
  <2> QED BY <2>1 DEF ByTime
<1> QED BY <1>1, <1>3, <1>4, <1>7, <1>8, <1>9, <1>10, <1>11 DEF IInv, TypeOK

\* The equal entry is replaced: the new one has its priority.
LEMMA ReplaceInv ==
  ASSUME IInv, NEW a \in Addresses \ DOMAIN entries, NEW p \in Priorities, NEW m,
         NEW e \in Entry, e.prio = p, NEW i \in 1 .. Len(matchList) + 1, Replace(p, m, e, i, a)
  PROVE  IInv'
<1> DEFINE old == matchList[i]
           left == DOMAIN entries \ {old}
<1>1. /\ i \in 1 .. Len(matchList) /\ entries[old].prio = p
      /\ matchList' = [matchList EXCEPT ![i] = a]
      /\ Put(a, e, left) /\ active' = active
  BY DEF Replace, FoundAt, SameRule
<1>2. /\ matchList \in Seq(Addresses) /\ NoTwice(matchList) /\ ToSet(matchList) = DOMAIN entries
  BY ListsTyped DEF IInv, ListsAgree
<1>3. old \in DOMAIN entries
  <2>1. DOMAIN matchList = 1 .. Len(matchList)
    BY <1>2
  <2> QED BY <1>1, <1>2, <2>1 DEF ToSet
<1> HIDE DEF old, left
<1>4. /\ matchList' \in Seq(Addresses) /\ NoTwice(matchList')
      /\ ToSet(matchList') = (DOMAIN entries \ {old}) \cup {a}
      /\ \A b, c \in DOMAIN entries \ {old} :
           Before(matchList', b, c) <=> Before(matchList, b, c)
      /\ \A b \in DOMAIN entries \ {old} :
           /\ Before(matchList', b, a) <=> Before(matchList, b, old)
           /\ Before(matchList', a, b) <=> Before(matchList, old, b)
      /\ ~Before(matchList', a, a)
  BY <1>1, <1>2, ReplaceFacts DEF old
<1>5. left \in SUBSET DOMAIN entries
  BY DEF left
<1>6. /\ DOMAIN entries' = left \cup {a} /\ entries'[a] = e
      /\ \A b \in left : entries'[b] = entries[b]
      /\ DOMAIN entries' \subseteq Addresses /\ entries' \in [DOMAIN entries' -> Entry]
      /\ hardList' \in Seq(Addresses) /\ NoTwice(hardList')
      /\ idleList' \in Seq(Addresses) /\ NoTwice(idleList')
      /\ ToSet(hardList') = {b \in DOMAIN entries' : entries'[b].removeAt # 0}
      /\ ToSet(idleList') = {b \in DOMAIN entries' : entries'[b].idle # 0}
      /\ ByTime' /\ now' \in Nat /\ due' \in Nat
  BY <1>1, <1>5, PutFacts
<1>7. active' = Cardinality(DOMAIN entries')
  BY <1>1, <1>3, <1>6, EntryFields, Counts DEF IInv, ListsAgree, left
<1>8. TypeOK'
  BY <1>1, <1>4, <1>6 DEF TypeOK, IInv
<1>9. ListsAgree'
  <2>1. ToSet(matchList') = DOMAIN entries'
    BY <1>4, <1>6 DEF left
  <2> QED BY <1>4, <1>6, <1>7, <2>1 DEF ListsAgree
<1>10. ByPriority'
  <2>1. ASSUME NEW b, NEW c, Before(matchList', b, c)
        PROVE  entries'[b].prio >= entries'[c].prio
    <3>1. b \in left \cup {a} /\ c \in left \cup {a}
      BY <1>4, <2>1, BeforeIn DEF left
    <3>2. CASE b \in left /\ c \in left
      BY <3>2, <1>4, <1>6, <2>1 DEF left, IInv, ByPriority
    <3>3. CASE b \in left /\ c = a
      <4>1. entries[b].prio >= entries[old].prio
        BY <3>3, <1>4, <2>1 DEF left, IInv, ByPriority
      <4> QED BY <4>1, <3>3, <1>1, <1>6
    <3>4. CASE b = a /\ c \in left
      <4>1. entries[old].prio >= entries[c].prio
        BY <3>4, <1>4, <2>1 DEF left, IInv, ByPriority
      <4> QED BY <4>1, <3>4, <1>1, <1>6
    <3>5. CASE b = a /\ c = a
      BY <3>5, <1>4, <2>1
    <3> QED BY <3>1, <3>2, <3>3, <3>4, <3>5
  <2> QED BY <2>1 DEF ByPriority
<1> QED BY <1>6, <1>8, <1>9, <1>10 DEF IInv

\* Before the place of a new entry no priority is lower than its own, and behind
\* it all are, if it replaces none.
LEMMA PlaceFacts ==
  ASSUME IInv, NEW p \in Priorities, NEW m
  PROVE  /\ Place(p, m) \in 1 .. Len(matchList) + 1
         /\ \A j \in 1 .. Place(p, m) - 1 :
              /\ matchList[j] \in DOMAIN entries
              /\ entries[matchList[j]].prio >= p
              /\ ~SameRule(entries[matchList[j]], p, m)
         /\ ~FoundAt(Place(p, m), p, m) =>
              \A j \in Place(p, m) .. Len(matchList) :
                matchList[j] \in DOMAIN entries /\ p > entries[matchList[j]].prio
<1> DEFINE S == {a \in DOMAIN entries : SameRule(entries[a], p, m) \/ p > entries[a].prio}
           i == Place(p, m)
<1>1. /\ matchList \in Seq(Addresses) /\ Len(matchList) \in Nat
      /\ DOMAIN matchList = 1 .. Len(matchList) /\ ToSet(matchList) = DOMAIN entries
      /\ p \in Nat /\ \A a \in DOMAIN entries : entries[a].prio \in Nat
  BY FlowTableAssumption, ListsTyped, EntryFields DEF IInv, ListsAgree
<1>2. /\ i \in 1 .. Len(matchList) + 1
      /\ i <= Len(matchList) => matchList[i] \in S
      /\ \A j \in 1 .. i - 1 : matchList[j] \notin S
  BY <1>1, FirstPlaceFacts DEF Place
<1>3. \A j \in 1 .. Len(matchList) : matchList[j] \in DOMAIN entries
  BY <1>1 DEF ToSet
<1>4. ASSUME NEW j \in 1 .. i - 1
      PROVE  /\ matchList[j] \in DOMAIN entries
             /\ entries[matchList[j]].prio >= p
             /\ ~SameRule(entries[matchList[j]], p, m)
  <2>1. j \in 1 .. Len(matchList)
    BY <1>1, <1>2
  <2> QED BY <1>1, <1>2, <1>3, <2>1
<1>5. ASSUME ~FoundAt(i, p, m), NEW j \in i .. Len(matchList)
      PROVE  matchList[j] \in DOMAIN entries /\ p > entries[matchList[j]].prio
  <2>1. i \in 1 .. Len(matchList) /\ j \in 1 .. Len(matchList) /\ (i = j \/ i < j)
    BY <1>1, <1>2
  <2>2. p > entries[matchList[i]].prio
    BY <1>2, <1>5, <2>1 DEF FoundAt
  <2>3. i < j => entries[matchList[i]].prio >= entries[matchList[j]].prio
    BY <1>1, <2>1 DEF IInv, ByPriority, Before
  <2> QED BY <1>1, <1>3, <2>1, <2>2, <2>3
<1> QED BY <1>2, <1>4, <1>5

LEMMA InsertInv ==
  ASSUME IInv, NEW a \in Addresses \ DOMAIN entries, NEW p \in Priorities, NEW m,
         NEW e \in Entry, e.prio = p, Insert(p, m, e, Place(p, m), a)
  PROVE  IInv'
<1> DEFINE i == Place(p, m)
           left == DOMAIN entries
<1>1. /\ matchList' = InsertAt(matchList, i, a)
      /\ Put(a, e, left) /\ active' = active + 1 /\ active # MaxEntries
      /\ ~FoundAt(i, p, m)
  BY DEF Insert
<1>2. /\ matchList \in Seq(Addresses) /\ NoTwice(matchList) /\ ToSet(matchList) = left
  BY ListsTyped DEF IInv, ListsAgree
<1>3. /\ i \in 1 .. Len(matchList) + 1
      /\ \A j \in 1 .. i - 1 : matchList[j] \in left /\ entries[matchList[j]].prio >= p
      /\ \A j \in i .. Len(matchList) :
           matchList[j] \in left /\ p > entries[matchList[j]].prio
  BY <1>1, PlaceFacts
<1>4. a \notin left
  OBVIOUS
<1> HIDE DEF i, left
<1>5. /\ matchList' \in Seq(Addresses) /\ NoTwice(matchList')
      /\ ToSet(matchList') = left \cup {a}
      /\ \A b, c : Before(matchList', b, c) <=>
           \/ Before(matchList, b, c)
           \/ c = a /\ \E j \in 1 .. i - 1 : matchList[j] = b
           \/ b = a /\ \E j \in i .. Len(matchList) : matchList[j] = c
  BY <1>1, <1>2, <1>3, <1>4, InsertAtFacts
<1>6. /\ DOMAIN entries' = left \cup {a} /\ entries'[a] = e
      /\ \A b \in left : entries'[b] = entries[b]
      /\ DOMAIN entries' \subseteq Addresses /\ entries' \in [DOMAIN entries' -> Entry]
      /\ hardList' \in Seq(Addresses) /\ NoTwice(hardList')
      /\ idleList' \in Seq(Addresses) /\ NoTwice(idleList')
      /\ ToSet(hardList') = {b \in DOMAIN entries' : entries'[b].removeAt # 0}
      /\ ToSet(idleList') = {b \in DOMAIN entries' : entries'[b].idle # 0}
      /\ ByTime' /\ now' \in Nat /\ due' \in Nat
  BY <1>1, PutFacts DEF left
<1>7. active' = Cardinality(DOMAIN entries')
  BY <1>1, <1>6, EntryFields, Counts DEF IInv, ListsAgree, left
<1>8. active' \in 0 .. MaxEntries
  BY <1>1, FlowTableAssumption DEF IInv, TypeOK
<1>9. TypeOK'
  BY <1>5, <1>6, <1>8 DEF TypeOK
<1>10. ListsAgree'
  BY <1>5, <1>6, <1>7 DEF ListsAgree
<1>11. ByPriority'
  <2>1. ASSUME NEW b, NEW c, Before(matchList', b, c)
        PROVE  entries'[b].prio >= entries'[c].prio
    <3>1. CASE Before(matchList, b, c)
      <4>1. b \in left /\ c \in left /\ entries[b].prio >= entries[c].prio
        BY <1>2, <3>1, BeforeIn DEF IInv, ByPriority
      <4> QED BY <4>1, <1>6
    <3>2. CASE c = a /\ \E j \in 1 .. i - 1 : matchList[j] = b
      BY <3>2, <1>3, <1>6
    <3>3. CASE b = a /\ \E j \in i .. Len(matchList) : matchList[j] = c
      <4>1. c \in left /\ p > entries[c].prio
        BY <3>3, <1>3
      <4>2. p \in Nat /\ entries[c].prio \in Nat
        BY <4>1, FlowTableAssumption, EntryFields DEF IInv, left
      <4> QED BY <4>1, <4>2, <3>3, <1>6
    <3> QED BY <2>1, <1>5, <3>1, <3>2, <3>3
  <2> QED BY <2>1 DEF ByPriority
<1> QED BY <1>6, <1>9, <1>10, <1>11 DEF IInv
------------------------------------------------------------------------------
(* Packets and timeouts *)

\* The look-up ends at the first entry that covers the packet.
LEMMA FoundFacts ==
  ASSUME IInv, NEW pk
  PROVE  /\ Found(pk) \in 1 .. Len(matchList) + 1
         /\ Found(pk) <= Len(matchList) => matchList[Found(pk)] \in DOMAIN entries
         /\ \A j \in 1 .. Found(pk) - 1 : ~Covers(entries[matchList[j]].match, pk)
<1>1. /\ matchList \in Seq(Addresses) /\ Len(matchList) \in Nat
      /\ DOMAIN matchList = 1 .. Len(matchList) /\ ToSet(matchList) = DOMAIN entries
  BY ListsTyped DEF IInv, ListsAgree
<1> DEFINE S == {a \in DOMAIN entries : Covers(entries[a].match, pk)}
           i == Found(pk)
<1>2. /\ i \in 1 .. Len(matchList) + 1
      /\ i <= Len(matchList) => matchList[i] \in S
      /\ \A j \in 1 .. i - 1 : matchList[j] \notin S
  BY <1>1, FirstPlaceFacts DEF Found
<1>3. \A j \in 1 .. Len(matchList) : matchList[j] \in DOMAIN entries
  BY <1>1 DEF ToSet
<1>4. \A j \in 1 .. i - 1 : j \in 1 .. Len(matchList)
  BY <1>1, <1>2
<1> QED BY <1>2, <1>3, <1>4

LEMMA LookupInv ==
  ASSUME IInv, Lookup
  PROVE  IInv'
<1>1. PICK pk \in Packets :
        /\ Found(pk) <= Len(matchList)
        /\ entries' = [entries EXCEPT ![matchList[Found(pk)]].lastUsed = now]
        /\ UNCHANGED <<now, due, lists, active>>
  BY DEF Lookup
<1> DEFINE x == matchList[Found(pk)]
<1>2. x \in DOMAIN entries
  BY <1>1, FoundFacts
<1> HIDE DEF x
<1>3. /\ entries' = [entries EXCEPT ![x] = [entries[x] EXCEPT !.lastUsed = now]]
      /\ now \in Nat
  BY <1>1 DEF x, IInv, TypeOK
<1>4. /\ DOMAIN entries' = DOMAIN entries
      /\ \A a \in DOMAIN entries : /\ entries'[a] \in Entry
                                   /\ entries'[a].prio = entries[a].prio
                                   /\ entries'[a].removeAt = entries[a].removeAt
                                   /\ entries'[a].idle = entries[a].idle
  <2>1. [entries[x] EXCEPT !.lastUsed = now] \in Entry
    BY <1>2, <1>3, EntryFields DEF IInv, Entry
  <2>2. /\ [entries[x] EXCEPT !.lastUsed = now].prio = entries[x].prio
        /\ [entries[x] EXCEPT !.lastUsed = now].removeAt = entries[x].removeAt
        /\ [entries[x] EXCEPT !.lastUsed = now].idle = entries[x].idle
    BY <1>2, EntryFields DEF IInv, Entry
  <2>3. \A a \in DOMAIN entries :
          entries'[a] = IF a = x THEN [entries[x] EXCEPT !.lastUsed = now] ELSE entries[a]
    BY <1>2, <1>3
  <2>4. DOMAIN entries' = DOMAIN entries
    BY <1>3
  <2> QED BY <2>1, <2>2, <2>3, <2>4, EntryFields DEF IInv
<1>5. /\ now' = now /\ due' = due /\ active' = active
      /\ matchList' = matchList /\ hardList' = hardList /\ idleList' = idleList
  BY <1>1 DEF lists
<1>6. TypeOK'
  <2>1. entries' \in [DOMAIN entries' -> Entry]
    BY <1>3, <1>4
  <2> QED BY <1>4, <1>5, <2>1 DEF IInv, TypeOK
<1>7. ListsAgree'
  BY <1>4, <1>5 DEF IInv, ListsAgree
<1>8. ByPriority'
  BY <1>4, <1>5, BeforeIn DEF IInv, ListsAgree, ByPriority
<1>9. ByTime'
  BY <1>4, <1>5, BeforeIn DEF IInv, ListsAgree, ByTime
<1> QED BY <1>6, <1>7, <1>8, <1>9 DEF IInv

\* The loop over hard_entries, which ends at the first that stays, finds all
\* that expired, because they are in order.
LEMMA HardGoneFacts ==
  ASSUME IInv
  PROVE  HardGone = {a \in DOMAIN entries : HardExpired(entries[a])}
<1> DEFINE S == {a \in DOMAIN entries : ~HardExpired(entries[a])}
           end == FirstPlace(hardList, S)
<1>1. /\ hardList \in Seq(Addresses) /\ Len(hardList) \in Nat
      /\ DOMAIN hardList = 1 .. Len(hardList)
      /\ ToSet(hardList) = {a \in DOMAIN entries : entries[a].removeAt # 0}
  BY ListsTyped DEF IInv, ListsAgree
<1>2. /\ end \in 1 .. Len(hardList) + 1
      /\ end <= Len(hardList) => hardList[end] \in S
      /\ \A j \in 1 .. end - 1 : hardList[j] \notin S
  BY <1>1, FirstPlaceFacts
<1>3. \A j \in 1 .. Len(hardList) :
        hardList[j] \in DOMAIN entries /\ entries[hardList[j]].removeAt # 0
  BY <1>1 DEF ToSet
<1>4. HardGone = {hardList[i] : i \in 1 .. end - 1}
  BY DEF HardGone
<1> HIDE DEF end
<1>5. ASSUME NEW j \in 1 .. end - 1
      PROVE  hardList[j] \in DOMAIN entries /\ HardExpired(entries[hardList[j]])
  <2>1. j \in 1 .. Len(hardList)
    BY <1>1, <1>2
  <2> QED BY <1>2, <1>3, <2>1
<1>6. ASSUME NEW a \in DOMAIN entries, HardExpired(entries[a])
      PROVE  \E j \in 1 .. end - 1 : a = hardList[j]
  <2>1. a \in ToSet(hardList)
    BY <1>1, <1>6 DEF HardExpired
  <2>2. PICK j \in 1 .. Len(hardList) : a = hardList[j]
    BY <1>1, <2>1 DEF ToSet
  <2>3. ASSUME j >= end PROVE FALSE
    <3>1. end \in 1 .. Len(hardList) /\ (end = j \/ end < j)
      BY <1>1, <1>2, <2>3
    <3>2. hardList[end] \in DOMAIN entries /\ ~HardExpired(entries[hardList[end]])
      BY <1>2, <3>1
    <3>3. end < j => entries[hardList[end]].removeAt <= entries[a].removeAt
      BY <1>1, <2>2, <3>1 DEF IInv, ByTime, Before
    <3>4. end # j
      BY <1>6, <2>2, <3>2
    <3>5. /\ entries[a].removeAt \in Nat /\ entries[hardList[end]].removeAt \in Nat
          /\ entries[hardList[end]].removeAt # 0 /\ now \in Nat
      BY <1>3, <3>1, <3>2, EntryFields DEF IInv, TypeOK
    <3> QED BY <1>6, <3>1, <3>2, <3>3, <3>4, <3>5 DEF HardExpired
  <2> QED BY <1>1, <1>2, <2>2, <2>3
<1> QED BY <1>4, <1>5, <1>6

\* A round removes those whose time is over.
LEMMA GoneFacts ==
  ASSUME IInv
  PROVE  /\ HardGone \cup IdleGone \in SUBSET DOMAIN entries
         /\ DOMAIN entries \ (HardGone \cup IdleGone)
              = {a \in DOMAIN entries : ~HardExpired(entries[a]) /\ ~IdleExpired(entries[a])}
<1>1. ToSet(idleList) = {a \in DOMAIN entries : entries[a].idle # 0}
  BY DEF IInv, ListsAgree
<1>2. IdleGone = {a \in DOMAIN entries : ~HardExpired(entries[a]) /\ IdleExpired(entries[a])}
  BY <1>1, HardGoneFacts DEF IdleGone, IdleExpired
<1> QED BY <1>2, HardGoneFacts
------------------------------------------------------------------------------
(* The table *)

LEMMA InitInv == Init => IInv
<1> SUFFICES ASSUME Init PROVE IInv
  OBVIOUS
<1>1. << >> \in Seq(Addresses) /\ DOMAIN << >> = {} /\ ToSet(<< >>) = {}
  BY DEF ToSet
<1>2. entries = [a \in {} |-> << >>] /\ DOMAIN entries = {} /\ Cardinality({}) = 0
  BY FS_EmptySet DEF Init
<1>3. entries \in [DOMAIN entries -> Entry]
  BY <1>2
<1>4. TypeOK
  BY <1>1, <1>2, <1>3, FlowTableAssumption DEF Init, TypeOK
<1>5. ListsAgree
  BY <1>1, <1>2 DEF Init, ListsAgree, NoTwice
<1>6. ByPriority /\ ByTime
  BY <1>1 DEF Init, ByPriority, ByTime, Before
<1> QED BY <1>4, <1>5, <1>6 DEF IInv

\* What a flow-mod that adds does, in the names of the lemmas.
LEMMA FlowAddCases ==
  ASSUME IInv, FlowAdd
  PROVE  \E p \in Priorities, m \in Matches, e \in Entry, a \in Addresses \ DOMAIN entries :
           /\ e.prio = p
           /\ \/ Replace(p, m, e, Place(p, m), a)
              \/ Insert(p, m, e, Place(p, m), a)
<1>1. PICK p \in Priorities, m \in Matches, t \in Timeouts, a \in Addresses \ DOMAIN entries :
        \/ Replace(p, m, NewEntry(p, m, t), Place(p, m), a)
        \/ Insert(p, m, NewEntry(p, m, t), Place(p, m), a)
  BY DEF FlowAdd
<1>2. NewEntry(p, m, t) \in Entry /\ NewEntry(p, m, t).prio = p
  BY NewEntryType DEF IInv
<1> QED BY <1>1, <1>2

LEMMA NextInv == IInv /\ [Next]_vars => IInv'
<1> SUFFICES ASSUME IInv, [Next]_vars PROVE IInv'
  OBVIOUS
<1>0. now \in Nat /\ due \in Nat /\ Period \in Nat
  BY FlowTableAssumption DEF IInv, TypeOK
<1>1. CASE FlowAdd
  <2>1. PICK p \in Priorities, m \in Matches, e \in Entry, a \in Addresses \ DOMAIN entries :
          /\ e.prio = p
          /\ \/ Replace(p, m, e, Place(p, m), a)
             \/ Insert(p, m, e, Place(p, m), a)
    BY <1>1, FlowAddCases
  <2> QED BY <2>1, PlaceFacts, ReplaceInv, InsertInv
<1>2. CASE FlowDelete
  <2>1. PICK gone \in SUBSET DOMAIN entries : Leave(gone) /\ UNCHANGED <<now, due>>
    BY <1>2 DEF FlowDelete, Selected
  <2> QED BY <1>0, <2>1, LeaveInv
<1>3. CASE Lookup
  BY <1>3, LookupInv
<1>4. CASE DatapathTimeout
  BY <1>0, <1>4, GoneFacts, LeaveInv DEF DatapathTimeout
<1>5. CASE Tick
  BY <1>0, <1>5 DEF Tick, lists, IInv, TypeOK, ListsAgree, ByPriority, ByTime
<1>6. CASE UNCHANGED vars
  BY <1>6 DEF vars, lists, IInv, TypeOK, ListsAgree, ByPriority, ByTime
<1> QED BY <1>1, <1>2, <1>3, <1>4, <1>5, <1>6 DEF Next

LEMMA Inductive == Spec => []IInv
BY InitInv, NextInv, PTL DEF Spec

\* Every variable of a table keeps its type, and the table its capacity.
THEOREM TypeCorrect == Spec => []TypeOK
BY Inductive, PTL DEF IInv

\* However flows are added, replaced, deleted, used and timed out, the three
\* lists and the counter of a table agree with its entries.
THEOREM ListsAlwaysAgree == Spec => []ListsAgree
<1>1. IInv => ListsAgree BY DEF IInv
<1> QED BY <1>1, Inductive, PTL

\* The first entry that covers a packet has the highest priority of those that do.
THEOREM HighestPriorityWins == Spec => []HighestPriorityFound
<1>1. IInv => HighestPriorityFound
  <2> SUFFICES ASSUME IInv, NEW pk \in Packets, NEW a \in DOMAIN entries,
                      Covers(entries[a].match, pk)
               PROVE  /\ Found(pk) <= Len(matchList)
                      /\ entries[a].prio <= entries[matchList[Found(pk)]].prio
    BY DEF HighestPriorityFound
  <2> DEFINE i == Found(pk)
  <2>1. /\ matchList \in Seq(Addresses) /\ Len(matchList) \in Nat
        /\ DOMAIN matchList = 1 .. Len(matchList) /\ a \in ToSet(matchList)
    BY ListsTyped DEF IInv, ListsAgree
  <2>2. PICK j \in 1 .. Len(matchList) : matchList[j] = a
    BY <2>1 DEF ToSet
  <2>3. /\ i \in 1 .. Len(matchList) + 1
        /\ i <= Len(matchList) => matchList[i] \in DOMAIN entries
        /\ \A k \in 1 .. i - 1 : ~Covers(entries[matchList[k]].match, pk)
    BY FoundFacts
  <2> HIDE DEF i
  <2>4. ~(j < i)
    BY <2>1, <2>2, <2>3
  <2>5. i \in 1 .. Len(matchList) /\ (i = j \/ i < j)
    BY <2>1, <2>3, <2>4
  <2>6. entries[a].prio \in Nat /\ entries[matchList[i]].prio \in Nat
    BY <2>3, <2>5, EntryFields DEF IInv
  <2>7. i < j => entries[matchList[i]].prio >= entries[a].prio
    BY <2>1, <2>2, <2>5 DEF IInv, ByPriority, Before
  <2> QED BY <2>2, <2>5, <2>6, <2>7 DEF i
<1> QED BY <1>1, Inductive, PTL

\* The order of the entries that stay is kept, and a new entry is behind those
\* of its priority.
OrderKept ==
  LET stay == DOMAIN entries \cap DOMAIN entries' IN
  /\ \A a, b \in stay : Before(matchList', a, b) <=> Before(matchList, a, b)
  /\ active' > active =>
       \A a \in stay, b \in DOMAIN entries' \ stay :
         entries'[a].prio = entries'[b].prio => Before(matchList', a, b)

LEMMA LeaveOrder ==
  ASSUME IInv, NEW gone \in SUBSET DOMAIN entries, Leave(gone)
  PROVE  OrderKept
<1>1. /\ DOMAIN entries' = DOMAIN entries \ gone /\ matchList' = Without(matchList, gone)
      /\ active' = active - Cardinality(gone)
  BY DEF Leave
<1>2. matchList \in Seq(Addresses) /\ NoTwice(matchList)
  BY ListsTyped DEF IInv, ListsAgree
<1>3. ~(active' > active)
  BY <1>1, Counts DEF IInv, TypeOK
<1>4. \A a, b : Before(matchList', a, b) <=>
                  Before(matchList, a, b) /\ a \notin gone /\ b \notin gone
  BY <1>1, <1>2, WithoutFacts
<1> QED BY <1>1, <1>3, <1>4 DEF OrderKept

LEMMA ReplaceOrder ==
  ASSUME IInv, NEW a \in Addresses \ DOMAIN entries, NEW p, NEW m, NEW e,
         NEW i \in 1 .. Len(matchList) + 1, Replace(p, m, e, i, a)
  PROVE  OrderKept
<1> DEFINE old == matchList[i]
<1>1. /\ i \in 1 .. Len(matchList) /\ active' = active
      /\ matchList' = [matchList EXCEPT ![i] = a]
      /\ DOMAIN entries' = (DOMAIN entries \ {old}) \cup {a}
  BY DEF Replace, FoundAt, Put
<1>2. matchList \in Seq(Addresses) /\ NoTwice(matchList) /\ ToSet(matchList) = DOMAIN entries
  BY ListsTyped DEF IInv, ListsAgree
<1>3. \A b, c \in DOMAIN entries \ {old} :
        Before(matchList', b, c) <=> Before(matchList, b, c)
  BY <1>1, <1>2, ReplaceFacts
<1>4. ~(active' > active)
  BY <1>1 DEF IInv, TypeOK
<1> HIDE DEF old
<1>5. DOMAIN entries \cap DOMAIN entries' \subseteq DOMAIN entries \ {old}
  BY <1>1
<1> QED BY <1>3, <1>4, <1>5 DEF OrderKept

LEMMA InsertOrder ==
  ASSUME IInv, NEW a \in Addresses \ DOMAIN entries, NEW p \in Priorities, NEW m,
         NEW e \in Entry, e.prio = p, Insert(p, m, e, Place(p, m), a)
  PROVE  OrderKept
<1> DEFINE i == Place(p, m)
<1>1. /\ matchList' = InsertAt(matchList, i, a)
      /\ DOMAIN entries' = DOMAIN entries \cup {a} /\ entries'[a] = e
      /\ \A b \in DOMAIN entries : entries'[b] = entries[b]
      /\ ~FoundAt(i, p, m)
  BY DEF Insert, Put
<1>2. /\ matchList \in Seq(Addresses) /\ NoTwice(matchList) /\ ToSet(matchList) = DOMAIN entries
      /\ DOMAIN matchList = 1 .. Len(matchList) /\ Len(matchList) \in Nat
  BY ListsTyped DEF IInv, ListsAgree
<1>3. /\ i \in 1 .. Len(matchList) + 1
      /\ \A j \in i .. Len(matchList) :
           matchList[j] \in DOMAIN entries /\ p > entries[matchList[j]].prio
  BY <1>1, PlaceFacts
<1> HIDE DEF i
<1>4. \A b, c : Before(matchList', b, c) <=>
        \/ Before(matchList, b, c)
        \/ c = a /\ \E j \in 1 .. i - 1 : matchList[j] = b
        \/ b = a /\ \E j \in i .. Len(matchList) : matchList[j] = c
  <2>1. \A b, c : Before(InsertAt(matchList, i, a), b, c) <=>
          \/ Before(matchList, b, c)
          \/ c = a /\ \E j \in 1 .. i - 1 : matchList[j] = b
          \/ b = a /\ \E j \in i .. Len(matchList) : matchList[j] = c
    <3>1. matchList \in Seq(Addresses) /\ i \in 1 .. Len(matchList) + 1 /\ a \in Addresses
      BY <1>2, <1>3
    <3> QED BY <3>1, InsertAtFacts
  <2> QED BY <1>1, <2>1
<1>5. ASSUME NEW b \in DOMAIN entries, entries[b].prio = p PROVE Before(matchList', b, a)
  <2>1. PICK j \in 1 .. Len(matchList) : matchList[j] = b
    BY <1>2 DEF ToSet
  <2>2. p \in Nat
    BY FlowTableAssumption
  <2>3. j \in 1 .. i - 1
    BY <1>2, <1>3, <1>5, <2>1, <2>2
  <2> QED BY <1>4, <2>1, <2>3
<1>6. \A b, c \in DOMAIN entries : Before(matchList', b, c) <=> Before(matchList, b, c)
  BY <1>4
<1> QED BY <1>1, <1>5, <1>6 DEF OrderKept

\* "new entries will be placed behind those with equal priority", and the others
\* keep their order, in every step.
THEOREM OlderAlwaysFirst == Spec => OlderComesFirst
<1>1. ASSUME IInv, [Next]_vars PROVE OrderKept
  <2>1. CASE FlowAdd
    <3>1. PICK p \in Priorities, m \in Matches, e \in Entry, a \in Addresses \ DOMAIN entries :
            /\ e.prio = p
            /\ \/ Replace(p, m, e, Place(p, m), a)
               \/ Insert(p, m, e, Place(p, m), a)
      BY <1>1, <2>1, FlowAddCases
    <3> QED BY <1>1, <3>1, PlaceFacts, ReplaceOrder, InsertOrder
  <2>2. CASE FlowDelete
    <3>1. PICK gone \in SUBSET DOMAIN entries : Leave(gone)
      BY <2>2 DEF FlowDelete, Selected
    <3> QED BY <1>1, <3>1, LeaveOrder
  <2>3. CASE DatapathTimeout
    BY <1>1, <2>3, GoneFacts, LeaveOrder DEF DatapathTimeout
  <2>4. CASE Lookup \/ Tick \/ UNCHANGED vars
    <3>1. /\ DOMAIN entries' = DOMAIN entries /\ matchList' = matchList /\ active' = active
      BY <2>4 DEF Lookup, Tick, vars, lists
    <3>2. ~(active' > active)
      BY <1>1, <3>1 DEF IInv, TypeOK
    <3> QED BY <3>1, <3>2 DEF OrderKept
  <2> QED BY <1>1, <2>1, <2>2, <2>3, <2>4 DEF Next
<1>2. IInv /\ [Next]_vars => [OrderKept]_vars
  BY <1>1
<1> QED BY <1>2, Inductive, PTL DEF Spec, OlderComesFirst, OrderKept

\* A round of timeouts removes those whose time is over and no others, however
\* the two lists overlap and whatever was replaced or used meanwhile.
THEOREM ExpiredAreRemoved == Spec => RoundRemovesTheExpired
<1> DEFINE Removes == due' # due =>
             DOMAIN entries' = {a \in DOMAIN entries :
                                  ~HardExpired(entries[a]) /\ ~IdleExpired(entries[a])}
<1>1. ASSUME IInv, [Next]_vars PROVE Removes
  <2>1. CASE DatapathTimeout
    <3>1. DOMAIN entries' = DOMAIN entries \ (HardGone \cup IdleGone)
      BY <2>1 DEF DatapathTimeout, Leave
    <3> QED BY <1>1, <3>1, GoneFacts
  <2>2. CASE ~DatapathTimeout
    <3>1. CASE FlowAdd
      BY <3>1 DEF FlowAdd, Replace, Insert, Put
    <3>2. CASE FlowDelete \/ Lookup \/ Tick \/ UNCHANGED vars
      BY <3>2 DEF FlowDelete, Lookup, Tick, vars
    <3> QED BY <1>1, <2>2, <3>1, <3>2 DEF Next
  <2> QED BY <2>1, <2>2
<1>2. IInv /\ [Next]_vars => [Removes]_vars
  BY <1>1
<1> QED BY <1>2, Inductive, PTL DEF Spec, RoundRemovesTheExpired
==============================================================================
