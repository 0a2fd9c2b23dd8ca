------------------------ MODULE ControlChannelProofs ------------------------
(***************************************************************************)
(* Proofs about ControlChannel, for any switches, commands and addresses.   *)
(*                                                                         *)
(* The messages under way are counted, per connection and message: what the *)
(* controller waits for is one message on its way there or back, and so is  *)
(* a flow that is known and not in the table.  The commands under way are a *)
(* list: those in the channel, then those that wait for the handshake.      *)
(***************************************************************************)
EXTENDS ControlChannel, Integers, FiniteSetTheorems, SequenceTheorems, WellFoundedInduction, TLAPS

------------------------------------------------------------------------------
(* Loops that remove elements.  Induction over numbers is for a set of        *)
(* numbers: it rests on < being well-founded on Nat.                          *)

\* Every set of numbers has a least one.
LEMMA LeastNumber ==
  ASSUME NEW T \in SUBSET Nat, T # {}
  PROVE  \E x \in T : \A y \in T : x <= y
<1> DEFINE R == OpToRel(<, Nat)
<1>1. IsWellFoundedOn(R, Nat)
  BY NatLessThanWellFounded
<1>2. PICK x \in T : \A y \in T : ~(<<y, x>> \in R)
  <2> HIDE DEF R
  <2> QED BY <1>1, WFMin
<1>3. ASSUME NEW y \in T, y < x PROVE FALSE
  <2>1. <<y, x>> \in R
    BY <1>3 DEF OpToRel
  <2> QED BY <1>2, <2>1
<1> QED BY <1>3

\* Induction: a set of numbers that has 0 and, with a number, the next has all.
LEMMA AllNumbers ==
  ASSUME NEW S, 0 \in S, \A n \in Nat : n \in S => n + 1 \in S
  PROVE  Nat \subseteq S
<1> SUFFICES ASSUME Nat \ S # {} PROVE FALSE
  OBVIOUS
<1>1. PICK x \in Nat \ S : \A y \in Nat \ S : x <= y
  BY LeastNumber
<1>2. x # 0 /\ x - 1 \in Nat
  BY <1>1
<1>3. x - 1 \in S
  BY <1>1, <1>2
<1> QED BY <1>1, <1>2, <1>3

\* What is left after each round of the loop over l.
Rounds(kept, l, S, m) ==
  /\ DOMAIN kept = 0 .. m
  /\ kept[0] = << >>
  /\ \A n \in 1 .. m :
       kept[n] = IF l[n] \in S THEN Append(kept[n - 1], l[n]) ELSE kept[n - 1]

\* The same as the function that Only defines.
Loop(kept, l, S, m) ==
  kept = [n \in 0 .. m |->
            IF n = 0 THEN << >>
            ELSE IF l[n] \in S THEN Append(kept[n - 1], l[n])
            ELSE kept[n - 1]]

\* The function that Only defines goes round by round.
LEMMA LoopRounds ==
  ASSUME NEW kept, NEW l, NEW S, NEW m \in Nat, Loop(kept, l, S, m)
  PROVE  Rounds(kept, l, S, m)
<1> DEFINE Step(n) == IF n = 0 THEN << >>
                      ELSE IF l[n] \in S THEN Append(kept[n - 1], l[n])
                      ELSE kept[n - 1]
<1>1. kept = [n \in 0 .. m |-> Step(n)]
  BY DEF Loop
<1>2. DOMAIN kept = 0 .. m /\ \A n \in 0 .. m : kept[n] = Step(n)
  <2> HIDE DEF Step
  <2> QED BY <1>1
<1>3. 0 \in 0 .. m /\ \A n \in 1 .. m : n \in 0 .. m /\ n # 0
  OBVIOUS
<1> QED BY <1>2, <1>3 DEF Rounds

\* The loop is defined, for every number of rounds.
LEMMA LoopExists ==
  ASSUME NEW l, NEW S, NEW m \in Nat
  PROVE  \E kept : Loop(kept, l, S, m)
<1> DEFINE Step(kept, n) == IF n = 0 THEN << >>
                            ELSE IF l[n] \in S THEN Append(kept[n - 1], l[n])
                            ELSE kept[n - 1]
           G == {k \in Nat : \E kept : kept = [n \in 0 .. k |-> Step(kept, n)]}
<1>1. 0 \in G
  <2> DEFINE kept == [n \in 0 .. 0 |-> << >>]
  <2>1. \A n \in 0 .. 0 : Step(kept, n) = << >>
    OBVIOUS
  <2>2. kept = [n \in 0 .. 0 |-> Step(kept, n)]
    <3> HIDE DEF Step
    <3> QED BY <2>1
  <2> HIDE DEF kept
  <2> QED BY <2>2
<1>2. ASSUME NEW k \in Nat, k \in G PROVE k + 1 \in G
  <2> HIDE DEF Step
  <2>1. PICK old : old = [n \in 0 .. k |-> Step(old, n)]
    BY <1>2
  <2> DEFINE new == [n \in 0 .. k + 1 |-> Step(old, n)]
  <2>2. \A n \in 0 .. k : new[n] = old[n]
    BY <2>1
  <2>3. \A n \in 0 .. k + 1 : n = 0 \/ n - 1 \in 0 .. k
    OBVIOUS
  <2>4. DOMAIN new = 0 .. k + 1 /\ \A n \in 0 .. k + 1 : new[n] = Step(old, n)
    OBVIOUS
  <2>5. new = [n \in 0 .. k + 1 |-> new[n]]
    OBVIOUS
  <2> HIDE DEF new
  <2>6. \A n \in 0 .. k + 1 : Step(new, n) = Step(old, n)
    BY <2>2, <2>3 DEF Step
  <2>7. new = [n \in 0 .. k + 1 |-> Step(new, n)]
    BY <2>4, <2>5, <2>6
  <2> QED BY <2>7
<1>3. m \in G
  <2> HIDE DEF G
  <2> QED BY <1>1, <1>2, AllNumbers
<1> QED BY <1>3 DEF Loop

\* The same list gives the same rounds.
LEMMA RoundsAgree ==
  ASSUME NEW l, NEW k, NEW S, NEW m \in Nat, NEW n \in Nat, m <= n,
         \A i \in 1 .. m : l[i] = k[i],
         NEW f, Rounds(f, l, S, m), NEW g, Rounds(g, k, S, n)
  PROVE  f[m] = g[m]
<1> DEFINE G == {i \in Nat : i <= m => f[i] = g[i]}
<1>1. 0 \in G
  BY DEF Rounds
<1>2. ASSUME NEW i \in Nat, i \in G PROVE i + 1 \in G
  <2> SUFFICES ASSUME i + 1 <= m PROVE f[i + 1] = g[i + 1]
    OBVIOUS
  <2>1. i + 1 \in 1 .. m /\ i + 1 \in 1 .. n /\ (i + 1) - 1 = i /\ i <= m
    OBVIOUS
  <2>2. f[i] = g[i] /\ l[i + 1] = k[i + 1]
    BY <1>2, <2>1
  <2> QED BY <2>1, <2>2 DEF Rounds
<1>3. m \in G
  <2> HIDE DEF G
  <2> QED BY <1>1, <1>2, AllNumbers
<1> QED BY <1>3

\* Only returns what the last round leaves.
LEMMA OnlyIsLastRound ==
  ASSUME NEW l, NEW S, Len(l) \in Nat
  PROVE  \E kept : Rounds(kept, l, S, Len(l)) /\ Only(l, S) = kept[Len(l)]
<1> DEFINE kept == CHOOSE k : Loop(k, l, S, Len(l))
<1>1. Loop(kept, l, S, Len(l))
  BY LoopExists
<1>2. Only(l, S) = kept[Len(l)]
  BY DEF Only, Loop
<1> QED BY <1>1, <1>2, LoopRounds

\* The loop over the empty list.
LEMMA OnlyEmpty ==
  ASSUME NEW S
  PROVE  Only(<< >>, S) = << >>
<1>1. Len(<< >>) = 0 /\ 0 \in Nat
  OBVIOUS
<1>2. PICK kept : Rounds(kept, << >>, S, Len(<< >>)) /\ Only(<< >>, S) = kept[Len(<< >>)]
  BY <1>1, OnlyIsLastRound
<1> QED BY <1>1, <1>2 DEF Rounds

\* The loop over a list that is one element longer.
LEMMA OnlyAppend ==
  ASSUME NEW A, NEW l \in Seq(A), NEW e \in A, NEW S
  PROVE  Only(Append(l, e), S) = IF e \in S THEN Append(Only(l, S), e) ELSE Only(l, S)
<1> DEFINE k == Append(l, e)
           n == Len(l)
<1>2. /\ n \in Nat /\ Len(k) = n + 1 /\ Len(k) \in Nat /\ k[n + 1] = e
      /\ \A i \in 1 .. n : l[i] = k[i]
  OBVIOUS
<1> HIDE DEF k
<1>3. PICK f : Rounds(f, l, S, n) /\ Only(l, S) = f[n]
  BY <1>2, OnlyIsLastRound
<1>4. PICK g : Rounds(g, k, S, n + 1) /\ Only(k, S) = g[n + 1]
  <2>1. \E g : Rounds(g, k, S, Len(k)) /\ Only(k, S) = g[Len(k)]
    BY <1>2, OnlyIsLastRound
  <2> HIDE DEF n
  <2> QED BY <1>2, <2>1
<1> HIDE DEF n
<1>5. f[n] = g[n]
  <2>1. n + 1 \in Nat /\ n <= n + 1
    BY <1>2
  <2> QED BY <1>2, <1>3, <1>4, <2>1, RoundsAgree
<1>6. n + 1 \in 1 .. n + 1 /\ (n + 1) - 1 = n
  BY <1>2
<1>7. Only(k, S) = IF e \in S THEN Append(Only(l, S), e) ELSE Only(l, S)
  BY <1>2, <1>3, <1>4, <1>5, <1>6 DEF Rounds
<1> QED BY <1>7 DEF k

\* Induction: a set that has the empty list and, with a list, those that are one
\* element longer has all lists.
LEMMA AllLists ==
  ASSUME NEW A, NEW T, << >> \in T,
         \A l \in Seq(A) : \A e \in A : l \in T => Append(l, e) \in T
  PROVE  Seq(A) \subseteq T
<1> DEFINE G == {n \in Nat : \A l \in Seq(A) : Len(l) = n => l \in T}
<1>1. 0 \in G
  BY EmptySeq
<1>2. ASSUME NEW n \in Nat, n \in G PROVE n + 1 \in G
  <2> SUFFICES ASSUME NEW l \in Seq(A), Len(l) = n + 1 PROVE l \in T
    OBVIOUS
  <2> DEFINE k == [i \in 1 .. n |-> l[i]]
  <2>1. /\ DOMAIN l = 1 .. n + 1 /\ n + 1 \in 1 .. n + 1
        /\ \A i \in 1 .. n : i \in 1 .. n + 1
        /\ \A i \in 1 .. n + 1 : i \in 1 .. n \/ i = n + 1
    OBVIOUS
  <2>2. \A i \in 1 .. n + 1 : l[i] \in A
    BY <2>1
  <2>3. k \in Seq(A) /\ Len(k) = n
    BY <2>1, <2>2
  <2>4. k \in T
    BY <1>2, <2>3
  <2>5. l = Append(k, l[n + 1])
    <3>1. Append(k, l[n + 1]) \in Seq(A) /\ Len(Append(k, l[n + 1])) = n + 1
      BY <2>1, <2>2, <2>3
    <3>2. \A i \in 1 .. n + 1 : Append(k, l[n + 1])[i] = l[i]
      BY <2>1, <2>2, <2>3
    <3> HIDE DEF k
    <3> QED BY <3>1, <3>2, SeqEqual
  <2> HIDE DEF k
  <2> QED BY <2>1, <2>2, <2>3, <2>4, <2>5
<1>3. Nat \subseteq G
  <2> HIDE DEF G
  <2> QED BY <1>1, <1>2, AllNumbers
<1> QED BY <1>3

\* The elements that Only keeps.
LEMMA OnlyType ==
  ASSUME NEW A, NEW l \in Seq(A), NEW S
  PROVE  Only(l, S) \in Seq(A \cap S)
<1> DEFINE T == {k \in Seq(A) : Only(k, S) \in Seq(A \cap S)}
<1>1. << >> \in T
  <2>1. << >> \in Seq(A) /\ << >> \in Seq(A \cap S)
    OBVIOUS
  <2>2. Only(<< >>, S) = << >>
    BY OnlyEmpty
  <2> QED BY <2>1, <2>2
<1>2. ASSUME NEW k \in Seq(A), NEW e \in A, k \in T PROVE Append(k, e) \in T
  <2>1. Only(Append(k, e), S) = IF e \in S THEN Append(Only(k, S), e) ELSE Only(k, S)
    BY OnlyAppend
  <2>2. Only(k, S) \in Seq(A \cap S) /\ Append(k, e) \in Seq(A)
    BY <1>2
  <2>3. \A o \in Seq(A \cap S) : e \in S => Append(o, e) \in Seq(A \cap S)
    OBVIOUS
  <2> QED BY <2>1, <2>2, <2>3
<1> HIDE DEF T
<1>3. Seq(A) \subseteq T
  BY <1>1, <1>2, AllLists
<1> QED BY <1>3 DEF T
------------------------------------------------------------------------------
(* Lists of messages *)

\* A concatenation element by element, and a list by its head.
LEMMA ConcatSteps ==
  ASSUME NEW A, NEW a \in Seq(A)
  PROVE  /\ a \o << >> = a
         /\ << >> \o a = a
         /\ \A b \in Seq(A), e \in A : a \o Append(b, e) = Append(a \o b, e)
         /\ \A e \in A : Append(a, e) = a \o <<e>>
         /\ a # << >> => Head(a) \in A /\ Tail(a) \in Seq(A) /\ a = <<Head(a)>> \o Tail(a)
<1>1. a \o << >> = a /\ << >> \o a = a
  OBVIOUS
<1>2. ASSUME NEW b \in Seq(A), NEW e \in A PROVE a \o Append(b, e) = Append(a \o b, e)
  <2>1. /\ a \o b \in Seq(A) /\ Append(b, e) \in Seq(A)
        /\ a \o Append(b, e) \in Seq(A) /\ Append(a \o b, e) \in Seq(A)
    OBVIOUS
  <2>2. /\ Len(a \o Append(b, e)) = Len(a) + Len(b) + 1
        /\ Len(Append(a \o b, e)) = Len(a) + Len(b) + 1
    OBVIOUS
  <2>3. \A i \in 1 .. Len(a) + Len(b) + 1 : (a \o Append(b, e))[i] = Append(a \o b, e)[i]
    OBVIOUS
  <2> QED BY <2>1, <2>2, <2>3, SeqEqual
<1>3. ASSUME NEW e \in A PROVE Append(a, e) = a \o <<e>>
  OBVIOUS
<1>4. ASSUME a # << >>
      PROVE  Head(a) \in A /\ Tail(a) \in Seq(A) /\ a = <<Head(a)>> \o Tail(a)
  BY <1>4
<1> QED BY <1>1, <1>2, <1>3, <1>4

\* The elements of a concatenation.
LEMMA ConcatSet ==
  ASSUME NEW A, NEW a \in Seq(A), NEW b \in Seq(A)
  PROVE  a \o b \in Seq(A) /\ ToSet(a \o b) = ToSet(a) \cup ToSet(b)
<1>1. /\ Len(a) \in Nat /\ Len(b) \in Nat /\ a \o b \in Seq(A)
      /\ DOMAIN a = 1 .. Len(a) /\ DOMAIN b = 1 .. Len(b)
      /\ DOMAIN (a \o b) = 1 .. Len(a) + Len(b)
      /\ \A i \in 1 .. Len(a) : (a \o b)[i] = a[i]
      /\ \A i \in 1 .. Len(b) : (a \o b)[Len(a) + i] = b[i]
  OBVIOUS
<1>2. \A i \in 1 .. Len(a) + Len(b) :
        i \in 1 .. Len(a) \/ \E j \in 1 .. Len(b) : i = Len(a) + j
  <2>1. ASSUME NEW i \in 1 .. Len(a) + Len(b), i \notin 1 .. Len(a)
        PROVE  \E j \in 1 .. Len(b) : i = Len(a) + j
    <3>1. i - Len(a) \in 1 .. Len(b) /\ i = Len(a) + (i - Len(a))
      BY <1>1, <2>1
    <3> QED BY <3>1
  <2> QED BY <2>1
<1>3. /\ \A i \in 1 .. Len(a) : i \in 1 .. Len(a) + Len(b)
      /\ \A j \in 1 .. Len(b) : Len(a) + j \in 1 .. Len(a) + Len(b)
  BY <1>1
<1>4. ASSUME NEW x \in ToSet(a \o b) PROVE x \in ToSet(a) \cup ToSet(b)
  BY <1>1, <1>2, <1>4 DEF ToSet
<1>5. ASSUME NEW x \in ToSet(a) PROVE x \in ToSet(a \o b)
  BY <1>1, <1>3, <1>5 DEF ToSet
<1>6. ASSUME NEW x \in ToSet(b) PROVE x \in ToSet(a \o b)
  BY <1>1, <1>3, <1>6 DEF ToSet
<1> QED BY <1>1, <1>4, <1>5, <1>6

\* How often a list has a message, when another one is put behind it.
LEMMA TimesAppend ==
  ASSUME NEW A, NEW a \in Seq(A), NEW e \in A, NEW m
  PROVE  /\ Times(a, m) \in Nat
         /\ Times(a, m) = 0 <=> m \notin ToSet(a)
         /\ Times(Append(a, e), m) = Times(a, m) + (IF e = m THEN 1 ELSE 0)
<1> DEFINE I == {i \in DOMAIN a : a[i] = m}
           J == {i \in DOMAIN Append(a, e) : Append(a, e)[i] = m}
           n == Len(a)
<1>1. /\ n \in Nat /\ DOMAIN a = 1 .. n /\ DOMAIN Append(a, e) = 1 .. n + 1
      /\ Append(a, e)[n + 1] = e
      /\ \A i \in 1 .. n : Append(a, e)[i] = a[i]
  OBVIOUS
<1> HIDE DEF n
<1>2. IsFiniteSet(1 .. n)
  BY <1>1, FS_Interval
<1>3. I \subseteq 1 .. n
  BY <1>1
<1>4. IsFiniteSet(I) /\ Cardinality(I) \in Nat
  BY <1>2, <1>3, FS_Subset, FS_CardinalityType
<1>5. Cardinality(I) = 0 <=> m \notin ToSet(a)
  BY <1>4, FS_EmptySet DEF ToSet
<1>6. /\ n + 1 \notin 1 .. n /\ n + 1 \in 1 .. n + 1
      /\ \A i \in 1 .. n + 1 : i \in 1 .. n \/ i = n + 1
      /\ \A i \in 1 .. n : i \in 1 .. n + 1
  BY <1>1
<1>7. Times(a, m) = Cardinality(I) /\ Times(Append(a, e), m) = Cardinality(J)
  BY DEF Times
<1>8. CASE e = m
  <2>1. J = I \cup {n + 1} /\ n + 1 \notin I
    BY <1>1, <1>6, <1>8
  <2>2. Cardinality(I \cup {n + 1}) = Cardinality(I) + 1
    <3> HIDE DEF I
    <3> QED BY <1>4, <2>1, FS_AddElement
  <2> HIDE DEF I, J
  <2> QED BY <1>4, <1>5, <1>7, <1>8, <2>1, <2>2
<1>9. CASE e # m
  <2>1. J = I
    BY <1>1, <1>6, <1>9
  <2> HIDE DEF I, J
  <2> QED BY <1>4, <1>5, <1>7, <1>9, <2>1
<1> QED BY <1>8, <1>9

\* How often the empty list has a message, and a concatenation of two lists.
LEMMA TimesEmpty ==
  ASSUME NEW m
  PROVE  Times(<< >>, m) = 0
<1>1. {i \in DOMAIN << >> : << >>[i] = m} = {}
  OBVIOUS
<1> QED BY <1>1, FS_EmptySet DEF Times

LEMMA TimesConcat ==
  ASSUME NEW A, NEW a \in Seq(A), NEW b \in Seq(A), NEW m
  PROVE  /\ Times(a, m) \in Nat /\ Times(b, m) \in Nat
         /\ Times(a \o b, m) = Times(a, m) + Times(b, m)
<1> DEFINE T == {k \in Seq(A) : /\ Times(k, m) \in Nat
                                /\ Times(a \o k, m) = Times(a, m) + Times(k, m)}
<1>0. Times(a, m) \in Nat
  <2>1. CASE A = {}
    <3>1. a = << >>
      BY <2>1, EmptySeq
    <3> QED BY <3>1, TimesEmpty
  <2>2. CASE A # {}
    BY <2>2, TimesAppend
  <2> QED BY <2>1, <2>2
<1>1. << >> \in T
  <2>1. << >> \in Seq(A) /\ a \o << >> = a
    OBVIOUS
  <2> QED BY <2>1, <1>0, TimesEmpty
<1>2. ASSUME NEW k \in Seq(A), NEW e \in A, k \in T PROVE Append(k, e) \in T
  <2>1. a \o Append(k, e) = Append(a \o k, e) /\ a \o k \in Seq(A) /\ Append(k, e) \in Seq(A)
    BY ConcatSteps
  <2>2. Times(Append(k, e), m) = Times(k, m) + (IF e = m THEN 1 ELSE 0)
    BY TimesAppend
  <2>3. Times(Append(a \o k, e), m) = Times(a \o k, m) + (IF e = m THEN 1 ELSE 0)
    <3> DEFINE c == a \o k
    <3>1. c \in Seq(A)
      BY <2>1
    <3> HIDE DEF c
    <3>2. Times(Append(c, e), m) = Times(c, m) + (IF e = m THEN 1 ELSE 0)
      BY <3>1, TimesAppend
    <3> QED BY <3>2 DEF c
  <2>4. Times(k, m) \in Nat /\ Times(a \o k, m) = Times(a, m) + Times(k, m)
    BY <1>2
  <2>5. Times(a \o Append(k, e), m) = Times(a, m) + Times(Append(k, e), m)
    BY <1>0, <2>1, <2>2, <2>3, <2>4
  <2>6. Times(Append(k, e), m) \in Nat
    BY <2>2, <2>4
  <2> QED BY <2>1, <2>5, <2>6
<1> HIDE DEF T
<1>3. Seq(A) \subseteq T
  BY <1>1, <1>2, AllLists
<1>4. b \in T
  BY <1>3
<1> QED BY <1>0, <1>4 DEF T
------------------------------------------------------------------------------
(* Commands *)

\* The field of a command.
LEMMA CommandFields ==
  ASSUME NEW c
  PROVE  Command(c).type = "command" /\ Command(c).cmd = c
BY DEF Command

\* Which requests are commands.
LEMMA CommandRequests ==
  ASSUME NEW r \in Request
  PROVE  /\ r.type = "command" <=> r \in {Command(c) : c \in Commands}
         /\ r.type = "command" => r.cmd \in Commands /\ r = Command(r.cmd)
BY DEF Request, Command

\* The names of the commands in a list of messages.
Names(ms) == [i \in DOMAIN ms |-> ms[i].cmd]

\* The names, when a message is put behind the others.
LEMMA NamesAppend ==
  ASSUME NEW ms \in Seq({Command(c) : c \in Commands}), NEW c \in Commands
  PROVE  /\ Names(<< >>) = << >>
         /\ Names(ms) \in Seq(Commands)
         /\ Names(Append(ms, Command(c))) = Append(Names(ms), c)
<1>1. Names(<< >>) = << >>
  BY DEF Names
<1>2. /\ Len(ms) \in Nat /\ DOMAIN ms = 1 .. Len(ms)
      /\ \A i \in 1 .. Len(ms) : ms[i] \in {Command(d) : d \in Commands}
  OBVIOUS
<1>3. \A i \in 1 .. Len(ms) : ms[i].cmd \in Commands
  BY <1>2, CommandFields
<1>4. Names(ms) \in Seq(Commands) /\ Len(Names(ms)) = Len(ms)
  BY <1>2, <1>3 DEF Names
<1> DEFINE ns == Append(ms, Command(c))
<1>5. /\ DOMAIN ns = 1 .. Len(ms) + 1 /\ ns[Len(ms) + 1] = Command(c)
      /\ \A i \in 1 .. Len(ms) : ns[i] = ms[i]
  BY <1>2
<1> HIDE DEF ns
<1>6. \A i \in 1 .. Len(ms) + 1 : i \in 1 .. Len(ms) \/ i = Len(ms) + 1
  BY <1>2
<1>7. \A i \in 1 .. Len(ms) + 1 : ns[i].cmd \in Commands
  BY <1>3, <1>5, <1>6, CommandFields
<1>8. Names(ns) \in Seq(Commands) /\ Len(Names(ns)) = Len(ms) + 1
  BY <1>2, <1>5, <1>7 DEF Names
<1>9. Append(Names(ms), c) \in Seq(Commands) /\ Len(Append(Names(ms), c)) = Len(ms) + 1
  BY <1>4
<1>10. \A i \in 1 .. Len(ms) + 1 : Names(ns)[i] = Append(Names(ms), c)[i]
  <2>1. \A i \in 1 .. Len(ms) : Names(ns)[i] = ms[i].cmd /\ Names(ms)[i] = ms[i].cmd
    BY <1>2, <1>5, <1>6 DEF Names
  <2>2. Names(ns)[Len(ms) + 1] = c
    BY <1>2, <1>5, CommandFields DEF Names
  <2>3. /\ \A i \in 1 .. Len(ms) : Append(Names(ms), c)[i] = Names(ms)[i]
        /\ Append(Names(ms), c)[Len(ms) + 1] = c
    BY <1>4
  <2> QED BY <1>6, <2>1, <2>2, <2>3
<1>11. Names(ns) = Append(Names(ms), c)
  BY <1>8, <1>9, <1>10, SeqEqual
<1> QED BY <1>1, <1>4, <1>11 DEF ns

\* The commands of a channel, when a message is put behind the others.
LEMMA CommandsAppend ==
  ASSUME NEW q \in Seq(Request), NEW r \in Request
  PROVE  /\ CommandsIn(<< >>) = << >>
         /\ CommandsIn(q) \in Seq(Commands)
         /\ CommandsIn(Append(q, r)) =
              IF r.type = "command" THEN Append(CommandsIn(q), r.cmd) ELSE CommandsIn(q)
<1> DEFINE C == {Command(c) : c \in Commands}
<1>1. \A k : CommandsIn(k) = Names(Only(k, C))
  BY DEF CommandsIn, Names
<1>2. Only(q, C) \in Seq(C)
  <2>1. Only(q, C) \in Seq(Request \cap C)
    BY OnlyType
  <2>2. Request \cap C = C
    BY DEF Request
  <2> QED BY <2>1, <2>2
<1>3. r.type = "command" <=> r \in C
  BY CommandRequests
<1>4. Only(Append(q, r), C) = IF r \in C THEN Append(Only(q, C), r) ELSE Only(q, C)
  BY OnlyAppend
<1>5. \E c : c \in Commands
  BY DEF Commands, Setup, Range
<1>6. Only(<< >>, C) = << >> /\ Names(<< >>) = << >> /\ Names(Only(q, C)) \in Seq(Commands)
  BY <1>2, <1>5, OnlyEmpty, NamesAppend
<1>7. CASE r \in C
  <2>1. r.cmd \in Commands /\ r = Command(r.cmd)
    BY <1>3, <1>7, CommandRequests
  <2> DEFINE l == Only(q, C)
             c == r.cmd
  <2>2. l \in Seq(C) /\ c \in Commands
    BY <1>2, <2>1
  <2> HIDE DEF l, c
  <2>3. Names(Append(l, Command(c))) = Append(Names(l), c)
    BY <2>2, NamesAppend
  <2>4. Names(Append(Only(q, C), r)) = Append(Names(Only(q, C)), r.cmd)
    BY <2>1, <2>3 DEF l, c
  <2> QED BY <1>1, <1>3, <1>4, <1>6, <1>7, <2>4
<1>8. CASE r \notin C
  BY <1>1, <1>3, <1>4, <1>6, <1>8
<1> QED BY <1>7, <1>8

\* The commands of a concatenation.
LEMMA CommandsConcat ==
  ASSUME NEW a \in Seq(Request), NEW b \in Seq(Request)
  PROVE  CommandsIn(a \o b) = CommandsIn(a) \o CommandsIn(b)
<1> DEFINE T == {k \in Seq(Request) : CommandsIn(a \o k) = CommandsIn(a) \o CommandsIn(k)}
<1>0. [type |-> "hello"] \in Request
  BY DEF Request
<1>1. << >> \in T
  <2>1. << >> \in Seq(Request) /\ a \o << >> = a
    OBVIOUS
  <2>2. CommandsIn(<< >>) = << >> /\ CommandsIn(a) \in Seq(Commands)
    BY <1>0, CommandsAppend
  <2> QED BY <2>1, <2>2
<1>2. ASSUME NEW k \in Seq(Request), NEW r \in Request, k \in T PROVE Append(k, r) \in T
  <2>1. a \o Append(k, r) = Append(a \o k, r) /\ a \o k \in Seq(Request)
        /\ Append(k, r) \in Seq(Request)
    BY ConcatSteps
  <2>2. CommandsIn(a \o k) = CommandsIn(a) \o CommandsIn(k)
    BY <1>2
  <2>3. CommandsIn(Append(k, r)) =
          IF r.type = "command" THEN Append(CommandsIn(k), r.cmd) ELSE CommandsIn(k)
    BY CommandsAppend
  <2>4. CommandsIn(Append(a \o k, r)) =
          IF r.type = "command" THEN Append(CommandsIn(a \o k), r.cmd) ELSE CommandsIn(a \o k)
    <3> DEFINE c == a \o k
    <3>1. c \in Seq(Request)
      BY <2>1
    <3> HIDE DEF c
    <3>2. CommandsIn(Append(c, r)) =
            IF r.type = "command" THEN Append(CommandsIn(c), r.cmd) ELSE CommandsIn(c)
      BY <3>1, CommandsAppend
    <3> QED BY <3>2 DEF c
  <2>5. CommandsIn(a) \in Seq(Commands) /\ CommandsIn(k) \in Seq(Commands)
    BY <1>0, CommandsAppend
  <2>6. CASE r.type = "command"
    <3>1. r.cmd \in Commands
      BY <2>6, CommandRequests
    <3>2. CommandsIn(a) \o Append(CommandsIn(k), r.cmd)
            = Append(CommandsIn(a) \o CommandsIn(k), r.cmd)
      BY <2>5, <3>1, ConcatSteps
    <3> QED BY <2>1, <2>2, <2>3, <2>4, <2>6, <3>2
  <2>7. CASE r.type # "command"
    BY <2>1, <2>2, <2>3, <2>4, <2>7
  <2> QED BY <2>6, <2>7
<1> HIDE DEF T
<1>3. Seq(Request) \subseteq T
  BY <1>1, <1>2, AllLists
<1>4. b \in T
  BY <1>3
<1> QED BY <1>4 DEF T

\* The commands of a channel, with the message at its head.
LEMMA CommandsHead ==
  ASSUME NEW q \in Seq(Request), q # << >>
  PROVE  /\ CommandsIn(q) \in Seq(Commands) /\ CommandsIn(Tail(q)) \in Seq(Commands)
         /\ CommandsIn(q) = IF Head(q).type = "command"
                            THEN <<Head(q).cmd>> \o CommandsIn(Tail(q))
                            ELSE CommandsIn(Tail(q))
<1> DEFINE h == Head(q)
           t == Tail(q)
<1>1. h \in Request /\ t \in Seq(Request) /\ q = <<h>> \o t
  BY ConcatSteps
<1> HIDE DEF h, t
<1>2. <<h>> = Append(<< >>, h) /\ << >> \in Seq(Request) /\ <<h>> \in Seq(Request)
  BY <1>1
<1>3. CommandsIn(<<h>>) = IF h.type = "command" THEN <<h.cmd>> ELSE << >>
  <2>1. CommandsIn(Append(<< >>, h)) =
          IF h.type = "command" THEN Append(CommandsIn(<< >>), h.cmd) ELSE CommandsIn(<< >>)
    BY <1>1, <1>2, CommandsAppend
  <2>2. CommandsIn(<< >>) = << >>
    BY <1>1, <1>2, CommandsAppend
  <2> QED BY <1>2, <2>1, <2>2
<1>4. CommandsIn(q) = CommandsIn(<<h>>) \o CommandsIn(t)
  BY <1>1, <1>2, CommandsConcat
<1>5. CommandsIn(t) \in Seq(Commands) /\ CommandsIn(q) \in Seq(Commands)
  BY <1>1, CommandsAppend
<1>6. << >> \o CommandsIn(t) = CommandsIn(t)
  BY <1>5
<1> QED BY <1>3, <1>4, <1>5, <1>6 DEF h, t

\* Messages made of commands have these commands.
LEMMA MessagesOf ==
  ASSUME NEW A \in SUBSET Commands, NEW cs \in Seq(A)
  PROVE  /\ AsMessages(cs) \in Seq({Command(c) : c \in A})
         /\ AsMessages(cs) \in Seq(Request)
         /\ CommandsIn(AsMessages(cs)) = cs
<1>1. \A c \in Commands : Command(c) \in Request
  BY DEF Request
<1>2. ASSUME NEW k \in Seq(A)
      PROVE  /\ AsMessages(k) \in Seq({Command(c) : c \in A})
             /\ AsMessages(k) \in Seq(Request)
  BY <1>1 DEF AsMessages
<1> DEFINE T == {k \in Seq(A) : CommandsIn(AsMessages(k)) = k}
<1>3. << >> \in T
  <2>1. AsMessages(<< >>) = << >> /\ << >> \in Seq(A) /\ << >> \in Seq(Request)
    BY DEF AsMessages
  <2>2. [type |-> "hello"] \in Request
    BY DEF Request
  <2> QED BY <2>1, <2>2, CommandsAppend
<1>4. ASSUME NEW k \in Seq(A), NEW e \in A, k \in T PROVE Append(k, e) \in T
  <2>1. AsMessages(Append(k, e)) = Append(AsMessages(k), Command(e))
    <3>1. /\ AsMessages(Append(k, e)) \in Seq(Request)
          /\ Append(AsMessages(k), Command(e)) \in Seq(Request)
      <4>1. Append(k, e) \in Seq(A) /\ Command(e) \in Request
        BY <1>1
      <4>2. AsMessages(k) \in Seq(Request) /\ AsMessages(Append(k, e)) \in Seq(Request)
        BY <1>2, <4>1
      <4> QED BY <4>1, <4>2
    <3>2. /\ Len(AsMessages(Append(k, e))) = Len(k) + 1
          /\ Len(Append(AsMessages(k), Command(e))) = Len(k) + 1
          /\ Len(AsMessages(k)) = Len(k)
      BY <1>2 DEF AsMessages
    <3>3. \A i \in 1 .. Len(k) + 1 :
            AsMessages(Append(k, e))[i] = Append(AsMessages(k), Command(e))[i]
      <4>1. \A i \in 1 .. Len(k) + 1 : i \in 1 .. Len(k) \/ i = Len(k) + 1
        OBVIOUS
      <4>2. /\ \A i \in 1 .. Len(k) : /\ AsMessages(Append(k, e))[i] = Command(k[i])
                                      /\ AsMessages(k)[i] = Command(k[i])
            /\ AsMessages(Append(k, e))[Len(k) + 1] = Command(e)
        BY DEF AsMessages
      <4>3. /\ \A i \in 1 .. Len(k) :
                 Append(AsMessages(k), Command(e))[i] = AsMessages(k)[i]
            /\ Append(AsMessages(k), Command(e))[Len(k) + 1] = Command(e)
        BY <1>2, <3>2
      <4> QED BY <4>1, <4>2, <4>3
    <3> QED BY <3>1, <3>2, <3>3, SeqEqual
  <2>2. CommandsIn(Append(AsMessages(k), Command(e))) = Append(k, e)
    <3>1. Command(e) \in Request /\ Command(e).type = "command" /\ Command(e).cmd = e
      BY <1>1, CommandFields
    <3>2. AsMessages(k) \in Seq(Request) /\ CommandsIn(AsMessages(k)) = k
      BY <1>2, <1>4
    <3> DEFINE ms == AsMessages(k)
    <3> HIDE DEF ms
    <3>3. CommandsIn(Append(ms, Command(e))) = Append(CommandsIn(ms), e)
      BY <3>1, <3>2, CommandsAppend DEF ms
    <3> QED BY <3>2, <3>3 DEF ms
  <2>3. Append(k, e) \in Seq(A) /\ CommandsIn(AsMessages(Append(k, e))) = Append(k, e)
    BY <2>1, <2>2
  <2> QED BY <2>3
<1> HIDE DEF T
<1>5. Seq(A) \subseteq T
  BY <1>3, <1>4, AllLists
<1>6. cs \in T
  BY <1>5
<1> QED BY <1>2, <1>6 DEF T

\* What is sent of a queue of commands.
LEMMA SupportedFacts ==
  ASSUME NEW cs \in Seq(UserCommands), NEW c \in UserCommands
  PROVE  /\ Supported(<< >>) = << >>
         /\ Supported(cs) \in Seq(UserCommands \ Unsupported)
         /\ Supported(Append(cs, c)) =
              IF c \in Unsupported THEN Supported(cs) ELSE Append(Supported(cs), c)
         /\ Supported(<<c>>) = IF c \in Unsupported THEN << >> ELSE <<c>>
<1> DEFINE S == Commands \ Unsupported
<1>1. UserCommands \cap S = UserCommands \ Unsupported /\ c \in Commands
  BY DEF Commands
<1>2. Only(cs, S) \in Seq(UserCommands \cap S)
  BY OnlyType
<1>3. Only(<< >>, S) = << >>
  BY OnlyEmpty
<1>4. ASSUME NEW l \in Seq(UserCommands)
      PROVE  Only(Append(l, c), S) = IF c \in S THEN Append(Only(l, S), c) ELSE Only(l, S)
  BY OnlyAppend
<1>5. << >> \in Seq(UserCommands) /\ Append(<< >>, c) = <<c>>
  OBVIOUS
<1>6. Only(<<c>>, S) = IF c \in S THEN <<c>> ELSE << >>
  BY <1>3, <1>4, <1>5
<1> QED BY <1>1, <1>2, <1>3, <1>4, <1>6 DEF Supported
------------------------------------------------------------------------------
(* Messages that are counted *)

Hello == [type |-> "hello"]
BarrierRequest(x) == [type |-> "barrier_request", xid |-> x]
BarrierReply(x) == [type |-> "barrier_reply", xid |-> x]
EchoRequest(x) == [type |-> "echo_request", xid |-> x]
EchoReply(x) == [type |-> "echo_reply", xid |-> x]
PacketInOf(m) == [type |-> "packet_in", mac |-> m]
FlowRemoved(m) == [type |-> "flow_removed", mac |-> m]

\* What tells them apart.
LEMMA Kinds ==
  /\ Hello.type = "hello"
  /\ \A x : BarrierRequest(x).type = "barrier_request" /\ BarrierRequest(x).xid = x
  /\ \A x : BarrierReply(x).type = "barrier_reply" /\ BarrierReply(x).xid = x
  /\ \A x : EchoRequest(x).type = "echo_request" /\ EchoRequest(x).xid = x
  /\ \A x : EchoReply(x).type = "echo_reply" /\ EchoReply(x).xid = x
  /\ \A m : PacketInOf(m).type = "packet_in" /\ PacketInOf(m).mac = m
  /\ \A m : FlowRemoved(m).type = "flow_removed" /\ FlowRemoved(m).mac = m
  /\ \A c : Command(c).type = "command" /\ Command(c).cmd = c
BY DEF Hello, BarrierRequest, BarrierReply, EchoRequest, EchoReply, PacketInOf,
       FlowRemoved, Command

\* Requests that a switch can get.
Sent == Request \ {Command(c) : c \in Unsupported}

\* Which messages are requests and which are reports.
LEMMA Messages ==
  /\ Hello \in Sent /\ Hello \in Report
  /\ [type |-> "features_request"] \in Sent /\ [type |-> "packet_out"] \in Sent
  /\ [type |-> "features_reply"] \in Report
  /\ \A x \in Xid : /\ BarrierRequest(x) \in Sent /\ EchoRequest(x) \in Sent
                    /\ BarrierReply(x) \in Report /\ EchoReply(x) \in Report
  /\ \A m \in Macs : PacketInOf(m) \in Report /\ FlowRemoved(m) \in Report
  /\ \A c \in Commands \ Unsupported : Command(c) \in Sent
<1>1. \A c : Command(c).type = "command" /\ Command(c).cmd = c
  BY Kinds
<1>2. \A r \in Request : r.type # "command" => r \in Sent
  BY <1>1 DEF Sent
<1>3. /\ Hello \in Request /\ Hello.type # "command"
      /\ [type |-> "features_request"] \in Request /\ [type |-> "packet_out"] \in Request
  BY DEF Request, Hello
<1>4. \A x \in Xid : /\ BarrierRequest(x) \in Request /\ BarrierRequest(x).type # "command"
                     /\ EchoRequest(x) \in Request /\ EchoRequest(x).type # "command"
  BY DEF Request, BarrierRequest, EchoRequest
<1>5. \A c \in Commands \ Unsupported : Command(c) \in Sent
  BY <1>1 DEF Sent, Request
<1> QED BY <1>2, <1>3, <1>4, <1>5
    DEF Report, Hello, BarrierReply, EchoReply, PacketInOf, FlowRemoved

\* Which messages are of which kind.
LEMMA MessageIs ==
  /\ \A r \in Sent : /\ r \in Request
                     /\ r.type = "barrier_request" => r.xid \in Xid /\ r = BarrierRequest(r.xid)
                     /\ r.type = "echo_request" => r.xid \in Xid /\ r = EchoRequest(r.xid)
                     /\ r.type = "command" => /\ r.cmd \in Commands \ Unsupported
                                              /\ r = Command(r.cmd)
  /\ \A r \in Report : /\ r.type = "hello" => r = Hello
                       /\ r.type = "barrier_reply" => r.xid \in Xid /\ r = BarrierReply(r.xid)
                       /\ r.type = "echo_reply" => r.xid \in Xid /\ r = EchoReply(r.xid)
                       /\ r.type = "packet_in" => r.mac \in Macs
                       /\ r.type = "flow_removed" => r.mac \in Macs /\ r = FlowRemoved(r.mac)
<1>1. ASSUME NEW r \in Sent
      PROVE  /\ r \in Request
             /\ r.type = "barrier_request" => r.xid \in Xid /\ r = BarrierRequest(r.xid)
             /\ r.type = "echo_request" => r.xid \in Xid /\ r = EchoRequest(r.xid)
             /\ r.type = "command" => r.cmd \in Commands \ Unsupported /\ r = Command(r.cmd)
  <2>1. r \in Request
    BY DEF Sent
  <2>2. r.type = "command" => r.cmd \in Commands /\ r = Command(r.cmd)
    BY <2>1, CommandRequests
  <2> QED BY <2>1, <2>2 DEF Sent, Request, Command, BarrierRequest, EchoRequest
<1>2. ASSUME NEW r \in Report
      PROVE  /\ r.type = "hello" => r = Hello
             /\ r.type = "barrier_reply" => r.xid \in Xid /\ r = BarrierReply(r.xid)
             /\ r.type = "echo_reply" => r.xid \in Xid /\ r = EchoReply(r.xid)
             /\ r.type = "packet_in" => r.mac \in Macs
             /\ r.type = "flow_removed" => r.mac \in Macs /\ r = FlowRemoved(r.mac)
  BY DEF Report, Hello, BarrierReply, EchoReply, FlowRemoved
<1> QED BY <1>1, <1>2

\* Lists of one message.
LEMMA TimesOne ==
  ASSUME NEW a, NEW m
  PROVE  Times(<<a>>, m) = IF a = m THEN 1 ELSE 0
<1> DEFINE A == {a}
           none == << >>
           one == <<a>>
<1>1. none \in Seq(A) /\ a \in A /\ one = Append(none, a)
  OBVIOUS
<1>2. Times(none, m) = 0
  BY TimesEmpty
<1> HIDE DEF A, none, one
<1>3. Times(one, m) = Times(none, m) + (IF a = m THEN 1 ELSE 0)
  BY <1>1, TimesAppend
<1>4. Times(one, m) = IF a = m THEN 1 ELSE 0
  BY <1>2, <1>3
<1> QED BY <1>4 DEF one

\* The message at the head of a list.
LEMMA TakeFacts ==
  ASSUME NEW A, NEW q \in Seq(A), q # << >>
  PROVE  /\ Head(q) \in A /\ Tail(q) \in Seq(A) /\ Head(q) \in ToSet(q)
         /\ ToSet(Tail(q)) \subseteq ToSet(q)
         /\ \A m : Times(q, m) = Times(Tail(q), m) + (IF m = Head(q) THEN 1 ELSE 0)
<1> DEFINE h == Head(q)
           r == Tail(q)
           one == <<h>>
<1>1. h \in A /\ r \in Seq(A) /\ q = one \o r
  BY ConcatSteps
<1> HIDE DEF h, r
<1>2. one \in Seq(A) /\ ToSet(one) = {h}
  BY <1>1 DEF ToSet
<1>3. \A m : Times(one, m) = IF h = m THEN 1 ELSE 0
  BY TimesOne
<1> HIDE DEF one
<1>4. ToSet(one \o r) = ToSet(one) \cup ToSet(r)
  BY <1>1, <1>2, ConcatSet
<1>5. \A m : Times(r, m) \in Nat /\ Times(one \o r, m) = Times(one, m) + Times(r, m)
  BY <1>1, <1>2, TimesConcat
<1>6. \A m : Times(q, m) = Times(r, m) + (IF m = h THEN 1 ELSE 0)
  BY <1>1, <1>3, <1>5
<1>7. h \in ToSet(q) /\ ToSet(r) \subseteq ToSet(q)
  BY <1>1, <1>2, <1>4
<1> QED BY <1>1, <1>6, <1>7 DEF h, r

\* The pending replies, as std::map keeps them.
LEMMA MapFacts ==
  ASSUME NEW map, NEW key, NEW value
  PROVE  /\ DOMAIN Insert(map, key, value) = DOMAIN map \cup {key}
         /\ Range(Insert(map, key, value)) \subseteq Range(map) \cup {value}
         /\ DOMAIN Erase(map, key) = DOMAIN map \ {key}
         /\ Range(Erase(map, key)) \subseteq Range(map)
BY DEF Insert, Erase, Range
------------------------------------------------------------------------------
(* The inductive invariant.  That ids stay in their range rests on counting:   *)
(* one for every switch whose hello was handled, and one for every echo.      *)

Greeted == {s \in connected : Times(toCtrl[s], Hello) = 0}

Greetings ==
  /\ \A s \in Switches : Times(toCtrl[s], Hello) <= IF s \in connected THEN 1 ELSE 0
  /\ xid <= Cardinality(Greeted) + inputs

BarrierOf(s, x) ==
  Times(toSwitch[s], BarrierRequest(x)) + Times(toCtrl[s], BarrierReply(x))
    = IF x \in DOMAIN barriers /\ barriers[x] = s THEN 1 ELSE 0

EchoOf(s, x) ==
  Times(toSwitch[s], EchoRequest(x)) + Times(toCtrl[s], EchoReply(x))
    = IF x \in DOMAIN echoes /\ echoes[x] = s THEN 1 ELSE 0

FlowOf(s, m) ==
  Times(toSwitch[s], Command(m)) + flows[s][m] + Times(toCtrl[s], FlowRemoved(m))
    = IF m \in learned[s] THEN 1 ELSE 0

\* Nothing waits for a registered switch, and one that is not registered has got
\* no command and reported no packet.
ReadyOf(s) ==
  /\ s \in registered => pending[s] = << >>
  /\ s \notin registered =>
       /\ executed[s] = << >>
       /\ \A m \in ToSet(toSwitch[s]) : m.type # "command"
       /\ \A m \in ToSet(toCtrl[s]) : m.type # "packet_in"

Channels == toSwitch \in [Switches -> Seq(Sent)] /\ toCtrl \in [Switches -> Seq(Report)]

IInv ==
  /\ TypeOK /\ Channels /\ Greetings
  /\ \A s \in Switches : \A x \in Xid : BarrierOf(s, x) /\ EchoOf(s, x)
  /\ \A s \in Switches : \A m \in Macs : FlowOf(s, m)
  /\ \A s \in Switches : ReadyOf(s)

\* What is counted is what the properties say.
LEMMA Counted ==
  ASSUME IInv
  PROVE  RepliesAreExpected /\ KnownMeansOneFlow
BY DEF IInv, RepliesAreExpected, KnownMeansOneFlow, BarrierOf, EchoOf, FlowOf,
       BarrierRequest, BarrierReply, EchoRequest, EchoReply, FlowRemoved

\* Requests that are sent are requests.
LEMMA SentAreRequests ==
  /\ \A q \in Seq(Sent) : q \in Seq(Request)
  /\ \A f \in [Switches -> Seq(Sent)] : f \in [Switches -> Seq(Request)]
<1>1. \A r \in Sent : r \in Request
  BY DEF Sent
<1>2. ASSUME NEW q \in Seq(Sent) PROVE q \in Seq(Request)
  BY <1>1
<1> QED BY <1>2

\* Messages sent to one switch: what its channel holds then, and how often.
LEMMA SwitchGets ==
  ASSUME Channels, NEW s \in Switches, NEW ms \in Seq(Sent), SendToSwitch(s, ms)
  PROVE  /\ toSwitch' \in [Switches -> Seq(Sent)] /\ toSwitch' \in [Switches -> Seq(Request)]
         /\ \A t \in Switches : \A m :
              /\ Times(toSwitch[t], m) \in Nat /\ Times(ms, m) \in Nat
              /\ Times(toSwitch'[t], m) =
                   Times(toSwitch[t], m) + (IF t = s THEN Times(ms, m) ELSE 0)
         /\ \A t \in Switches :
              ToSet(toSwitch'[t]) =
                IF t = s THEN ToSet(toSwitch[t]) \cup ToSet(ms) ELSE ToSet(toSwitch[t])
<1> DEFINE q == toSwitch[s]
           r == q \o ms
<1>1. toSwitch \in [Switches -> Seq(Sent)] /\ toSwitch' = [toSwitch EXCEPT ![s] = r]
  BY DEF Channels, SendToSwitch
<1>2. q \in Seq(Sent) /\ r \in Seq(Sent)
  BY <1>1
<1>3. ToSet(r) = ToSet(q) \cup ToSet(ms)
  <2> HIDE DEF q
  <2> QED BY <1>2, ConcatSet
<1>4. \A m : Times(q, m) \in Nat /\ Times(ms, m) \in Nat /\ Times(r, m) = Times(q, m) + Times(ms, m)
  <2> HIDE DEF q
  <2> QED BY <1>2, TimesConcat
<1> HIDE DEF r
<1>5. /\ toSwitch' \in [Switches -> Seq(Sent)] /\ q = toSwitch[s] /\ toSwitch'[s] = r
      /\ \A t \in Switches \ {s} : toSwitch'[t] = toSwitch[t]
  BY <1>1, <1>2
<1> HIDE DEF q
<1>6. \A t \in Switches :
        ToSet(toSwitch'[t]) =
          IF t = s THEN ToSet(toSwitch[t]) \cup ToSet(ms) ELSE ToSet(toSwitch[t])
  BY <1>3, <1>5
<1>7. \A t \in Switches : \A m : Times(toSwitch[t], m) \in Nat
  BY <1>1, TimesConcat
<1>8. ASSUME NEW t \in Switches, NEW m
      PROVE  /\ Times(toSwitch[t], m) \in Nat /\ Times(ms, m) \in Nat
             /\ Times(toSwitch'[t], m) =
                  Times(toSwitch[t], m) + (IF t = s THEN Times(ms, m) ELSE 0)
  <2>1. CASE t = s
    <3>1. toSwitch'[t] = r /\ toSwitch[t] = q
      BY <1>5, <2>1
    <3> QED BY <1>4, <2>1, <3>1
  <2>2. CASE t # s
    <3>1. toSwitch'[t] = toSwitch[t]
      BY <1>5, <2>2
    <3> QED BY <1>4, <1>7, <2>2, <3>1
  <2> QED BY <2>1, <2>2
<1> QED BY <1>5, <1>6, <1>8, SentAreRequests

\* A message sent to the controller by one switch.
LEMMA ControllerGets ==
  ASSUME Channels, NEW s \in Switches, NEW r \in Report, SendToController(s, r)
  PROVE  /\ toCtrl' \in [Switches -> Seq(Report)]
         /\ \A t \in Switches : \A m :
              /\ Times(toCtrl[t], m) \in Nat
              /\ Times(toCtrl'[t], m) =
                   Times(toCtrl[t], m) + (IF t = s /\ m = r THEN 1 ELSE 0)
         /\ \A t \in Switches :
              ToSet(toCtrl'[t]) = IF t = s THEN ToSet(toCtrl[t]) \cup {r} ELSE ToSet(toCtrl[t])
<1> DEFINE q == toCtrl[s]
           k == Append(q, r)
<1>1. toCtrl \in [Switches -> Seq(Report)] /\ toCtrl' = [toCtrl EXCEPT ![s] = k]
  BY DEF Channels, SendToController
<1>2. q \in Seq(Report) /\ k \in Seq(Report)
  BY <1>1
<1>3. ToSet(k) = ToSet(q) \cup {r}
  <2>1. /\ DOMAIN q = 1 .. Len(q) /\ DOMAIN k = 1 .. Len(q) + 1 /\ Len(q) \in Nat
        /\ k[Len(q) + 1] = r /\ \A i \in 1 .. Len(q) : k[i] = q[i]
    BY <1>2
  <2> HIDE DEF k, q
  <2>2. \A i \in 1 .. Len(q) + 1 : i \in 1 .. Len(q) \/ i = Len(q) + 1
    BY <2>1
  <2>3. Len(q) + 1 \in 1 .. Len(q) + 1 /\ \A i \in 1 .. Len(q) : i \in 1 .. Len(q) + 1
    BY <2>1
  <2> QED BY <2>1, <2>2, <2>3 DEF ToSet
<1>4. \A m : Times(q, m) \in Nat /\ Times(k, m) = Times(q, m) + (IF r = m THEN 1 ELSE 0)
  <2> HIDE DEF q
  <2> QED BY <1>2, TimesAppend
<1> HIDE DEF k
<1>5. /\ toCtrl' \in [Switches -> Seq(Report)] /\ q = toCtrl[s] /\ toCtrl'[s] = k
      /\ \A t \in Switches \ {s} : toCtrl'[t] = toCtrl[t]
  BY <1>1, <1>2
<1> HIDE DEF q
<1>6. \A t \in Switches :
        ToSet(toCtrl'[t]) = IF t = s THEN ToSet(toCtrl[t]) \cup {r} ELSE ToSet(toCtrl[t])
  BY <1>3, <1>5
<1>7. \A t \in Switches : \A m : Times(toCtrl[t], m) \in Nat
  BY <1>1, TimesConcat
<1>8. ASSUME NEW t \in Switches, NEW m
      PROVE  /\ Times(toCtrl[t], m) \in Nat
             /\ Times(toCtrl'[t], m) = Times(toCtrl[t], m) + (IF t = s /\ m = r THEN 1 ELSE 0)
  <2>1. CASE t = s
    <3>1. toCtrl'[t] = k /\ toCtrl[t] = q
      BY <1>5, <2>1
    <3> QED BY <1>4, <2>1, <3>1
  <2>2. CASE t # s
    <3>1. toCtrl'[t] = toCtrl[t]
      BY <1>5, <2>2
    <3> QED BY <1>7, <2>2, <3>1
  <2> QED BY <2>1, <2>2
<1> QED BY <1>5, <1>6, <1>8

\* A message that a switch takes from its channel.
LEMMA SwitchTakes ==
  ASSUME Channels, NEW s \in Switches, toSwitch[s] # << >>, ReceiveFromController(s)
  PROVE  /\ toSwitch' \in [Switches -> Seq(Sent)] /\ toSwitch' \in [Switches -> Seq(Request)]
         /\ Head(toSwitch[s]) \in Sent /\ Head(toSwitch[s]) \in ToSet(toSwitch[s])
         /\ \A t \in Switches : \A m :
              /\ Times(toSwitch[t], m) \in Nat /\ Times(toSwitch'[t], m) \in Nat
              /\ Times(toSwitch[t], m) =
                   Times(toSwitch'[t], m) + (IF t = s /\ m = Head(toSwitch[s]) THEN 1 ELSE 0)
         /\ \A t \in Switches : ToSet(toSwitch'[t]) \subseteq ToSet(toSwitch[t])
<1> DEFINE q == toSwitch[s]
           h == Head(q)
           k == Tail(q)
<1>1. toSwitch \in [Switches -> Seq(Sent)] /\ toSwitch' = [toSwitch EXCEPT ![s] = k]
  BY DEF Channels, ReceiveFromController
<1>2. q \in Seq(Sent) /\ q # << >>
  BY <1>1
<1>3. h \in Sent /\ h \in ToSet(q) /\ k \in Seq(Sent) /\ ToSet(k) \subseteq ToSet(q)
  <2> HIDE DEF q
  <2> QED BY <1>2, TakeFacts
<1>4. \A m : Times(q, m) = Times(k, m) + (IF m = h THEN 1 ELSE 0)
  <2> HIDE DEF q
  <2> QED BY <1>2, TakeFacts
<1> HIDE DEF k
<1>5. /\ toSwitch' \in [Switches -> Seq(Sent)] /\ q = toSwitch[s] /\ toSwitch'[s] = k
      /\ \A t \in Switches \ {s} : toSwitch'[t] = toSwitch[t]
  BY <1>1, <1>3
<1>6. h = Head(toSwitch[s])
  OBVIOUS
<1> HIDE DEF q, h
<1>7. \A t \in Switches : ToSet(toSwitch'[t]) \subseteq ToSet(toSwitch[t])
  BY <1>3, <1>5
<1>8. \A m : Times(k, m) \in Nat /\ Times(q, m) \in Nat
  BY <1>2, <1>3, TimesConcat
<1>9. \A t \in Switches : \A m : Times(toSwitch[t], m) \in Nat
  BY <1>1, TimesConcat
<1>10. ASSUME NEW t \in Switches, NEW m
       PROVE  /\ Times(toSwitch[t], m) \in Nat /\ Times(toSwitch'[t], m) \in Nat
              /\ Times(toSwitch[t], m) =
                   Times(toSwitch'[t], m) + (IF t = s /\ m = Head(toSwitch[s]) THEN 1 ELSE 0)
  <2>1. CASE t = s
    <3>1. toSwitch'[t] = k /\ toSwitch[t] = q
      BY <1>5, <2>1
    <3>2. Times(q, m) = Times(k, m) + (IF m = h THEN 1 ELSE 0)
      BY <1>4
    <3> QED BY <1>6, <1>8, <2>1, <3>1, <3>2
  <2>2. CASE t # s
    <3>1. toSwitch'[t] = toSwitch[t]
      BY <1>5, <2>2
    <3> QED BY <1>9, <2>2, <3>1
  <2> QED BY <2>1, <2>2
<1> QED BY <1>3, <1>5, <1>6, <1>7, <1>10, SentAreRequests

\* A message that the controller takes from a channel.
LEMMA ControllerTakes ==
  ASSUME Channels, NEW s \in Switches, toCtrl[s] # << >>, ReceiveFromSwitch(s)
  PROVE  /\ toCtrl' \in [Switches -> Seq(Report)]
         /\ Head(toCtrl[s]) \in Report /\ Head(toCtrl[s]) \in ToSet(toCtrl[s])
         /\ \A t \in Switches : \A m :
              /\ Times(toCtrl[t], m) \in Nat /\ Times(toCtrl'[t], m) \in Nat
              /\ Times(toCtrl[t], m) =
                   Times(toCtrl'[t], m) + (IF t = s /\ m = Head(toCtrl[s]) THEN 1 ELSE 0)
         /\ \A t \in Switches : ToSet(toCtrl'[t]) \subseteq ToSet(toCtrl[t])
<1> DEFINE q == toCtrl[s]
           h == Head(q)
           k == Tail(q)
<1>1. toCtrl \in [Switches -> Seq(Report)] /\ toCtrl' = [toCtrl EXCEPT ![s] = k]
  BY DEF Channels, ReceiveFromSwitch
<1>2. q \in Seq(Report) /\ q # << >>
  BY <1>1
<1>3. h \in Report /\ h \in ToSet(q) /\ k \in Seq(Report) /\ ToSet(k) \subseteq ToSet(q)
  <2> HIDE DEF q
  <2> QED BY <1>2, TakeFacts
<1>4. \A m : Times(q, m) = Times(k, m) + (IF m = h THEN 1 ELSE 0)
  <2> HIDE DEF q
  <2> QED BY <1>2, TakeFacts
<1> HIDE DEF k
<1>5. /\ toCtrl' \in [Switches -> Seq(Report)] /\ q = toCtrl[s] /\ toCtrl'[s] = k
      /\ \A t \in Switches \ {s} : toCtrl'[t] = toCtrl[t]
  BY <1>1, <1>3
<1>6. h = Head(toCtrl[s])
  OBVIOUS
<1> HIDE DEF q, h
<1>7. \A t \in Switches : ToSet(toCtrl'[t]) \subseteq ToSet(toCtrl[t])
  BY <1>3, <1>5
<1>8. \A m : Times(k, m) \in Nat /\ Times(q, m) \in Nat
  BY <1>2, <1>3, TimesConcat
<1>9. \A t \in Switches : \A m : Times(toCtrl[t], m) \in Nat
  BY <1>1, TimesConcat
<1>10. ASSUME NEW t \in Switches, NEW m
       PROVE  /\ Times(toCtrl[t], m) \in Nat /\ Times(toCtrl'[t], m) \in Nat
              /\ Times(toCtrl[t], m) =
                   Times(toCtrl'[t], m) + (IF t = s /\ m = Head(toCtrl[s]) THEN 1 ELSE 0)
  <2>1. CASE t = s
    <3>1. toCtrl'[t] = k /\ toCtrl[t] = q
      BY <1>5, <2>1
    <3>2. Times(q, m) = Times(k, m) + (IF m = h THEN 1 ELSE 0)
      BY <1>4
    <3> QED BY <1>6, <1>8, <2>1, <3>1, <3>2
  <2>2. CASE t # s
    <3>1. toCtrl'[t] = toCtrl[t]
      BY <1>5, <2>2
    <3> QED BY <1>9, <2>2, <3>1
  <2> QED BY <2>1, <2>2
<1> QED BY <1>3, <1>5, <1>6, <1>7, <1>10

\* Numbers of the invariant.
LEMMA Numbers ==
  ASSUME IInv
  PROVE  /\ \A t \in Switches : \A m : Times(toSwitch[t], m) \in Nat /\ Times(toCtrl[t], m) \in Nat
         /\ \A t \in Switches, m \in Macs : flows[t][m] \in 0 .. 1
         /\ IsFiniteSet(Greeted) /\ Cardinality(Greeted) \in Nat
         /\ Cardinality(Switches) \in Nat
         /\ xid \in Nat /\ inputs \in Nat /\ MaxInputs \in Nat /\ inputs <= MaxInputs
<1>1. \A t \in Switches : toSwitch[t] \in Seq(Sent) /\ toCtrl[t] \in Seq(Report)
  BY DEF IInv, Channels
<1>2. \A t \in Switches : \A m : Times(toSwitch[t], m) \in Nat /\ Times(toCtrl[t], m) \in Nat
  BY <1>1, TimesConcat
<1>3. IsFiniteSet(Switches) /\ MaxInputs \in Nat
  BY ChannelAssumption
<1>4. Greeted \subseteq Switches
  BY DEF Greeted, IInv, TypeOK
<1>5. IsFiniteSet(Greeted) /\ Cardinality(Greeted) \in Nat /\ Cardinality(Switches) \in Nat
  BY <1>3, <1>4, FS_Subset, FS_CardinalityType
<1>6. \A t \in Switches, m \in Macs : flows[t][m] \in 0 .. 1
  BY DEF IInv, TypeOK
<1>7. xid \in Nat /\ inputs \in Nat /\ inputs <= MaxInputs
  BY <1>3, <1>5 DEF IInv, TypeOK, Xid
<1> QED BY <1>2, <1>3, <1>5, <1>6, <1>7

\* The hello is not touched.
LEMMA GreetingsKept ==
  ASSUME IInv, connected' = connected,
         \A t \in Switches : Times(toCtrl'[t], Hello) = Times(toCtrl[t], Hello),
         xid' \in Nat, inputs' \in Nat, xid' + inputs <= xid + inputs'
  PROVE  Greetings'
<1>1. connected \subseteq Switches
  BY DEF IInv, TypeOK
<1>2. Greeted' = Greeted
  BY <1>1 DEF Greeted
<1>3. xid <= Cardinality(Greeted) + inputs
  BY DEF IInv, Greetings
<1>4. xid' <= Cardinality(Greeted) + inputs'
  BY <1>3, Numbers
<1>5. \A t \in Switches : Times(toCtrl'[t], Hello) <= IF t \in connected' THEN 1 ELSE 0
  BY DEF IInv, Greetings
<1> QED BY <1>2, <1>4, <1>5 DEF Greetings

\* Steps that leave alone what is counted at the switches, and at the controller.
SameRequests ==
  \A t \in Switches :
    /\ \A x \in Xid :
         /\ Times(toSwitch'[t], BarrierRequest(x)) = Times(toSwitch[t], BarrierRequest(x))
         /\ Times(toSwitch'[t], EchoRequest(x)) = Times(toSwitch[t], EchoRequest(x))
    /\ \A m \in Macs : Times(toSwitch'[t], Command(m)) = Times(toSwitch[t], Command(m))

SameReports ==
  \A t \in Switches :
    /\ \A x \in Xid :
         /\ Times(toCtrl'[t], BarrierReply(x)) = Times(toCtrl[t], BarrierReply(x))
         /\ Times(toCtrl'[t], EchoReply(x)) = Times(toCtrl[t], EchoReply(x))
    /\ \A m \in Macs : Times(toCtrl'[t], FlowRemoved(m)) = Times(toCtrl[t], FlowRemoved(m))

\* Such steps keep the counts, if the maps and flows stay as they are.
LEMMA CountsKept ==
  ASSUME IInv, SameRequests, SameReports
  PROVE  /\ UNCHANGED <<barriers, echoes>>
              => \A t \in Switches : \A x \in Xid : BarrierOf(t, x)' /\ EchoOf(t, x)'
         /\ UNCHANGED <<learned, flows>>
              => \A t \in Switches : \A m \in Macs : FlowOf(t, m)'
<1>1. ASSUME UNCHANGED <<barriers, echoes>>, NEW t \in Switches, NEW x \in Xid
      PROVE  BarrierOf(t, x)' /\ EchoOf(t, x)'
  <2>1. BarrierOf(t, x) /\ EchoOf(t, x)
    BY DEF IInv
  <2>2. barriers' = barriers /\ echoes' = echoes
    BY <1>1
  <2> QED BY <2>1, <2>2 DEF SameRequests, SameReports, BarrierOf, EchoOf
<1>2. ASSUME UNCHANGED <<learned, flows>>, NEW t \in Switches, NEW m \in Macs
      PROVE  FlowOf(t, m)'
  <2>1. FlowOf(t, m)
    BY DEF IInv
  <2>2. learned' = learned /\ flows' = flows
    BY <1>2
  <2> QED BY <2>1, <2>2 DEF SameRequests, SameReports, FlowOf
<1> QED BY <1>1, <1>2

\* Messages sent that are not counted.
LEMMA QuietSent ==
  ASSUME Channels, NEW s \in Switches, NEW ms \in Seq(Sent), SendToSwitch(s, ms),
         \A r \in ToSet(ms) : /\ r.type \notin {"barrier_request", "echo_request"}
                              /\ r.type = "command" => r.cmd \notin Macs
  PROVE  SameRequests
<1>1. \A t \in Switches : \A m :
        /\ Times(toSwitch[t], m) \in Nat
        /\ Times(toSwitch'[t], m) = Times(toSwitch[t], m) + (IF t = s THEN Times(ms, m) ELSE 0)
  BY SwitchGets
<1>2. Hello \in Sent
  BY Messages
<1>3. \A m : m \notin ToSet(ms) => Times(ms, m) = 0
  BY <1>2, TimesAppend
<1>4. \A m : m \notin ToSet(ms) => \A t \in Switches : Times(toSwitch'[t], m) = Times(toSwitch[t], m)
  BY <1>1, <1>3
<1>5. \A x : BarrierRequest(x) \notin ToSet(ms) /\ EchoRequest(x) \notin ToSet(ms)
  BY Kinds
<1>6. \A m \in Macs : Command(m) \notin ToSet(ms)
  BY Kinds
<1> QED BY <1>4, <1>5, <1>6 DEF SameRequests

\* A message that is not counted, taken by a switch.
LEMMA QuietTaken ==
  ASSUME Channels, NEW s \in Switches, toSwitch[s] # << >>, ReceiveFromController(s),
         Head(toSwitch[s]).type \in {"hello", "features_request", "packet_out"}
  PROVE  SameRequests
<1>1. \A t \in Switches : \A m :
        /\ Times(toSwitch[t], m) \in Nat /\ Times(toSwitch'[t], m) \in Nat
        /\ Times(toSwitch[t], m) =
             Times(toSwitch'[t], m) + (IF t = s /\ m = Head(toSwitch[s]) THEN 1 ELSE 0)
  BY SwitchTakes
<1>2. ASSUME NEW m, m # Head(toSwitch[s]), NEW t \in Switches
      PROVE  Times(toSwitch'[t], m) = Times(toSwitch[t], m)
  <2>1. Times(toSwitch[t], m) = Times(toSwitch'[t], m) + 0 /\ Times(toSwitch'[t], m) \in Nat
    BY <1>1, <1>2
  <2> QED BY <2>1
<1>3. \A x : BarrierRequest(x) # Head(toSwitch[s]) /\ EchoRequest(x) # Head(toSwitch[s])
             /\ Command(x) # Head(toSwitch[s])
  BY Kinds
<1> QED BY <1>2, <1>3 DEF SameRequests

\* A message that is not counted, sent to the controller.
LEMMA QuietReported ==
  ASSUME Channels, NEW s \in Switches, NEW r \in Report, SendToController(s, r),
         r.type \in {"hello", "features_reply", "packet_in"}
  PROVE  SameReports
<1>1. \A t \in Switches : \A m :
        /\ Times(toCtrl[t], m) \in Nat
        /\ Times(toCtrl'[t], m) = Times(toCtrl[t], m) + (IF t = s /\ m = r THEN 1 ELSE 0)
  BY ControllerGets
<1>2. \A m : m # r => \A t \in Switches : Times(toCtrl'[t], m) = Times(toCtrl[t], m)
  BY <1>1
<1>3. \A x : BarrierReply(x) # r /\ EchoReply(x) # r /\ FlowRemoved(x) # r
  BY Kinds
<1> QED BY <1>2, <1>3 DEF SameReports

\* A message that is not counted, read by the controller.
LEMMA QuietRead ==
  ASSUME Channels, NEW s \in Switches, toCtrl[s] # << >>, ReceiveFromSwitch(s),
         Head(toCtrl[s]).type \in {"hello", "features_reply", "packet_in"}
  PROVE  SameReports
<1>1. \A t \in Switches : \A m :
        /\ Times(toCtrl[t], m) \in Nat /\ Times(toCtrl'[t], m) \in Nat
        /\ Times(toCtrl[t], m) =
             Times(toCtrl'[t], m) + (IF t = s /\ m = Head(toCtrl[s]) THEN 1 ELSE 0)
  BY ControllerTakes
<1>2. ASSUME NEW m, m # Head(toCtrl[s]), NEW t \in Switches
      PROVE  Times(toCtrl'[t], m) = Times(toCtrl[t], m)
  <2>1. Times(toCtrl[t], m) = Times(toCtrl'[t], m) + 0 /\ Times(toCtrl'[t], m) \in Nat
    BY <1>1, <1>2
  <2> QED BY <2>1
<1>3. \A x : BarrierReply(x) # Head(toCtrl[s]) /\ EchoReply(x) # Head(toCtrl[s])
             /\ FlowRemoved(x) # Head(toCtrl[s])
  BY Kinds
<1> QED BY <1>2, <1>3 DEF SameReports

\* A switch stays ready when its channels only lose messages, or get some that
\* do not matter to it.
LEMMA ReadyKept ==
  ASSUME IInv, registered' = registered, pending' = pending,
         NEW s \in Switches, \A t \in Switches \ {s} : executed'[t] = executed[t],
         s \notin registered => executed'[s] = executed[s],
         \A t \in Switches : t # s \/ s \notin registered =>
           /\ \A m \in ToSet(toSwitch'[t]) : m \in ToSet(toSwitch[t]) \/ m.type # "command"
           /\ \A m \in ToSet(toCtrl'[t]) : m \in ToSet(toCtrl[t]) \/ m.type # "packet_in"
  PROVE  \A t \in Switches : ReadyOf(t)'
<1> SUFFICES ASSUME NEW t \in Switches PROVE ReadyOf(t)'
  OBVIOUS
<1>1. ReadyOf(t)
  BY DEF IInv
<1>2. CASE t \in registered
  BY <1>1, <1>2 DEF ReadyOf
<1>3. CASE t \notin registered
  <2>1. executed'[t] = executed[t]
    BY <1>3
  <2>2. /\ \A m \in ToSet(toSwitch'[t]) : m \in ToSet(toSwitch[t]) \/ m.type # "command"
        /\ \A m \in ToSet(toCtrl'[t]) : m \in ToSet(toCtrl[t]) \/ m.type # "packet_in"
    BY <1>3
  <2> QED BY <1>1, <1>3, <2>1, <2>2 DEF ReadyOf
<1> QED BY <1>2, <1>3
------------------------------------------------------------------------------
(* One lemma per action: it keeps the invariant.  First the connections.     *)

LEMMA KeepSucceeded ==
  ASSUME IInv, NEW s \in Switches, SocketCtrlSucceeded(s)
  PROVE  IInv'
<1>1. /\ s \notin connected /\ connected' = connected \cup {s} /\ s \notin refused
      /\ UNCHANGED <<accepted, registered, pending, barriers, echoes, xid, learned>>
      /\ UNCHANGED <<refused, flows, executed, toSwitch, inputs>>
      /\ SendToController(s, Hello)
  BY DEF SocketCtrlSucceeded, controller, Hello
<1>2. Channels /\ Hello \in Report /\ Hello.type = "hello"
  BY Messages, Kinds DEF IInv
<1>3. /\ toCtrl' \in [Switches -> Seq(Report)]
      /\ \A t \in Switches : \A m :
           /\ Times(toCtrl[t], m) \in Nat
           /\ Times(toCtrl'[t], m) = Times(toCtrl[t], m) + (IF t = s /\ m = Hello THEN 1 ELSE 0)
      /\ \A t \in Switches :
           ToSet(toCtrl'[t]) = IF t = s THEN ToSet(toCtrl[t]) \cup {Hello} ELSE ToSet(toCtrl[t])
  BY <1>1, <1>2, ControllerGets
<1>4. TypeOK' /\ Channels'
  <2>1. /\ connected' \subseteq Switches /\ accepted' \subseteq connected'
        /\ connected' \cap refused' = {} /\ toCtrl' \in [Switches -> Seq(Report)]
    BY <1>1, <1>3 DEF IInv, TypeOK
  <2> QED BY <1>1, <2>1 DEF IInv, TypeOK, Channels
<1>5. Greetings'
  <2>1. connected \subseteq Switches
    BY DEF IInv, TypeOK
  <2>2. \A t \in Switches : Times(toCtrl[t], Hello) <= IF t \in connected THEN 1 ELSE 0
    BY DEF IInv, Greetings
  <2>3. Times(toCtrl[s], Hello) = 0 /\ Times(toCtrl'[s], Hello) = 1
    BY <1>1, <1>3, <2>2
  <2>4. \A t \in Switches \ {s} : Times(toCtrl'[t], Hello) = Times(toCtrl[t], Hello)
    BY <1>3
  <2>5. Greeted' = Greeted
    BY <1>1, <2>1, <2>3, <2>4 DEF Greeted
  <2>6. \A t \in Switches : Times(toCtrl'[t], Hello) <= IF t \in connected' THEN 1 ELSE 0
    BY <1>1, <2>2, <2>3, <2>4
  <2>7. xid' <= Cardinality(Greeted') + inputs'
    BY <1>1, <2>5 DEF IInv, Greetings
  <2> QED BY <2>6, <2>7 DEF Greetings
<1>6. SameRequests /\ SameReports
  BY <1>1, <1>2, QuietReported DEF SameRequests
<1>7. \A t \in Switches : ReadyOf(t)'
  BY <1>1, <1>2, <1>3, ReadyKept
<1> QED BY <1>1, <1>4, <1>5, <1>6, <1>7, CountsKept DEF IInv

LEMMA KeepFailed ==
  ASSUME IInv, NEW s \in Switches, SocketCtrlFailed(s)
  PROVE  IInv'
<1>1. /\ s \notin connected /\ refused' = refused \cup {s}
      /\ UNCHANGED <<accepted, registered, pending, barriers, echoes, xid, learned>>
      /\ UNCHANGED <<connected, flows, executed, toSwitch, toCtrl, inputs>>
  BY DEF SocketCtrlFailed, controller
<1>2. TypeOK' /\ Channels'
  BY <1>1 DEF IInv, TypeOK, Channels
<1>3. SameRequests /\ SameReports
  BY <1>1 DEF SameRequests, SameReports
<1>4. Greetings'
  BY <1>1, GreetingsKept, Numbers
<1>5. ASSUME NEW t \in Switches PROVE ReadyOf(t)'
  BY <1>1 DEF IInv, ReadyOf
<1> QED BY <1>1, <1>2, <1>3, <1>4, <1>5, CountsKept DEF IInv

LEMMA KeepAccept ==
  ASSUME IInv, NEW s \in Switches, SocketAccept(s)
  PROVE  IInv'
<1> DEFINE ms == <<Hello>>
<1>1. /\ s \in connected \ accepted /\ accepted' = accepted \cup {s}
      /\ UNCHANGED <<registered, pending, barriers, echoes, xid, learned>>
      /\ UNCHANGED <<connected, refused, flows, executed, toCtrl, inputs>>
      /\ SendToSwitch(s, ms)
  BY DEF SocketAccept, switch, Hello
<1>2. Hello \in Sent /\ Hello.type = "hello"
  BY Messages, Kinds
<1>3. Channels /\ ms \in Seq(Sent) /\ ToSet(ms) = {Hello}
  BY <1>2 DEF IInv, ToSet
<1> HIDE DEF ms
<1>4. /\ toSwitch' \in [Switches -> Seq(Sent)] /\ toSwitch' \in [Switches -> Seq(Request)]
      /\ \A t \in Switches :
           ToSet(toSwitch'[t]) =
             IF t = s THEN ToSet(toSwitch[t]) \cup ToSet(ms) ELSE ToSet(toSwitch[t])
  BY <1>1, <1>3, SwitchGets
<1>5. TypeOK' /\ Channels'
  BY <1>1, <1>4 DEF IInv, TypeOK, Channels
<1>6. SameRequests
  BY <1>1, <1>2, <1>3, QuietSent
<1>7. SameReports
  BY <1>1 DEF SameReports
<1>8. Greetings'
  BY <1>1, GreetingsKept, Numbers
<1>9. \A t \in Switches : ReadyOf(t)'
  <2>1. \A t \in Switches :
          /\ \A m \in ToSet(toSwitch'[t]) : m \in ToSet(toSwitch[t]) \/ m.type # "command"
          /\ \A m \in ToSet(toCtrl'[t]) : m \in ToSet(toCtrl[t]) \/ m.type # "packet_in"
    BY <1>1, <1>2, <1>3, <1>4
  <2> QED BY <1>1, <2>1, ReadyKept
<1> QED BY <1>1, <1>5, <1>6, <1>7, <1>8, <1>9, CountsKept DEF IInv

------------------------------------------------------------------------------
(* The controller *)

\* Messages made of commands that are not refused.
LEMMA CommandMessages ==
  ASSUME NEW A \in SUBSET (Commands \ Unsupported), NEW cs \in Seq(A)
  PROVE  /\ AsMessages(cs) \in Seq(Sent)
         /\ \A r \in ToSet(AsMessages(cs)) : r.type = "command" /\ r.cmd \in A
<1>1. AsMessages(cs) \in Seq({Command(c) : c \in A})
  <2>1. A \in SUBSET Commands
    OBVIOUS
  <2> QED BY <2>1, MessagesOf
<1>2. \A r \in {Command(c) : c \in A} : r \in Sent /\ r.type = "command" /\ r.cmd \in A
  BY Kinds, Messages
<1> DEFINE ms == AsMessages(cs)
<1>3. ms \in Seq({Command(c) : c \in A})
  BY <1>1
<1> HIDE DEF ms
<1>4. ms \in Seq(Sent)
  BY <1>2, <1>3
<1>5. \A r \in ToSet(ms) : r \in {Command(c) : c \in A}
  BY <1>3 DEF ToSet
<1> QED BY <1>2, <1>4, <1>5 DEF ms

\* What Supported returns.
LEMMA SupportedType ==
  ASSUME NEW cs \in Seq(UserCommands)
  PROVE  Supported(cs) \in Seq(UserCommands \ Unsupported) /\ Supported(<< >>) = << >>
<1> DEFINE S == Commands \ Unsupported
<1>1. UserCommands \cap S = UserCommands \ Unsupported
  BY DEF Commands
<1>2. Only(cs, S) \in Seq(UserCommands \cap S) /\ Only(<< >>, S) = << >>
  BY OnlyType, OnlyEmpty
<1> QED BY <1>1, <1>2 DEF Supported

LEMMA KeepDpctl ==
  ASSUME IInv, NEW s \in Switches, NEW c \in UserCommands, DpctlExecute(s, c)
  PROVE  IInv'
<1>1. /\ inputs < MaxInputs /\ inputs' = inputs + 1
      /\ UNCHANGED <<accepted, registered, barriers, echoes, xid, learned>>
      /\ UNCHANGED <<connected, refused, flows, executed, toCtrl>>
  BY DEF DpctlExecute, Input, switch
<1>2. /\ inputs' \in 0 .. MaxInputs /\ xid' \in Nat /\ inputs' \in Nat
      /\ xid' + inputs <= xid + inputs'
  BY <1>1, Numbers
<1>3. Greetings'
  BY <1>1, <1>2, GreetingsKept
<1>4. SameReports
  BY <1>1 DEF SameReports
<1>5. CASE s \in registered /\ SendToSwitch(s, AsMessages(Supported(<<c>>))) /\ pending' = pending
  <2> DEFINE cs == Supported(<<c>>)
             A == UserCommands \ Unsupported
  <2>1. cs \in Seq(A)
    <3> DEFINE k == <<c>>
    <3>1. k \in Seq(UserCommands)
      OBVIOUS
    <3> HIDE DEF k
    <3>2. Supported(k) \in Seq(UserCommands \ Unsupported)
      BY <3>1, SupportedType
    <3> QED BY <3>2 DEF k
  <2>2. A \in SUBSET (Commands \ Unsupported)
    BY DEF Commands
  <2>3. \A d \in A : d \notin Macs
    BY ChannelAssumption
  <2> HIDE DEF cs, A
  <2>4. AsMessages(cs) \in Seq(Sent) /\ \A r \in ToSet(AsMessages(cs)) : r.type = "command" /\ r.cmd \in A
    BY <2>1, <2>2, CommandMessages
  <2> DEFINE ms == AsMessages(cs)
  <2>5. SendToSwitch(s, ms) /\ ms \in Seq(Sent) /\ Channels
    BY <1>5, <2>4 DEF cs, IInv
  <2>6. \A r \in ToSet(ms) : /\ r.type \notin {"barrier_request", "echo_request"}
                             /\ r.type = "command" => r.cmd \notin Macs
    BY <2>3, <2>4
  <2> HIDE DEF ms
  <2>7. SameRequests
    BY <2>5, <2>6, QuietSent
  <2>8. /\ toSwitch' \in [Switches -> Seq(Sent)] /\ toSwitch' \in [Switches -> Seq(Request)]
        /\ \A t \in Switches :
             ToSet(toSwitch'[t]) =
               IF t = s THEN ToSet(toSwitch[t]) \cup ToSet(ms) ELSE ToSet(toSwitch[t])
    BY <2>5, SwitchGets
  <2>9. TypeOK' /\ Channels'
    BY <1>1, <1>2, <1>5, <2>8 DEF IInv, TypeOK, Channels
  <2>10. \A t \in Switches : ReadyOf(t)'
    <3>1. \A t \in Switches : t # s \/ s \notin registered =>
            /\ \A m \in ToSet(toSwitch'[t]) : m \in ToSet(toSwitch[t]) \/ m.type # "command"
            /\ \A m \in ToSet(toCtrl'[t]) : m \in ToSet(toCtrl[t]) \/ m.type # "packet_in"
      BY <1>1, <1>5, <2>8
    <3> QED BY <1>1, <1>5, <3>1, ReadyKept
  <2> QED BY <1>1, <1>3, <1>4, <2>7, <2>9, <2>10, CountsKept DEF IInv
<1>6. CASE /\ s \notin registered /\ toSwitch' = toSwitch
           /\ pending' = [pending EXCEPT ![s] = Append(@, c)]
  <2>1. pending' \in [Switches -> Seq(UserCommands)] /\ \A t \in registered : pending'[t] = pending[t]
    BY <1>6 DEF IInv, TypeOK
  <2>2. TypeOK' /\ Channels'
    BY <1>1, <1>2, <1>6, <2>1 DEF IInv, TypeOK, Channels
  <2>3. ASSUME NEW t \in Switches PROVE ReadyOf(t)'
    BY <1>1, <1>6, <2>1 DEF IInv, ReadyOf
  <2>4. SameRequests
    BY <1>6 DEF SameRequests
  <2> QED BY <1>1, <1>3, <1>4, <2>2, <2>3, <2>4, CountsKept DEF IInv
<1> QED BY <1>5, <1>6 DEF DpctlExecute

\* A new id, for a message that is waited for.
LEMMA NewId ==
  ASSUME IInv
  PROVE  /\ xid + 1 \notin DOMAIN barriers /\ xid + 1 \notin DOMAIN echoes
         /\ \A D \in SUBSET (1 .. xid) : D \subseteq 1 .. xid + 1 /\ D \cup {xid + 1} \subseteq 1 .. xid + 1
         /\ DOMAIN barriers \subseteq 1 .. xid /\ DOMAIN echoes \subseteq 1 .. xid
         /\ inputs < MaxInputs => xid + 1 \in Xid
<1>1. xid \in Nat /\ DOMAIN barriers \subseteq 1 .. xid /\ DOMAIN echoes \subseteq 1 .. xid
  BY Numbers DEF IInv, TypeOK
<1>2. xid + 1 \notin 1 .. xid /\ \A i \in 1 .. xid : i \in 1 .. xid + 1
  BY <1>1
<1>3. ASSUME inputs < MaxInputs PROVE xid + 1 \in Xid
  <2>1. Cardinality(Greeted) <= Cardinality(Switches)
    <3>1. Greeted \subseteq Switches
      BY DEF Greeted, IInv, TypeOK
    <3> QED BY <3>1, ChannelAssumption, FS_Subset
  <2>2. xid <= Cardinality(Greeted) + inputs
    BY DEF IInv, Greetings
  <2>3. xid + 1 <= Cardinality(Switches) + MaxInputs
    BY <1>3, <2>1, <2>2, Numbers
  <2> QED BY <1>1, <2>3, Numbers DEF Xid
<1>4. xid + 1 \in 1 .. xid + 1
  BY <1>1
<1> QED BY <1>1, <1>2, <1>3, <1>4

LEMMA KeepSendEcho ==
  ASSUME IInv, NEW s \in Switches, SendEchoRequest(s)
  PROVE  IInv'
<1> DEFINE x1 == xid + 1
           ms == <<EchoRequest(x1)>>
<1>1. /\ s \in registered /\ inputs < MaxInputs /\ inputs' = inputs + 1
      /\ xid' = x1 /\ echoes' = Insert(echoes, x1, s) /\ SendToSwitch(s, ms)
      /\ UNCHANGED <<accepted, registered, pending, barriers, learned>>
      /\ UNCHANGED <<connected, refused, flows, executed, toCtrl>>
  BY DEF SendEchoRequest, Input, GetNextXid, EchoRequest, switch
<1>2. /\ x1 \in Xid /\ x1 \notin DOMAIN echoes
      /\ DOMAIN barriers \subseteq 1 .. x1 /\ DOMAIN echoes \cup {x1} \subseteq 1 .. x1
  BY <1>1, NewId
<1>3. /\ inputs' \in 0 .. MaxInputs /\ xid' \in Nat /\ inputs' \in Nat
      /\ xid' + inputs <= xid + inputs'
  BY <1>1, Numbers
<1> HIDE DEF x1
<1>4. EchoRequest(x1) \in Sent /\ EchoRequest(x1).type = "echo_request"
  BY <1>2, Messages, Kinds
<1>5. /\ ms \in Seq(Sent) /\ ToSet(ms) = {EchoRequest(x1)} /\ Channels
      /\ \A m : Times(ms, m) = IF EchoRequest(x1) = m THEN 1 ELSE 0
  <2>1. ms \in Seq(Sent) /\ ToSet(ms) = {EchoRequest(x1)}
    BY <1>4 DEF ToSet
  <2>2. \A m : Times(ms, m) = IF EchoRequest(x1) = m THEN 1 ELSE 0
    BY TimesOne
  <2> QED BY <2>1, <2>2 DEF IInv
<1> HIDE DEF ms
<1>6. /\ toSwitch' \in [Switches -> Seq(Sent)] /\ toSwitch' \in [Switches -> Seq(Request)]
      /\ \A t \in Switches : \A m :
           /\ Times(toSwitch[t], m) \in Nat /\ Times(ms, m) \in Nat
           /\ Times(toSwitch'[t], m) =
                Times(toSwitch[t], m) + (IF t = s THEN Times(ms, m) ELSE 0)
      /\ \A t \in Switches :
           ToSet(toSwitch'[t]) =
             IF t = s THEN ToSet(toSwitch[t]) \cup ToSet(ms) ELSE ToSet(toSwitch[t])
  BY <1>1, <1>5, SwitchGets
<1>7. /\ DOMAIN echoes' = DOMAIN echoes \cup {x1} /\ Range(echoes') \subseteq Range(echoes) \cup {s}
      /\ echoes'[x1] = s /\ \A k \in DOMAIN echoes : echoes'[k] = echoes[k]
  <2>1. /\ DOMAIN Insert(echoes, x1, s) = DOMAIN echoes \cup {x1}
        /\ Range(Insert(echoes, x1, s)) \subseteq Range(echoes) \cup {s}
    BY MapFacts
  <2>2. \A k \in DOMAIN echoes : Insert(echoes, x1, s)[k] = echoes[k]
    BY DEF Insert
  <2>3. x1 \notin DOMAIN echoes => Insert(echoes, x1, s)[x1] = s
    BY DEF Insert
  <2> QED BY <1>1, <1>2, <2>1, <2>2, <2>3
<1>8. TypeOK' /\ Channels'
  <2>1. xid' \in Xid /\ DOMAIN barriers' \subseteq 1 .. xid' /\ DOMAIN echoes' \subseteq 1 .. xid'
    BY <1>1, <1>2, <1>7
  <2>2. Range(echoes') \subseteq accepted' /\ Range(barriers') \subseteq accepted'
    BY <1>1, <1>7 DEF IInv, TypeOK
  <2> QED BY <1>1, <1>3, <1>6, <2>1, <2>2 DEF IInv, TypeOK, Channels
<1>9. Greetings'
  BY <1>1, <1>3, GreetingsKept
<1>10. ASSUME NEW t \in Switches, NEW x \in Xid PROVE BarrierOf(t, x)' /\ EchoOf(t, x)'
  <2>1. BarrierOf(t, x) /\ EchoOf(t, x) /\ Times(toCtrl[t], EchoReply(x)) \in Nat
    BY Numbers DEF IInv
  <2>2. Times(ms, BarrierRequest(x)) = 0 /\ Times(ms, EchoRequest(x)) = IF x = x1 THEN 1 ELSE 0
    BY <1>5, Kinds
  <2>3. /\ Times(toSwitch'[t], BarrierRequest(x)) = Times(toSwitch[t], BarrierRequest(x)) + 0
        /\ Times(toSwitch[t], BarrierRequest(x)) \in Nat
    BY <1>6, <2>2
  <2>4. /\ Times(toSwitch'[t], EchoRequest(x)) =
             Times(toSwitch[t], EchoRequest(x)) + (IF t = s /\ x = x1 THEN 1 ELSE 0)
        /\ Times(toSwitch[t], EchoRequest(x)) \in Nat
    BY <1>6, <2>2
  <2>5. BarrierOf(t, x)'
    BY <1>1, <2>1, <2>3 DEF BarrierOf
  <2>6. EchoOf(t, x)'
    <3>1. CASE x = x1
      BY <1>1, <1>2, <1>7, <2>1, <2>4, <3>1 DEF EchoOf
    <3>2. CASE x # x1
      BY <1>1, <1>2, <1>7, <2>1, <2>4, <3>2 DEF EchoOf
    <3> QED BY <3>1, <3>2
  <2> QED BY <2>5, <2>6
<1>11. ASSUME NEW t \in Switches, NEW m \in Macs PROVE FlowOf(t, m)'
  <2>1. FlowOf(t, m)
    BY DEF IInv
  <2>2. Times(ms, Command(m)) = 0
    BY <1>5, Kinds
  <2>3. /\ Times(toSwitch'[t], Command(m)) = Times(toSwitch[t], Command(m)) + 0
        /\ Times(toSwitch[t], Command(m)) \in Nat
    BY <1>6, <2>2
  <2> QED BY <1>1, <2>1, <2>3 DEF FlowOf
<1>12. \A t \in Switches : ReadyOf(t)'
  <2>1. \A t \in Switches : t # s \/ s \notin registered =>
          /\ \A m \in ToSet(toSwitch'[t]) : m \in ToSet(toSwitch[t]) \/ m.type # "command"
          /\ \A m \in ToSet(toCtrl'[t]) : m \in ToSet(toCtrl[t]) \/ m.type # "packet_in"
    BY <1>1, <1>4, <1>5, <1>6
  <2> QED BY <1>1, <2>1, ReadyKept
<1> QED BY <1>8, <1>9, <1>10, <1>11, <1>12 DEF IInv

LEMMA KeepHello ==
  ASSUME IInv, NEW s \in Switches, HandleHello(s)
  PROVE  IInv'
<1> DEFINE x1 == xid + 1
           fr == [type |-> "features_request"]
           ms == <<fr, BarrierRequest(x1)>>
<1>1. /\ s \in accepted /\ toCtrl[s] # << >> /\ Head(toCtrl[s]).type = "hello"
      /\ ReceiveFromSwitch(s)
      /\ xid' = x1 /\ barriers' = Insert(barriers, x1, s) /\ SendToSwitch(s, ms)
      /\ UNCHANGED <<accepted, registered, pending, echoes, learned>>
      /\ UNCHANGED <<connected, refused, flows, executed, inputs>>
  BY DEF HandleHello, AtController, GetNextXid, BarrierRequest, switch
<1>2. Channels
  BY DEF IInv
<1>3. /\ toCtrl' \in [Switches -> Seq(Report)]
      /\ Head(toCtrl[s]) \in Report /\ Head(toCtrl[s]) \in ToSet(toCtrl[s])
      /\ \A t \in Switches : \A m :
           /\ Times(toCtrl[t], m) \in Nat /\ Times(toCtrl'[t], m) \in Nat
           /\ Times(toCtrl[t], m) =
                Times(toCtrl'[t], m) + (IF t = s /\ m = Head(toCtrl[s]) THEN 1 ELSE 0)
      /\ \A t \in Switches : ToSet(toCtrl'[t]) \subseteq ToSet(toCtrl[t])
  BY <1>1, <1>2, ControllerTakes
<1>4. Head(toCtrl[s]) = Hello
  BY <1>1, <1>3, MessageIs
<1>5. SameReports
  BY <1>1, <1>2, QuietRead
<1>6. /\ \A t \in Switches : Times(toCtrl[t], Hello) <= IF t \in connected THEN 1 ELSE 0
      /\ s \in connected /\ connected \subseteq Switches
  BY <1>1 DEF IInv, Greetings, TypeOK
<1>7. Times(toCtrl[s], Hello) = 1 /\ Times(toCtrl'[s], Hello) = 0
  BY <1>3, <1>4, <1>6
<1>8. ASSUME NEW t \in Switches, t # s PROVE Times(toCtrl'[t], Hello) = Times(toCtrl[t], Hello)
  <2>1. Times(toCtrl[t], Hello) = Times(toCtrl'[t], Hello) + 0
    BY <1>3, <1>8
  <2> QED BY <1>3, <2>1
<1>9. Greeted' = Greeted \cup {s} /\ s \notin Greeted /\ Greeted' \subseteq Switches
  BY <1>1, <1>6, <1>7, <1>8 DEF Greeted
<1>10. Cardinality(Greeted') = Cardinality(Greeted) + 1
  <2> DEFINE G == Greeted
  <2>1. IsFiniteSet(G) /\ s \notin G
    BY <1>9, Numbers
  <2> HIDE DEF G
  <2>2. Cardinality(G \cup {s}) = Cardinality(G) + 1
    BY <2>1, FS_AddElement
  <2> QED BY <1>9, <2>2 DEF G
<1>11. Cardinality(Greeted') <= Cardinality(Switches)
  <2> DEFINE G == Greeted'
  <2>1. G \subseteq Switches
    BY <1>9
  <2> HIDE DEF G
  <2>2. Cardinality(G) <= Cardinality(Switches)
    BY <2>1, ChannelAssumption, FS_Subset
  <2> QED BY <2>2 DEF G
<1>12. xid <= Cardinality(Greeted) + inputs
  BY DEF IInv, Greetings
<1>13. xid' <= Cardinality(Greeted') + inputs'
  BY <1>1, <1>10, <1>12, Numbers
<1>14. Greetings'
  <2>1. \A t \in Switches : Times(toCtrl'[t], Hello) <= IF t \in connected' THEN 1 ELSE 0
    BY <1>1, <1>6, <1>7, <1>8
  <2> QED BY <1>13, <2>1 DEF Greetings
<1>15. /\ x1 \in Xid /\ x1 \notin DOMAIN barriers
       /\ DOMAIN echoes \subseteq 1 .. x1 /\ DOMAIN barriers \cup {x1} \subseteq 1 .. x1
  <2>1. x1 \in Nat /\ x1 <= Cardinality(Switches) + MaxInputs
    BY <1>10, <1>11, <1>12, Numbers
  <2>2. x1 \in Xid
    BY <2>1, Numbers DEF Xid
  <2> QED BY <2>2, NewId
<1> HIDE DEF x1
<1>16. /\ fr \in Sent /\ fr.type = "features_request"
       /\ BarrierRequest(x1) \in Sent /\ BarrierRequest(x1).type = "barrier_request"
  BY <1>15, Messages, Kinds
<1> HIDE DEF fr
<1>17. /\ ms \in Seq(Sent) /\ ToSet(ms) = {fr, BarrierRequest(x1)}
       /\ \A m : Times(ms, m) = (IF fr = m THEN 1 ELSE 0) + (IF BarrierRequest(x1) = m THEN 1 ELSE 0)
  <2>1. ms \in Seq(Sent) /\ ToSet(ms) = {fr, BarrierRequest(x1)}
    BY <1>16 DEF ToSet
  <2>2. \A m : Times(ms, m) = (IF fr = m THEN 1 ELSE 0) + (IF BarrierRequest(x1) = m THEN 1 ELSE 0)
    <3> DEFINE br == BarrierRequest(x1)
               one == <<fr>>
    <3>1. one \in Seq(Sent) /\ br \in Sent /\ ms = Append(one, br)
      BY <1>16
    <3>2. \A m : Times(one, m) = IF fr = m THEN 1 ELSE 0
      BY TimesOne
    <3> HIDE DEF one, br, ms
    <3>3. \A m : Times(Append(one, br), m) = Times(one, m) + (IF br = m THEN 1 ELSE 0)
      BY ONLY <3>1, TimesAppend
    <3> QED BY <3>1, <3>2, <3>3 DEF br
  <2> QED BY <2>1, <2>2
<1> HIDE DEF ms
<1>18. /\ toSwitch' \in [Switches -> Seq(Sent)] /\ toSwitch' \in [Switches -> Seq(Request)]
       /\ \A t \in Switches : \A m :
            /\ Times(toSwitch[t], m) \in Nat /\ Times(ms, m) \in Nat
            /\ Times(toSwitch'[t], m) =
                 Times(toSwitch[t], m) + (IF t = s THEN Times(ms, m) ELSE 0)
       /\ \A t \in Switches :
            ToSet(toSwitch'[t]) =
              IF t = s THEN ToSet(toSwitch[t]) \cup ToSet(ms) ELSE ToSet(toSwitch[t])
  BY <1>1, <1>2, <1>17, SwitchGets
<1>19. /\ DOMAIN barriers' = DOMAIN barriers \cup {x1}
       /\ Range(barriers') \subseteq Range(barriers) \cup {s}
       /\ barriers'[x1] = s /\ \A k \in DOMAIN barriers : barriers'[k] = barriers[k]
  <2>1. /\ DOMAIN Insert(barriers, x1, s) = DOMAIN barriers \cup {x1}
        /\ Range(Insert(barriers, x1, s)) \subseteq Range(barriers) \cup {s}
    BY MapFacts
  <2>2. \A k \in DOMAIN barriers : Insert(barriers, x1, s)[k] = barriers[k]
    BY DEF Insert
  <2>3. x1 \notin DOMAIN barriers => Insert(barriers, x1, s)[x1] = s
    BY DEF Insert
  <2> QED BY <1>1, <1>15, <2>1, <2>2, <2>3
<1>20. TypeOK' /\ Channels'
  <2>1. xid' \in Xid /\ DOMAIN barriers' \subseteq 1 .. xid' /\ DOMAIN echoes' \subseteq 1 .. xid'
    BY <1>1, <1>15, <1>19
  <2>2. Range(echoes') \subseteq accepted' /\ Range(barriers') \subseteq accepted'
    BY <1>1, <1>19 DEF IInv, TypeOK
  <2> QED BY <1>1, <1>3, <1>18, <2>1, <2>2 DEF IInv, TypeOK, Channels
<1>21. ASSUME NEW t \in Switches, NEW x \in Xid PROVE BarrierOf(t, x)' /\ EchoOf(t, x)'
  <2>1. BarrierOf(t, x) /\ EchoOf(t, x) /\ Times(toCtrl[t], BarrierReply(x)) \in Nat
    BY Numbers DEF IInv
  <2>2. Times(ms, EchoRequest(x)) = 0 /\ Times(ms, BarrierRequest(x)) = IF x = x1 THEN 1 ELSE 0
    BY <1>16, <1>17, Kinds
  <2>3. /\ Times(toSwitch'[t], EchoRequest(x)) = Times(toSwitch[t], EchoRequest(x)) + 0
        /\ Times(toSwitch[t], EchoRequest(x)) \in Nat
    BY <1>18, <2>2
  <2>4. /\ Times(toSwitch'[t], BarrierRequest(x)) =
             Times(toSwitch[t], BarrierRequest(x)) + (IF t = s /\ x = x1 THEN 1 ELSE 0)
        /\ Times(toSwitch[t], BarrierRequest(x)) \in Nat
    BY <1>18, <2>2
  <2>5. /\ Times(toCtrl'[t], BarrierReply(x)) = Times(toCtrl[t], BarrierReply(x))
        /\ Times(toCtrl'[t], EchoReply(x)) = Times(toCtrl[t], EchoReply(x))
    BY <1>5 DEF SameReports
  <2>6. EchoOf(t, x)'
    BY <1>1, <2>1, <2>3, <2>5 DEF EchoOf
  <2>7. BarrierOf(t, x)'
    <3>1. CASE x = x1
      BY <1>1, <1>15, <1>19, <2>1, <2>4, <2>5, <3>1 DEF BarrierOf
    <3>2. CASE x # x1
      BY <1>1, <1>15, <1>19, <2>1, <2>4, <2>5, <3>2 DEF BarrierOf
    <3> QED BY <3>1, <3>2
  <2> QED BY <2>6, <2>7
<1>22. ASSUME NEW t \in Switches, NEW m \in Macs PROVE FlowOf(t, m)'
  <2>1. FlowOf(t, m)
    BY DEF IInv
  <2>2. Times(ms, Command(m)) = 0
    BY <1>16, <1>17, Kinds
  <2>3. /\ Times(toSwitch'[t], Command(m)) = Times(toSwitch[t], Command(m)) + 0
        /\ Times(toSwitch[t], Command(m)) \in Nat
    BY <1>18, <2>2
  <2>4. Times(toCtrl'[t], FlowRemoved(m)) = Times(toCtrl[t], FlowRemoved(m))
    BY <1>5 DEF SameReports
  <2> QED BY <1>1, <2>1, <2>3, <2>4 DEF FlowOf
<1>23. \A t \in Switches : ReadyOf(t)'
  <2>1. \A t \in Switches : t # s \/ s \notin registered =>
          /\ \A m \in ToSet(toSwitch'[t]) : m \in ToSet(toSwitch[t]) \/ m.type # "command"
          /\ \A m \in ToSet(toCtrl'[t]) : m \in ToSet(toCtrl[t]) \/ m.type # "packet_in"
    <3>1. \A m \in ToSet(ms) : m.type # "command"
      BY <1>16, <1>17
    <3>2. \A t \in Switches : ToSet(toSwitch'[t]) \subseteq ToSet(toSwitch[t]) \cup ToSet(ms)
      BY <1>18
    <3> QED BY <1>3, <3>1, <3>2
  <2> QED BY <1>1, <2>1, ReadyKept
<1> QED BY <1>14, <1>20, <1>21, <1>22, <1>23 DEF IInv

\* What the handshake sends: commands, and none of them is an address.
LEMMA HandshakeCommands ==
  ASSUME IInv, NEW s \in Switches
  PROVE  /\ Supported(pending[s]) \in Seq(UserCommands \ Unsupported)
         /\ AtHandshake(s) \in Seq((UserCommands \cup Range(Setup)) \ Unsupported)
         /\ Setup \in Seq(Range(Setup)) /\ Range(Setup) \cap Unsupported = {}
         /\ Range(Setup) \subseteq Commands
<1>1. pending[s] \in Seq(UserCommands)
  BY DEF IInv, TypeOK
<1>2. Supported(pending[s]) \in Seq(UserCommands \ Unsupported)
  BY <1>1, SupportedType
<1>3. Setup \in Seq(Range(Setup))
  BY DEF Setup, Range
<1>4. Range(Setup) \cap Unsupported = {} /\ Range(Setup) \subseteq Commands
  BY ChannelAssumption DEF Commands
<1> DEFINE A == (UserCommands \cup Range(Setup)) \ Unsupported
           a == Supported(pending[s])
           B == UserCommands \ Unsupported
           R == Range(Setup)
<1>5. \A c \in B : c \in A
  OBVIOUS
<1>6. \A c \in R : c \in A
  BY <1>4
<1>7. a \in Seq(B) /\ Setup \in Seq(R)
  BY <1>2, <1>3
<1> HIDE DEF A, a, B, R
<1>8. a \in Seq(A) /\ Setup \in Seq(A)
  BY <1>5, <1>6, <1>7
<1>9. a \o Setup \in Seq(A)
  BY <1>8
<1>10. AtHandshake(s) = a \o Setup
  BY DEF AtHandshake, a
<1> QED BY <1>2, <1>3, <1>4, <1>9, <1>10 DEF A

LEMMA KeepFeaturesReply ==
  ASSUME IInv, NEW s \in Switches, HandleFeaturesReply(s)
  PROVE  IInv'
<1> DEFINE A == (UserCommands \cup Range(Setup)) \ Unsupported
           cs == AtHandshake(s)
           ms == AsMessages(cs)
<1>1. /\ s \in accepted /\ toCtrl[s] # << >> /\ Head(toCtrl[s]).type = "features_reply"
      /\ ReceiveFromSwitch(s) /\ SendToSwitch(s, ms)
      /\ registered' = registered \cup {s} /\ pending' = [pending EXCEPT ![s] = << >>]
      /\ UNCHANGED <<accepted, barriers, echoes, xid, learned>>
      /\ UNCHANGED <<connected, refused, flows, executed, inputs>>
  BY DEF HandleFeaturesReply, AtController, Drained, switch
<1>2. Channels
  BY DEF IInv
<1>3. /\ toCtrl' \in [Switches -> Seq(Report)]
      /\ Head(toCtrl[s]) \in Report /\ Head(toCtrl[s]) \in ToSet(toCtrl[s])
      /\ \A t \in Switches : \A m :
           /\ Times(toCtrl[t], m) \in Nat /\ Times(toCtrl'[t], m) \in Nat
           /\ Times(toCtrl[t], m) =
                Times(toCtrl'[t], m) + (IF t = s /\ m = Head(toCtrl[s]) THEN 1 ELSE 0)
      /\ \A t \in Switches : ToSet(toCtrl'[t]) \subseteq ToSet(toCtrl[t])
  BY <1>1, <1>2, ControllerTakes
<1>4. SameReports
  BY <1>1, <1>2, QuietRead
<1>5. cs \in Seq(A) /\ A \in SUBSET (Commands \ Unsupported) /\ \A c \in A : c \notin Macs
  BY HandshakeCommands, ChannelAssumption DEF Commands
<1> HIDE DEF A, cs
<1>6. ms \in Seq(Sent) /\ \A r \in ToSet(ms) : r.type = "command" /\ r.cmd \in A
  BY <1>5, CommandMessages
<1> HIDE DEF ms
<1>7. SameRequests
  <2>1. \A r \in ToSet(ms) : /\ r.type \notin {"barrier_request", "echo_request"}
                             /\ r.type = "command" => r.cmd \notin Macs
    BY <1>5, <1>6
  <2> QED BY <1>1, <1>2, <1>6, <2>1, QuietSent
<1>8. /\ toSwitch' \in [Switches -> Seq(Sent)] /\ toSwitch' \in [Switches -> Seq(Request)]
      /\ \A t \in Switches :
           ToSet(toSwitch'[t]) =
             IF t = s THEN ToSet(toSwitch[t]) \cup ToSet(ms) ELSE ToSet(toSwitch[t])
  BY <1>1, <1>2, <1>6, SwitchGets
<1>9. /\ pending' \in [Switches -> Seq(UserCommands)] /\ pending'[s] = << >>
      /\ \A t \in Switches \ {s} : pending'[t] = pending[t]
  BY <1>1 DEF IInv, TypeOK
<1>10. TypeOK' /\ Channels'
  <2>1. registered' \subseteq accepted'
    BY <1>1 DEF IInv, TypeOK
  <2> QED BY <1>1, <1>3, <1>8, <1>9, <2>1 DEF IInv, TypeOK, Channels
<1>11. Greetings'
  <2>1. Hello # Head(toCtrl[s])
    BY <1>1, Kinds
  <2>2. ASSUME NEW t \in Switches PROVE Times(toCtrl'[t], Hello) = Times(toCtrl[t], Hello)
    <3>1. Times(toCtrl[t], Hello) = Times(toCtrl'[t], Hello) + 0
      BY <1>3, <2>1
    <3> QED BY <1>3, <3>1
  <2> QED BY <1>1, <2>2, GreetingsKept, Numbers
<1>12. ASSUME NEW t \in Switches PROVE ReadyOf(t)'
  <2>1. ReadyOf(t)
    BY DEF IInv
  <2>2. CASE t = s
    BY <1>1, <1>9, <2>2 DEF ReadyOf
  <2>3. CASE t # s
    <3>1. /\ pending'[t] = pending[t] /\ executed'[t] = executed[t]
          /\ t \in registered' <=> t \in registered
          /\ ToSet(toSwitch'[t]) = ToSet(toSwitch[t]) /\ ToSet(toCtrl'[t]) \subseteq ToSet(toCtrl[t])
      BY <1>1, <1>3, <1>8, <1>9, <2>3
    <3> QED BY <2>1, <3>1 DEF ReadyOf
  <2> QED BY <2>2, <2>3
<1> QED BY <1>1, <1>4, <1>7, <1>10, <1>11, <1>12, CountsKept DEF IInv

LEMMA KeepBarrierReply ==
  ASSUME IInv, NEW s \in Switches, HandleBarrierReply(s)
  PROVE  IInv'
<1> DEFINE h == Head(toCtrl[s])
           x0 == h.xid
<1>1. /\ s \in accepted /\ toCtrl[s] # << >> /\ h.type = "barrier_reply"
      /\ ReceiveFromSwitch(s) /\ barriers' = Erase(barriers, x0)
      /\ UNCHANGED <<accepted, registered, pending, echoes, xid, learned, toSwitch>>
      /\ UNCHANGED <<connected, refused, flows, executed, inputs>>
  BY DEF HandleBarrierReply, AtController, switch
<1>2. /\ toCtrl' \in [Switches -> Seq(Report)]
      /\ h \in Report /\ h \in ToSet(toCtrl[s])
      /\ \A t \in Switches : \A m :
           /\ Times(toCtrl[t], m) \in Nat /\ Times(toCtrl'[t], m) \in Nat
           /\ Times(toCtrl[t], m) = Times(toCtrl'[t], m) + (IF t = s /\ m = h THEN 1 ELSE 0)
      /\ \A t \in Switches : ToSet(toCtrl'[t]) \subseteq ToSet(toCtrl[t])
  <2>1. Channels
    BY DEF IInv
  <2> QED BY <1>1, <2>1, ControllerTakes
<1>3. x0 \in Xid /\ h = BarrierReply(x0)
  BY <1>1, <1>2, MessageIs
<1> HIDE DEF h, x0
<1>4. ASSUME NEW t \in Switches, NEW m, m # h \/ t # s
      PROVE  Times(toCtrl'[t], m) = Times(toCtrl[t], m)
  <2>1. Times(toCtrl[t], m) = Times(toCtrl'[t], m) + 0
    BY <1>2, <1>4
  <2> QED BY <1>2, <2>1
<1>5. Times(toCtrl[s], h) = Times(toCtrl'[s], h) + 1
  BY <1>2
<1>6. /\ x0 \in DOMAIN barriers /\ barriers[x0] = s
      /\ Times(toSwitch[s], BarrierRequest(x0)) = 0 /\ Times(toCtrl'[s], h) = 0
  <2>1. BarrierOf(s, x0) /\ Times(toSwitch[s], BarrierRequest(x0)) \in Nat
    BY <1>3, Numbers DEF IInv
  <2> QED BY <1>2, <1>3, <1>5, <2>1 DEF BarrierOf
<1>7. /\ DOMAIN barriers' = DOMAIN barriers \ {x0} /\ Range(barriers') \subseteq Range(barriers)
      /\ \A k \in DOMAIN barriers \ {x0} : barriers'[k] = barriers[k]
  <2>1. /\ DOMAIN Erase(barriers, x0) = DOMAIN barriers \ {x0}
        /\ Range(Erase(barriers, x0)) \subseteq Range(barriers)
    BY MapFacts
  <2>2. \A k \in DOMAIN barriers \ {x0} : Erase(barriers, x0)[k] = barriers[k]
    BY DEF Erase
  <2> QED BY <1>1, <2>1, <2>2
<1>8. TypeOK' /\ Channels'
  BY <1>1, <1>2, <1>7 DEF IInv, TypeOK, Channels
<1>9. \A x : /\ EchoReply(x) # h /\ FlowRemoved(x) # h /\ Hello # h
             /\ BarrierReply(x) = h => x = x0
  BY <1>3, Kinds
<1>10. Greetings'
  <2>1. \A t \in Switches : Times(toCtrl'[t], Hello) = Times(toCtrl[t], Hello)
    BY <1>4, <1>9
  <2> QED BY <1>1, <2>1, GreetingsKept, Numbers
<1>11. ASSUME NEW t \in Switches, NEW x \in Xid PROVE BarrierOf(t, x)' /\ EchoOf(t, x)'
  <2>1. BarrierOf(t, x) /\ EchoOf(t, x)
    BY DEF IInv
  <2>2. Times(toCtrl'[t], EchoReply(x)) = Times(toCtrl[t], EchoReply(x))
    BY <1>4, <1>9
  <2>3. EchoOf(t, x)'
    BY <1>1, <2>1, <2>2 DEF EchoOf
  <2>4. BarrierOf(t, x)'
    <3>1. CASE x = x0 /\ t = s
      BY <1>1, <1>3, <1>6, <1>7, <3>1 DEF BarrierOf
    <3>2. CASE x = x0 /\ t # s
      <4>1. Times(toCtrl'[t], BarrierReply(x)) = Times(toCtrl[t], BarrierReply(x))
        BY <1>4, <3>2
      <4> QED BY <1>1, <1>6, <1>7, <2>1, <3>2, <4>1 DEF BarrierOf
    <3>3. CASE x # x0
      <4>1. Times(toCtrl'[t], BarrierReply(x)) = Times(toCtrl[t], BarrierReply(x))
        BY <1>4, <1>9, <3>3
      <4> QED BY <1>1, <1>7, <2>1, <3>3, <4>1 DEF BarrierOf
    <3> QED BY <3>1, <3>2, <3>3
  <2> QED BY <2>3, <2>4
<1>12. ASSUME NEW t \in Switches, NEW m \in Macs PROVE FlowOf(t, m)'
  <2>1. FlowOf(t, m)
    BY DEF IInv
  <2>2. Times(toCtrl'[t], FlowRemoved(m)) = Times(toCtrl[t], FlowRemoved(m))
    BY <1>4, <1>9
  <2> QED BY <1>1, <2>1, <2>2 DEF FlowOf
<1>13. \A t \in Switches : ReadyOf(t)'
  <2>1. \A t \in Switches :
          /\ \A m \in ToSet(toSwitch'[t]) : m \in ToSet(toSwitch[t]) \/ m.type # "command"
          /\ \A m \in ToSet(toCtrl'[t]) : m \in ToSet(toCtrl[t]) \/ m.type # "packet_in"
    BY <1>1, <1>2
  <2> QED BY <1>1, <2>1, ReadyKept
<1> QED BY <1>8, <1>10, <1>11, <1>12, <1>13 DEF IInv

LEMMA KeepEchoReply ==
  ASSUME IInv, NEW s \in Switches, HandleEchoReply(s)
  PROVE  IInv'
<1> DEFINE h == Head(toCtrl[s])
           x0 == h.xid
<1>1. /\ s \in accepted /\ toCtrl[s] # << >> /\ h.type = "echo_reply"
      /\ ReceiveFromSwitch(s) /\ echoes' = Erase(echoes, x0)
      /\ UNCHANGED <<accepted, registered, pending, barriers, xid, learned, toSwitch>>
      /\ UNCHANGED <<connected, refused, flows, executed, inputs>>
  BY DEF HandleEchoReply, AtController, switch
<1>2. /\ toCtrl' \in [Switches -> Seq(Report)]
      /\ h \in Report /\ h \in ToSet(toCtrl[s])
      /\ \A t \in Switches : \A m :
           /\ Times(toCtrl[t], m) \in Nat /\ Times(toCtrl'[t], m) \in Nat
           /\ Times(toCtrl[t], m) = Times(toCtrl'[t], m) + (IF t = s /\ m = h THEN 1 ELSE 0)
      /\ \A t \in Switches : ToSet(toCtrl'[t]) \subseteq ToSet(toCtrl[t])
  <2>1. Channels
    BY DEF IInv
  <2> QED BY <1>1, <2>1, ControllerTakes
<1>3. x0 \in Xid /\ h = EchoReply(x0)
  BY <1>1, <1>2, MessageIs
<1> HIDE DEF h, x0
<1>4. ASSUME NEW t \in Switches, NEW m, m # h \/ t # s
      PROVE  Times(toCtrl'[t], m) = Times(toCtrl[t], m)
  <2>1. Times(toCtrl[t], m) = Times(toCtrl'[t], m) + 0
    BY <1>2, <1>4
  <2> QED BY <1>2, <2>1
<1>5. Times(toCtrl[s], h) = Times(toCtrl'[s], h) + 1
  BY <1>2
<1>6. /\ x0 \in DOMAIN echoes /\ echoes[x0] = s
      /\ Times(toSwitch[s], EchoRequest(x0)) = 0 /\ Times(toCtrl'[s], h) = 0
  <2>1. EchoOf(s, x0) /\ Times(toSwitch[s], EchoRequest(x0)) \in Nat
    BY <1>3, Numbers DEF IInv
  <2> QED BY <1>2, <1>3, <1>5, <2>1 DEF EchoOf
<1>7. /\ DOMAIN echoes' = DOMAIN echoes \ {x0} /\ Range(echoes') \subseteq Range(echoes)
      /\ \A k \in DOMAIN echoes \ {x0} : echoes'[k] = echoes[k]
  <2>1. /\ DOMAIN Erase(echoes, x0) = DOMAIN echoes \ {x0}
        /\ Range(Erase(echoes, x0)) \subseteq Range(echoes)
    BY MapFacts
  <2>2. \A k \in DOMAIN echoes \ {x0} : Erase(echoes, x0)[k] = echoes[k]
    BY DEF Erase
  <2> QED BY <1>1, <2>1, <2>2
<1>8. TypeOK' /\ Channels'
  BY <1>1, <1>2, <1>7 DEF IInv, TypeOK, Channels
<1>9. \A x : /\ BarrierReply(x) # h /\ FlowRemoved(x) # h /\ Hello # h
             /\ EchoReply(x) = h => x = x0
  BY <1>3, Kinds
<1>10. Greetings'
  <2>1. \A t \in Switches : Times(toCtrl'[t], Hello) = Times(toCtrl[t], Hello)
    BY <1>4, <1>9
  <2> QED BY <1>1, <2>1, GreetingsKept, Numbers
<1>11. ASSUME NEW t \in Switches, NEW x \in Xid PROVE BarrierOf(t, x)' /\ EchoOf(t, x)'
  <2>1. BarrierOf(t, x) /\ EchoOf(t, x)
    BY DEF IInv
  <2>2. Times(toCtrl'[t], BarrierReply(x)) = Times(toCtrl[t], BarrierReply(x))
    BY <1>4, <1>9
  <2>3. BarrierOf(t, x)'
    BY <1>1, <2>1, <2>2 DEF BarrierOf
  <2>4. EchoOf(t, x)'
    <3>1. CASE x = x0 /\ t = s
      BY <1>1, <1>3, <1>6, <1>7, <3>1 DEF EchoOf
    <3>2. CASE x = x0 /\ t # s
      <4>1. Times(toCtrl'[t], EchoReply(x)) = Times(toCtrl[t], EchoReply(x))
        BY <1>4, <3>2
      <4> QED BY <1>1, <1>6, <1>7, <2>1, <3>2, <4>1 DEF EchoOf
    <3>3. CASE x # x0
      <4>1. Times(toCtrl'[t], EchoReply(x)) = Times(toCtrl[t], EchoReply(x))
        BY <1>4, <1>9, <3>3
      <4> QED BY <1>1, <1>7, <2>1, <3>3, <4>1 DEF EchoOf
    <3> QED BY <3>1, <3>2, <3>3
  <2> QED BY <2>3, <2>4
<1>12. ASSUME NEW t \in Switches, NEW m \in Macs PROVE FlowOf(t, m)'
  <2>1. FlowOf(t, m)
    BY DEF IInv
  <2>2. Times(toCtrl'[t], FlowRemoved(m)) = Times(toCtrl[t], FlowRemoved(m))
    BY <1>4, <1>9
  <2> QED BY <1>1, <2>1, <2>2 DEF FlowOf
<1>13. \A t \in Switches : ReadyOf(t)'
  <2>1. \A t \in Switches :
          /\ \A m \in ToSet(toSwitch'[t]) : m \in ToSet(toSwitch[t]) \/ m.type # "command"
          /\ \A m \in ToSet(toCtrl'[t]) : m \in ToSet(toCtrl[t]) \/ m.type # "packet_in"
    BY <1>1, <1>2
  <2> QED BY <1>1, <2>1, ReadyKept
<1> QED BY <1>8, <1>10, <1>11, <1>12, <1>13 DEF IInv

LEMMA KeepPacketIn ==
  ASSUME IInv, NEW s \in Switches, HandlePacketIn(s)
  PROVE  IInv'
<1> DEFINE h == Head(toCtrl[s])
           m0 == h.mac
           new == IF m0 \in learned[s] THEN << >> ELSE <<m0>>
           po == [type |-> "packet_out"]
           cs == AsMessages(new)
           ms == Append(cs, po)
<1>1. /\ s \in accepted /\ toCtrl[s] # << >> /\ h.type = "packet_in"
      /\ ReceiveFromSwitch(s) /\ SendToSwitch(s, ms)
      /\ learned' = [learned EXCEPT ![s] = @ \cup {m0}]
      /\ UNCHANGED <<accepted, registered, pending, barriers, echoes, xid>>
      /\ UNCHANGED <<connected, refused, flows, executed, inputs>>
  BY DEF HandlePacketIn, AtController, Learn, switch
<1>2. /\ toCtrl' \in [Switches -> Seq(Report)]
      /\ h \in Report /\ h \in ToSet(toCtrl[s])
      /\ \A t \in Switches : \A m :
           /\ Times(toCtrl[t], m) \in Nat /\ Times(toCtrl'[t], m) \in Nat
           /\ Times(toCtrl[t], m) = Times(toCtrl'[t], m) + (IF t = s /\ m = h THEN 1 ELSE 0)
      /\ \A t \in Switches : ToSet(toCtrl'[t]) \subseteq ToSet(toCtrl[t])
  <2>1. Channels
    BY DEF IInv
  <2> QED BY <1>1, <2>1, ControllerTakes
<1>3. SameReports /\ Channels
  BY <1>1, QuietRead DEF IInv
<1>4. m0 \in Macs /\ Hello # h
  BY <1>1, <1>2, MessageIs, Kinds
\* The packet-in comes from a switch that has executed a command.
<1>5. s \in registered
  <2>1. ReadyOf(s)
    BY DEF IInv
  <2> QED BY <1>1, <1>2, <2>1 DEF ReadyOf
<1> HIDE DEF h, m0
<1>6. Macs \subseteq Commands \ Unsupported /\ po \in Sent /\ po.type = "packet_out"
  BY Messages, ChannelAssumption DEF Commands
<1>7. cs \in Seq(Sent) /\ cs = IF m0 \in learned[s] THEN << >> ELSE <<Command(m0)>>
  <2>1. Command(m0) \in Sent
    BY <1>4, <1>6, Messages
  <2>2. CASE m0 \in learned[s]
    <3>1. cs = << >>
      BY <2>2 DEF AsMessages
    <3> HIDE DEF cs, new
    <3> QED BY <2>2, <3>1
  <2>3. CASE m0 \notin learned[s]
    <3>1. cs = <<Command(m0)>>
      BY <2>3 DEF AsMessages
    <3> HIDE DEF cs, new
    <3> QED BY <2>1, <2>3, <3>1
  <2> QED BY <2>2, <2>3
<1> HIDE DEF cs, new, po
<1>8. \A m : Times(cs, m) = IF m = Command(m0) /\ m0 \notin learned[s] THEN 1 ELSE 0
  <2>1. CASE m0 \in learned[s]
    BY <1>7, <2>1, TimesEmpty
  <2>2. CASE m0 \notin learned[s]
    <3> DEFINE c == Command(m0)
    <3>1. cs = <<c>>
      BY <1>7, <2>2
    <3> HIDE DEF c
    <3>2. \A m : Times(<<c>>, m) = IF c = m THEN 1 ELSE 0
      BY TimesOne
    <3> QED BY <2>2, <3>1, <3>2 DEF c
  <2> QED BY <2>1, <2>2
<1>9. /\ ms \in Seq(Sent)
      /\ \A m : Times(ms, m) = Times(cs, m) + (IF po = m THEN 1 ELSE 0)
  <2>1. cs \in Seq(Sent) /\ po \in Sent /\ ms \in Seq(Sent)
    BY <1>6, <1>7
  <2>2. \A m : Times(Append(cs, po), m) = Times(cs, m) + (IF po = m THEN 1 ELSE 0)
    BY ONLY <2>1, TimesAppend
  <2> QED BY <2>1, <2>2
<1> HIDE DEF ms
<1>10. /\ toSwitch' \in [Switches -> Seq(Sent)] /\ toSwitch' \in [Switches -> Seq(Request)]
       /\ \A t \in Switches : \A m :
            /\ Times(toSwitch[t], m) \in Nat /\ Times(ms, m) \in Nat
            /\ Times(toSwitch'[t], m) =
                 Times(toSwitch[t], m) + (IF t = s THEN Times(ms, m) ELSE 0)
       /\ \A t \in Switches :
            ToSet(toSwitch'[t]) =
              IF t = s THEN ToSet(toSwitch[t]) \cup ToSet(ms) ELSE ToSet(toSwitch[t])
  BY <1>1, <1>3, <1>9, SwitchGets
<1>11. /\ learned' \in [Switches -> SUBSET Macs] /\ learned'[s] = learned[s] \cup {m0}
       /\ \A t \in Switches \ {s} : learned'[t] = learned[t]
  BY <1>1, <1>4 DEF IInv, TypeOK
<1>12. TypeOK' /\ Channels'
  BY <1>1, <1>2, <1>10, <1>11 DEF IInv, TypeOK, Channels
<1>13. Greetings'
  <2>1. ASSUME NEW t \in Switches PROVE Times(toCtrl'[t], Hello) = Times(toCtrl[t], Hello)
    <3>1. Times(toCtrl[t], Hello) = Times(toCtrl'[t], Hello) + 0
      BY <1>2, <1>4
    <3> QED BY <1>2, <3>1
  <2> QED BY <1>1, <2>1, GreetingsKept, Numbers
<1>14. ASSUME NEW t \in Switches, NEW x \in Xid PROVE BarrierOf(t, x)' /\ EchoOf(t, x)'
  <2>1. BarrierOf(t, x) /\ EchoOf(t, x)
    BY DEF IInv
  <2>2. Times(ms, BarrierRequest(x)) = 0 /\ Times(ms, EchoRequest(x)) = 0
    BY <1>6, <1>8, <1>9, Kinds
  <2>3. /\ Times(toSwitch'[t], BarrierRequest(x)) = Times(toSwitch[t], BarrierRequest(x)) + 0
        /\ Times(toSwitch'[t], EchoRequest(x)) = Times(toSwitch[t], EchoRequest(x)) + 0
        /\ Times(toSwitch[t], BarrierRequest(x)) \in Nat
        /\ Times(toSwitch[t], EchoRequest(x)) \in Nat
    BY <1>10, <2>2
  <2>4. /\ Times(toCtrl'[t], BarrierReply(x)) = Times(toCtrl[t], BarrierReply(x))
        /\ Times(toCtrl'[t], EchoReply(x)) = Times(toCtrl[t], EchoReply(x))
    BY <1>3 DEF SameReports
  <2> QED BY <1>1, <2>1, <2>3, <2>4 DEF BarrierOf, EchoOf
<1>15. ASSUME NEW t \in Switches, NEW m \in Macs PROVE FlowOf(t, m)'
  <2>1. FlowOf(t, m) /\ flows[t][m] \in Nat /\ Times(toCtrl[t], FlowRemoved(m)) \in Nat
    BY Numbers DEF IInv
  <2>2. Times(ms, Command(m)) = IF m = m0 /\ m0 \notin learned[s] THEN 1 ELSE 0
    BY <1>6, <1>8, <1>9, Kinds
  <2>3. /\ Times(toSwitch'[t], Command(m)) =
             Times(toSwitch[t], Command(m))
               + (IF t = s /\ m = m0 /\ m0 \notin learned[s] THEN 1 ELSE 0)
        /\ Times(toSwitch[t], Command(m)) \in Nat
    BY <1>10, <2>2
  <2>4. Times(toCtrl'[t], FlowRemoved(m)) = Times(toCtrl[t], FlowRemoved(m))
    BY <1>3 DEF SameReports
  <2>5. CASE t = s /\ m = m0
    BY <1>1, <1>11, <2>1, <2>3, <2>4, <2>5 DEF FlowOf
  <2>6. CASE ~(t = s /\ m = m0)
    <3>1. m \in learned'[t] <=> m \in learned[t]
      BY <1>11, <2>6
    <3> QED BY <1>1, <2>1, <2>3, <2>4, <2>6, <3>1 DEF FlowOf
  <2> QED BY <2>5, <2>6
<1>16. \A t \in Switches : ReadyOf(t)'
  <2>1. \A t \in Switches : t # s \/ s \notin registered =>
          /\ \A m \in ToSet(toSwitch'[t]) : m \in ToSet(toSwitch[t]) \/ m.type # "command"
          /\ \A m \in ToSet(toCtrl'[t]) : m \in ToSet(toCtrl[t]) \/ m.type # "packet_in"
    BY <1>2, <1>5, <1>10
  <2> QED BY <1>1, <2>1, ReadyKept
<1> QED BY <1>12, <1>13, <1>14, <1>15, <1>16 DEF IInv

LEMMA KeepFlowRemoved ==
  ASSUME IInv, NEW s \in Switches, HandleFlowRemoved(s)
  PROVE  IInv'
<1> DEFINE h == Head(toCtrl[s])
           m0 == h.mac
<1>1. /\ s \in accepted /\ toCtrl[s] # << >> /\ h.type = "flow_removed"
      /\ ReceiveFromSwitch(s) /\ learned' = [learned EXCEPT ![s] = @ \ {m0}]
      /\ UNCHANGED <<accepted, registered, pending, barriers, echoes, xid, toSwitch>>
      /\ UNCHANGED <<connected, refused, flows, executed, inputs>>
  BY DEF HandleFlowRemoved, AtController, switch
<1>2. /\ toCtrl' \in [Switches -> Seq(Report)]
      /\ h \in Report /\ h \in ToSet(toCtrl[s])
      /\ \A t \in Switches : \A m :
           /\ Times(toCtrl[t], m) \in Nat /\ Times(toCtrl'[t], m) \in Nat
           /\ Times(toCtrl[t], m) = Times(toCtrl'[t], m) + (IF t = s /\ m = h THEN 1 ELSE 0)
      /\ \A t \in Switches : ToSet(toCtrl'[t]) \subseteq ToSet(toCtrl[t])
  <2>1. Channels
    BY DEF IInv
  <2> QED BY <1>1, <2>1, ControllerTakes
<1>3. m0 \in Macs /\ h = FlowRemoved(m0)
  BY <1>1, <1>2, MessageIs
<1> HIDE DEF h, m0
<1>4. ASSUME NEW t \in Switches, NEW m, m # h \/ t # s
      PROVE  Times(toCtrl'[t], m) = Times(toCtrl[t], m)
  <2>1. Times(toCtrl[t], m) = Times(toCtrl'[t], m) + 0
    BY <1>2, <1>4
  <2> QED BY <1>2, <2>1
<1>5. Times(toCtrl[s], h) = Times(toCtrl'[s], h) + 1
  BY <1>2
<1>6. /\ learned' \in [Switches -> SUBSET Macs] /\ learned'[s] = learned[s] \ {m0}
      /\ \A t \in Switches \ {s} : learned'[t] = learned[t]
  BY <1>1 DEF IInv, TypeOK
<1>7. TypeOK' /\ Channels'
  BY <1>1, <1>2, <1>6 DEF IInv, TypeOK, Channels
<1>8. \A x : /\ BarrierReply(x) # h /\ EchoReply(x) # h /\ Hello # h
             /\ FlowRemoved(x) = h => x = m0
  BY <1>3, Kinds
<1>9. Greetings'
  <2>1. \A t \in Switches : Times(toCtrl'[t], Hello) = Times(toCtrl[t], Hello)
    BY <1>4, <1>8
  <2> QED BY <1>1, <2>1, GreetingsKept, Numbers
<1>10. ASSUME NEW t \in Switches, NEW x \in Xid PROVE BarrierOf(t, x)' /\ EchoOf(t, x)'
  <2>1. BarrierOf(t, x) /\ EchoOf(t, x)
    BY DEF IInv
  <2>2. /\ Times(toCtrl'[t], BarrierReply(x)) = Times(toCtrl[t], BarrierReply(x))
        /\ Times(toCtrl'[t], EchoReply(x)) = Times(toCtrl[t], EchoReply(x))
    BY <1>4, <1>8
  <2> QED BY <1>1, <2>1, <2>2 DEF BarrierOf, EchoOf
<1>11. ASSUME NEW t \in Switches, NEW m \in Macs PROVE FlowOf(t, m)'
  <2>1. /\ FlowOf(t, m) /\ flows[t][m] \in Nat
        /\ Times(toSwitch[t], Command(m)) \in Nat /\ Times(toCtrl'[t], FlowRemoved(m)) \in Nat
    <3>1. FlowOf(t, m) /\ flows[t][m] \in 0 .. 1 /\ Times(toSwitch[t], Command(m)) \in Nat
      BY Numbers DEF IInv
    <3>2. Times(toCtrl'[t], FlowRemoved(m)) \in Nat
      BY <1>2
    <3> QED BY <3>1, <3>2
  <2>2. CASE t = s /\ m = m0
    BY <1>1, <1>3, <1>5, <1>6, <2>1, <2>2 DEF FlowOf
  <2>3. CASE ~(t = s /\ m = m0)
    <3>1. m \in learned'[t] <=> m \in learned[t]
      BY <1>6, <2>3
    <3>2. Times(toCtrl'[t], FlowRemoved(m)) = Times(toCtrl[t], FlowRemoved(m))
      BY <1>4, <1>8, <2>3
    <3> QED BY <1>1, <2>1, <3>1, <3>2 DEF FlowOf
  <2> QED BY <2>2, <2>3
<1>12. \A t \in Switches : ReadyOf(t)'
  <2>1. \A t \in Switches :
          /\ \A m \in ToSet(toSwitch'[t]) : m \in ToSet(toSwitch[t]) \/ m.type # "command"
          /\ \A m \in ToSet(toCtrl'[t]) : m \in ToSet(toCtrl[t]) \/ m.type # "packet_in"
    BY <1>1, <1>2
  <2> QED BY <1>1, <2>1, ReadyKept
<1> QED BY <1>7, <1>9, <1>10, <1>11, <1>12 DEF IInv

------------------------------------------------------------------------------
(* The switches *)

LEMMA KeepOther ==
  ASSUME IInv, NEW s \in Switches, HandleOther(s)
  PROVE  IInv'
<1> DEFINE h == Head(toSwitch[s])
<1>1. /\ toSwitch[s] # << >> /\ h.type \in {"hello", "packet_out"}
      /\ ReceiveFromController(s)
      /\ UNCHANGED <<accepted, registered, pending, barriers, echoes, xid, learned>>
      /\ UNCHANGED <<connected, refused, flows, executed, toCtrl, inputs>>
  BY DEF HandleOther, AtSwitch, switch, controller
<1>2. Channels
  BY DEF IInv
<1>3. /\ toSwitch' \in [Switches -> Seq(Sent)] /\ toSwitch' \in [Switches -> Seq(Request)]
      /\ h \in Sent /\ h \in ToSet(toSwitch[s])
      /\ \A t \in Switches : \A m :
           /\ Times(toSwitch[t], m) \in Nat /\ Times(toSwitch'[t], m) \in Nat
           /\ Times(toSwitch[t], m) = Times(toSwitch'[t], m) + (IF t = s /\ m = h THEN 1 ELSE 0)
      /\ \A t \in Switches : ToSet(toSwitch'[t]) \subseteq ToSet(toSwitch[t])
  BY <1>1, <1>2, SwitchTakes
<1>4. SameRequests /\ SameReports
  BY <1>1, <1>2, QuietTaken DEF SameReports
<1>5. TypeOK' /\ Channels'
  BY <1>1, <1>3 DEF IInv, TypeOK, Channels
<1>6. Greetings'
  BY <1>1, GreetingsKept, Numbers
<1>7. \A t \in Switches : ReadyOf(t)'
  <2>1. \A t \in Switches :
          /\ \A m \in ToSet(toSwitch'[t]) : m \in ToSet(toSwitch[t]) \/ m.type # "command"
          /\ \A m \in ToSet(toCtrl'[t]) : m \in ToSet(toCtrl[t]) \/ m.type # "packet_in"
    BY <1>1, <1>3
  <2> QED BY <1>1, <2>1, ReadyKept
<1> QED BY <1>1, <1>4, <1>5, <1>6, <1>7, CountsKept DEF IInv

LEMMA KeepFeaturesRequest ==
  ASSUME IInv, NEW s \in Switches, HandleFeaturesRequest(s)
  PROVE  IInv'
<1> DEFINE h == Head(toSwitch[s])
           r == [type |-> "features_reply"]
<1>1. /\ toSwitch[s] # << >> /\ h.type = "features_request"
      /\ ReceiveFromController(s) /\ SendToController(s, r)
      /\ UNCHANGED <<accepted, registered, pending, barriers, echoes, xid, learned>>
      /\ UNCHANGED <<connected, refused, flows, executed, inputs>>
  BY DEF HandleFeaturesRequest, AtSwitch, switch, controller
<1>2. Channels /\ r \in Report /\ r.type = "features_reply"
  BY Messages DEF IInv
<1> HIDE DEF r
<1>3. /\ toSwitch' \in [Switches -> Seq(Sent)] /\ toSwitch' \in [Switches -> Seq(Request)]
      /\ h \in Sent /\ h \in ToSet(toSwitch[s])
      /\ \A t \in Switches : \A m :
           /\ Times(toSwitch[t], m) \in Nat /\ Times(toSwitch'[t], m) \in Nat
           /\ Times(toSwitch[t], m) = Times(toSwitch'[t], m) + (IF t = s /\ m = h THEN 1 ELSE 0)
      /\ \A t \in Switches : ToSet(toSwitch'[t]) \subseteq ToSet(toSwitch[t])
  BY <1>1, <1>2, SwitchTakes
<1>4. /\ toCtrl' \in [Switches -> Seq(Report)]
      /\ \A t \in Switches : \A m :
           /\ Times(toCtrl[t], m) \in Nat
           /\ Times(toCtrl'[t], m) = Times(toCtrl[t], m) + (IF t = s /\ m = r THEN 1 ELSE 0)
      /\ \A t \in Switches :
           ToSet(toCtrl'[t]) = IF t = s THEN ToSet(toCtrl[t]) \cup {r} ELSE ToSet(toCtrl[t])
  BY <1>1, <1>2, ControllerGets
<1>5. SameRequests /\ SameReports
  BY <1>1, <1>2, QuietTaken, QuietReported
<1>6. TypeOK' /\ Channels'
  BY <1>1, <1>3, <1>4 DEF IInv, TypeOK, Channels
<1>7. Greetings'
  <2>1. Hello # r
    BY <1>2, Kinds
  <2>2. \A t \in Switches : Times(toCtrl'[t], Hello) = Times(toCtrl[t], Hello)
    BY <1>4, <2>1
  <2> QED BY <1>1, <2>2, GreetingsKept, Numbers
<1>8. \A t \in Switches : ReadyOf(t)'
  <2>1. \A t \in Switches :
          /\ \A m \in ToSet(toSwitch'[t]) : m \in ToSet(toSwitch[t]) \/ m.type # "command"
          /\ \A m \in ToSet(toCtrl'[t]) : m \in ToSet(toCtrl[t]) \/ m.type # "packet_in"
    BY <1>2, <1>3, <1>4
  <2> QED BY <1>1, <2>1, ReadyKept
<1> QED BY <1>1, <1>5, <1>6, <1>7, <1>8, CountsKept DEF IInv

LEMMA KeepBarrierRequest ==
  ASSUME IInv, NEW s \in Switches, HandleBarrierRequest(s)
  PROVE  IInv'
<1> DEFINE h == Head(toSwitch[s])
           x0 == h.xid
           r == BarrierReply(x0)
<1>1. /\ toSwitch[s] # << >> /\ h.type = "barrier_request"
      /\ ReceiveFromController(s) /\ SendToController(s, r)
      /\ UNCHANGED <<accepted, registered, pending, barriers, echoes, xid, learned>>
      /\ UNCHANGED <<connected, refused, flows, executed, inputs>>
  BY DEF HandleBarrierRequest, AtSwitch, switch, controller, BarrierReply
<1>2. Channels
  BY DEF IInv
<1>3. /\ toSwitch' \in [Switches -> Seq(Sent)] /\ toSwitch' \in [Switches -> Seq(Request)]
      /\ h \in Sent /\ h \in ToSet(toSwitch[s])
      /\ \A t \in Switches : \A m :
           /\ Times(toSwitch[t], m) \in Nat /\ Times(toSwitch'[t], m) \in Nat
           /\ Times(toSwitch[t], m) = Times(toSwitch'[t], m) + (IF t = s /\ m = h THEN 1 ELSE 0)
      /\ \A t \in Switches : ToSet(toSwitch'[t]) \subseteq ToSet(toSwitch[t])
  BY <1>1, <1>2, SwitchTakes
<1>4. x0 \in Xid /\ h = BarrierRequest(x0)
  BY <1>1, <1>3, MessageIs
<1> HIDE DEF h, x0
<1>5. r \in Report /\ r.type # "packet_in"
  BY <1>4, Messages, Kinds
<1>6. \A x : /\ BarrierRequest(x) = h <=> x = x0
             /\ BarrierReply(x) = r <=> x = x0
             /\ EchoRequest(x) # h /\ EchoReply(x) # r
             /\ Command(x) # h /\ FlowRemoved(x) # r /\ Hello # r
  BY <1>4, Kinds
<1> HIDE DEF r
<1>7. /\ toCtrl' \in [Switches -> Seq(Report)]
      /\ \A t \in Switches : \A m :
           /\ Times(toCtrl[t], m) \in Nat
           /\ Times(toCtrl'[t], m) = Times(toCtrl[t], m) + (IF t = s /\ m = r THEN 1 ELSE 0)
      /\ \A t \in Switches :
           ToSet(toCtrl'[t]) = IF t = s THEN ToSet(toCtrl[t]) \cup {r} ELSE ToSet(toCtrl[t])
  BY <1>1, <1>2, <1>5, ControllerGets
<1>8. TypeOK' /\ Channels'
  BY <1>1, <1>3, <1>7 DEF IInv, TypeOK, Channels
<1>9. Greetings'
  <2>1. \A t \in Switches : Times(toCtrl'[t], Hello) = Times(toCtrl[t], Hello)
    BY <1>6, <1>7
  <2> QED BY <1>1, <2>1, GreetingsKept, Numbers
<1>10. ASSUME NEW t \in Switches, NEW m, m # h PROVE Times(toSwitch'[t], m) = Times(toSwitch[t], m)
  <2>1. Times(toSwitch[t], m) = Times(toSwitch'[t], m) + 0
    BY <1>3, <1>10
  <2> QED BY <1>3, <2>1
<1>11. ASSUME NEW t \in Switches, NEW m, m # r PROVE Times(toCtrl'[t], m) = Times(toCtrl[t], m)
  BY <1>7, <1>11
<1>12. ASSUME NEW t \in Switches, NEW x \in Xid PROVE BarrierOf(t, x)' /\ EchoOf(t, x)'
  <2>1. BarrierOf(t, x) /\ EchoOf(t, x)
    BY DEF IInv
  <2>2. EchoOf(t, x)'
    BY <1>1, <1>6, <1>10, <1>11, <2>1 DEF EchoOf
  <2>3. Times(toSwitch'[t], BarrierRequest(x)) + Times(toCtrl'[t], BarrierReply(x))
          = Times(toSwitch[t], BarrierRequest(x)) + Times(toCtrl[t], BarrierReply(x))
    <3>1. /\ Times(toSwitch[t], BarrierRequest(x)) \in Nat
          /\ Times(toSwitch'[t], BarrierRequest(x)) \in Nat
          /\ Times(toSwitch[t], BarrierRequest(x)) =
               Times(toSwitch'[t], BarrierRequest(x)) + (IF t = s /\ x = x0 THEN 1 ELSE 0)
      BY <1>3, <1>6
    <3>2. /\ Times(toCtrl[t], BarrierReply(x)) \in Nat
          /\ Times(toCtrl'[t], BarrierReply(x)) =
               Times(toCtrl[t], BarrierReply(x)) + (IF t = s /\ x = x0 THEN 1 ELSE 0)
      BY <1>6, <1>7
    <3> QED BY <3>1, <3>2
  <2>4. BarrierOf(t, x)'
    BY <1>1, <2>1, <2>3 DEF BarrierOf
  <2> QED BY <2>2, <2>4
<1>13. ASSUME NEW t \in Switches, NEW m \in Macs PROVE FlowOf(t, m)'
  <2>1. FlowOf(t, m)
    BY DEF IInv
  <2> QED BY <1>1, <1>6, <1>10, <1>11, <2>1 DEF FlowOf
<1>14. \A t \in Switches : ReadyOf(t)'
  <2>1. \A t \in Switches :
          /\ \A m \in ToSet(toSwitch'[t]) : m \in ToSet(toSwitch[t]) \/ m.type # "command"
          /\ \A m \in ToSet(toCtrl'[t]) : m \in ToSet(toCtrl[t]) \/ m.type # "packet_in"
    <3>1. /\ \A t \in Switches : ToSet(toSwitch'[t]) \subseteq ToSet(toSwitch[t])
          /\ \A t \in Switches : ToSet(toCtrl'[t]) \subseteq ToSet(toCtrl[t]) \cup {r}
      BY <1>3, <1>7
    <3> QED BY <1>5, <3>1
  <2> QED BY <1>1, <2>1, ReadyKept
<1> QED BY <1>8, <1>9, <1>12, <1>13, <1>14 DEF IInv

LEMMA KeepEchoRequest ==
  ASSUME IInv, NEW s \in Switches, HandleEchoRequest(s)
  PROVE  IInv'
<1> DEFINE h == Head(toSwitch[s])
           x0 == h.xid
           r == EchoReply(x0)
<1>1. /\ toSwitch[s] # << >> /\ h.type = "echo_request"
      /\ ReceiveFromController(s) /\ SendToController(s, r)
      /\ UNCHANGED <<accepted, registered, pending, barriers, echoes, xid, learned>>
      /\ UNCHANGED <<connected, refused, flows, executed, inputs>>
  BY DEF HandleEchoRequest, AtSwitch, switch, controller, EchoReply
<1>2. Channels
  BY DEF IInv
<1>3. /\ toSwitch' \in [Switches -> Seq(Sent)] /\ toSwitch' \in [Switches -> Seq(Request)]
      /\ h \in Sent /\ h \in ToSet(toSwitch[s])
      /\ \A t \in Switches : \A m :
           /\ Times(toSwitch[t], m) \in Nat /\ Times(toSwitch'[t], m) \in Nat
           /\ Times(toSwitch[t], m) = Times(toSwitch'[t], m) + (IF t = s /\ m = h THEN 1 ELSE 0)
      /\ \A t \in Switches : ToSet(toSwitch'[t]) \subseteq ToSet(toSwitch[t])
  BY <1>1, <1>2, SwitchTakes
<1>4. x0 \in Xid /\ h = EchoRequest(x0)
  BY <1>1, <1>3, MessageIs
<1> HIDE DEF h, x0
<1>5. r \in Report /\ r.type # "packet_in"
  BY <1>4, Messages, Kinds
<1>6. \A x : /\ EchoRequest(x) = h <=> x = x0
             /\ EchoReply(x) = r <=> x = x0
             /\ BarrierRequest(x) # h /\ BarrierReply(x) # r
             /\ Command(x) # h /\ FlowRemoved(x) # r /\ Hello # r
  BY <1>4, Kinds
<1> HIDE DEF r
<1>7. /\ toCtrl' \in [Switches -> Seq(Report)]
      /\ \A t \in Switches : \A m :
           /\ Times(toCtrl[t], m) \in Nat
           /\ Times(toCtrl'[t], m) = Times(toCtrl[t], m) + (IF t = s /\ m = r THEN 1 ELSE 0)
      /\ \A t \in Switches :
           ToSet(toCtrl'[t]) = IF t = s THEN ToSet(toCtrl[t]) \cup {r} ELSE ToSet(toCtrl[t])
  BY <1>1, <1>2, <1>5, ControllerGets
<1>8. TypeOK' /\ Channels'
  BY <1>1, <1>3, <1>7 DEF IInv, TypeOK, Channels
<1>9. Greetings'
  <2>1. \A t \in Switches : Times(toCtrl'[t], Hello) = Times(toCtrl[t], Hello)
    BY <1>6, <1>7
  <2> QED BY <1>1, <2>1, GreetingsKept, Numbers
<1>10. ASSUME NEW t \in Switches, NEW m, m # h PROVE Times(toSwitch'[t], m) = Times(toSwitch[t], m)
  <2>1. Times(toSwitch[t], m) = Times(toSwitch'[t], m) + 0
    BY <1>3, <1>10
  <2> QED BY <1>3, <2>1
<1>11. ASSUME NEW t \in Switches, NEW m, m # r PROVE Times(toCtrl'[t], m) = Times(toCtrl[t], m)
  BY <1>7, <1>11
<1>12. ASSUME NEW t \in Switches, NEW x \in Xid PROVE BarrierOf(t, x)' /\ EchoOf(t, x)'
  <2>1. BarrierOf(t, x) /\ EchoOf(t, x)
    BY DEF IInv
  <2>2. BarrierOf(t, x)'
    BY <1>1, <1>6, <1>10, <1>11, <2>1 DEF BarrierOf
  <2>3. Times(toSwitch'[t], EchoRequest(x)) + Times(toCtrl'[t], EchoReply(x))
          = Times(toSwitch[t], EchoRequest(x)) + Times(toCtrl[t], EchoReply(x))
    <3>1. /\ Times(toSwitch[t], EchoRequest(x)) \in Nat
          /\ Times(toSwitch'[t], EchoRequest(x)) \in Nat
          /\ Times(toSwitch[t], EchoRequest(x)) =
               Times(toSwitch'[t], EchoRequest(x)) + (IF t = s /\ x = x0 THEN 1 ELSE 0)
      BY <1>3, <1>6
    <3>2. /\ Times(toCtrl[t], EchoReply(x)) \in Nat
          /\ Times(toCtrl'[t], EchoReply(x)) =
               Times(toCtrl[t], EchoReply(x)) + (IF t = s /\ x = x0 THEN 1 ELSE 0)
      BY <1>6, <1>7
    <3> QED BY <3>1, <3>2
  <2>4. EchoOf(t, x)'
    BY <1>1, <2>1, <2>3 DEF EchoOf
  <2> QED BY <2>2, <2>4
<1>13. ASSUME NEW t \in Switches, NEW m \in Macs PROVE FlowOf(t, m)'
  <2>1. FlowOf(t, m)
    BY DEF IInv
  <2> QED BY <1>1, <1>6, <1>10, <1>11, <2>1 DEF FlowOf
<1>14. \A t \in Switches : ReadyOf(t)'
  <2>1. \A t \in Switches :
          /\ \A m \in ToSet(toSwitch'[t]) : m \in ToSet(toSwitch[t]) \/ m.type # "command"
          /\ \A m \in ToSet(toCtrl'[t]) : m \in ToSet(toCtrl[t]) \/ m.type # "packet_in"
    <3>1. /\ \A t \in Switches : ToSet(toSwitch'[t]) \subseteq ToSet(toSwitch[t])
          /\ \A t \in Switches : ToSet(toCtrl'[t]) \subseteq ToSet(toCtrl[t]) \cup {r}
      BY <1>3, <1>7
    <3> QED BY <1>5, <3>1
  <2> QED BY <1>1, <2>1, ReadyKept
<1> QED BY <1>8, <1>9, <1>12, <1>13, <1>14 DEF IInv

LEMMA KeepCommand ==
  ASSUME IInv, NEW s \in Switches, HandleCommand(s)
  PROVE  IInv'
<1> DEFINE h == Head(toSwitch[s])
           c == h.cmd
<1>1. /\ toSwitch[s] # << >> /\ h.type = "command" /\ ReceiveFromController(s)
      /\ executed' = [executed EXCEPT ![s] = Append(@, c)]
      /\ flows' = IF c \in Macs THEN [flows EXCEPT ![s][c] = @ + 1] ELSE flows
      /\ UNCHANGED <<accepted, registered, pending, barriers, echoes, xid, learned>>
      /\ UNCHANGED <<connected, refused, toCtrl, inputs>>
  BY DEF HandleCommand, AtSwitch, controller
<1>2. Channels
  BY DEF IInv
<1>3. /\ toSwitch' \in [Switches -> Seq(Sent)] /\ toSwitch' \in [Switches -> Seq(Request)]
      /\ h \in Sent /\ h \in ToSet(toSwitch[s])
      /\ \A t \in Switches : \A m :
           /\ Times(toSwitch[t], m) \in Nat /\ Times(toSwitch'[t], m) \in Nat
           /\ Times(toSwitch[t], m) = Times(toSwitch'[t], m) + (IF t = s /\ m = h THEN 1 ELSE 0)
      /\ \A t \in Switches : ToSet(toSwitch'[t]) \subseteq ToSet(toSwitch[t])
  BY <1>1, <1>2, SwitchTakes
<1>4. c \in Commands \ Unsupported /\ h = Command(c)
  BY <1>1, <1>3, MessageIs
<1>5. s \in registered
  <2>1. ReadyOf(s)
    BY DEF IInv
  <2> QED BY <1>1, <1>3, <2>1 DEF ReadyOf
<1> HIDE DEF h, c
<1>6. \A x : /\ BarrierRequest(x) # h /\ EchoRequest(x) # h
             /\ Command(x) = h <=> x = c
  BY <1>4, Kinds
<1>7. ASSUME NEW t \in Switches, NEW m, m # h PROVE Times(toSwitch'[t], m) = Times(toSwitch[t], m)
  <2>1. Times(toSwitch[t], m) = Times(toSwitch'[t], m) + 0
    BY <1>3, <1>7
  <2> QED BY <1>3, <2>1
\* A flow of the table comes from one command: there is no second one.
<1>8. ASSUME NEW t \in Switches, NEW m \in Macs
      PROVE  /\ flows'[t][m] = flows[t][m] + (IF t = s /\ m = c THEN 1 ELSE 0)
             /\ flows'[t][m] \in 0 .. 1 /\ FlowOf(t, m)'
  <2>1. FlowOf(t, m)
    BY DEF IInv
  <2>2. /\ Times(toSwitch[t], Command(m)) \in Nat /\ Times(toSwitch'[t], Command(m)) \in Nat
        /\ Times(toSwitch[t], Command(m)) =
             Times(toSwitch'[t], Command(m)) + (IF t = s /\ m = c THEN 1 ELSE 0)
    BY <1>3, <1>6
  <2>3. Times(toCtrl[t], FlowRemoved(m)) \in Nat
    BY Numbers
  <2>4. flows[t][m] \in 0 .. 1 /\ flows \in [Switches -> [Macs -> 0 .. 1]]
    BY DEF IInv, TypeOK
  <2>5. flows'[t][m] = flows[t][m] + (IF t = s /\ m = c THEN 1 ELSE 0)
    BY <1>1, <2>4
  <2>6. FlowOf(t, m)'
    BY <1>1, <2>1, <2>2, <2>3, <2>4, <2>5 DEF FlowOf
  <2>7. flows'[t][m] \in 0 .. 1
    <3>1. Times(toSwitch'[t], Command(m)) + flows'[t][m] + Times(toCtrl[t], FlowRemoved(m))
            = IF m \in learned[t] THEN 1 ELSE 0
      BY <1>1, <2>6 DEF FlowOf
    <3>2. flows'[t][m] \in Nat
      BY <2>4, <2>5
    <3>3. \A i \in Nat, j \in Nat, k \in Nat :
            i + j + k = 1 \/ i + j + k = 0 => j = 0 \/ j = 1
      OBVIOUS
    <3>4. flows'[t][m] = 0 \/ flows'[t][m] = 1
      BY <2>2, <2>3, <3>1, <3>2, <3>3
    <3> QED BY <3>4
  <2> QED BY <2>5, <2>6, <2>7
<1>9. flows' \in [Switches -> [Macs -> 0 .. 1]]
  <2>1. /\ DOMAIN flows' = Switches /\ \A t \in Switches : DOMAIN flows'[t] = Macs
        /\ flows' = [t \in Switches |-> flows'[t]]
        /\ \A t \in Switches : flows'[t] = [m \in Macs |-> flows'[t][m]]
    BY <1>1 DEF IInv, TypeOK
  <2>2. \A t \in Switches : flows'[t] \in [Macs -> 0 .. 1]
    BY <1>8, <2>1
  <2> QED BY <2>1, <2>2
<1>10. executed' \in [Switches -> Seq(Commands \ Unsupported)]
  BY <1>1, <1>4 DEF IInv, TypeOK
<1>11. TypeOK' /\ Channels'
  BY <1>1, <1>3, <1>9, <1>10 DEF IInv, TypeOK, Channels
<1>12. Greetings'
  BY <1>1, GreetingsKept, Numbers
<1>13. ASSUME NEW t \in Switches, NEW x \in Xid PROVE BarrierOf(t, x)' /\ EchoOf(t, x)'
  <2>1. BarrierOf(t, x) /\ EchoOf(t, x)
    BY DEF IInv
  <2>2. /\ Times(toSwitch'[t], BarrierRequest(x)) = Times(toSwitch[t], BarrierRequest(x))
        /\ Times(toSwitch'[t], EchoRequest(x)) = Times(toSwitch[t], EchoRequest(x))
    BY <1>6, <1>7
  <2> QED BY <1>1, <2>1, <2>2 DEF BarrierOf, EchoOf
<1>14. \A t \in Switches : ReadyOf(t)'
  <2>1. \A t \in Switches :
          /\ \A m \in ToSet(toSwitch'[t]) : m \in ToSet(toSwitch[t]) \/ m.type # "command"
          /\ \A m \in ToSet(toCtrl'[t]) : m \in ToSet(toCtrl[t]) \/ m.type # "packet_in"
    BY <1>1, <1>3
  <2>2. \A t \in Switches \ {s} : executed'[t] = executed[t]
    BY <1>1 DEF IInv, TypeOK
  <2> QED BY <1>1, <1>5, <2>1, <2>2, ReadyKept
<1> QED BY <1>8, <1>11, <1>12, <1>13, <1>14 DEF IInv

LEMMA KeepPacketReport ==
  ASSUME IInv, NEW s \in Switches, NEW m0 \in Macs, PacketIn(s, m0)
  PROVE  IInv'
<1> DEFINE r == PacketInOf(m0)
<1>1. /\ inputs < MaxInputs /\ inputs' = inputs + 1
      /\ "table_miss" \in Range(executed[s]) /\ SendToController(s, r)
      /\ UNCHANGED <<accepted, registered, pending, barriers, echoes, xid, learned>>
      /\ UNCHANGED <<connected, refused, flows, executed, toSwitch>>
  BY DEF PacketIn, Input, PacketInOf, switch, controller
<1>2. Channels /\ r \in Report /\ r.type = "packet_in" /\ Hello # r
  BY Messages, Kinds DEF IInv
<1>3. s \in registered
  <2>1. ReadyOf(s)
    BY DEF IInv
  <2>2. executed[s] # << >>
    BY <1>1 DEF Range
  <2> QED BY <2>1, <2>2 DEF ReadyOf
<1> HIDE DEF r
<1>4. /\ toCtrl' \in [Switches -> Seq(Report)]
      /\ \A t \in Switches : \A m :
           /\ Times(toCtrl[t], m) \in Nat
           /\ Times(toCtrl'[t], m) = Times(toCtrl[t], m) + (IF t = s /\ m = r THEN 1 ELSE 0)
      /\ \A t \in Switches :
           ToSet(toCtrl'[t]) = IF t = s THEN ToSet(toCtrl[t]) \cup {r} ELSE ToSet(toCtrl[t])
  BY <1>1, <1>2, ControllerGets
<1>5. SameRequests /\ SameReports
  BY <1>1, <1>2, QuietReported DEF SameRequests
<1>6. /\ inputs' \in 0 .. MaxInputs /\ xid' \in Nat /\ inputs' \in Nat
      /\ xid' + inputs <= xid + inputs'
  BY <1>1, Numbers
<1>7. TypeOK' /\ Channels'
  BY <1>1, <1>4, <1>6 DEF IInv, TypeOK, Channels
<1>8. Greetings'
  <2>1. \A t \in Switches : Times(toCtrl'[t], Hello) = Times(toCtrl[t], Hello)
    BY <1>2, <1>4
  <2> QED BY <1>1, <1>6, <2>1, GreetingsKept
<1>9. \A t \in Switches : ReadyOf(t)'
  <2>1. \A t \in Switches : t # s \/ s \notin registered =>
          /\ \A m \in ToSet(toSwitch'[t]) : m \in ToSet(toSwitch[t]) \/ m.type # "command"
          /\ \A m \in ToSet(toCtrl'[t]) : m \in ToSet(toCtrl[t]) \/ m.type # "packet_in"
    BY <1>1, <1>3, <1>4
  <2> QED BY <1>1, <2>1, ReadyKept
<1> QED BY <1>1, <1>5, <1>7, <1>8, <1>9, CountsKept DEF IInv

LEMMA KeepFlowTimeout ==
  ASSUME IInv, NEW s \in Switches, NEW m0 \in Macs, FlowTimeout(s, m0)
  PROVE  IInv'
<1> DEFINE r == FlowRemoved(m0)
<1>1. /\ flows[s][m0] > 0 /\ flows' = [flows EXCEPT ![s][m0] = @ - 1]
      /\ SendToController(s, r)
      /\ UNCHANGED <<accepted, registered, pending, barriers, echoes, xid, learned>>
      /\ UNCHANGED <<connected, refused, executed, toSwitch, inputs>>
  BY DEF FlowTimeout, FlowRemoved, controller
<1>2. Channels /\ r \in Report /\ r.type = "flow_removed" /\ Hello # r
  BY Messages, Kinds DEF IInv
<1>3. \A x : /\ BarrierReply(x) # r /\ EchoReply(x) # r
             /\ FlowRemoved(x) = r <=> x = m0
  BY Kinds
<1> HIDE DEF r
<1>4. /\ toCtrl' \in [Switches -> Seq(Report)]
      /\ \A t \in Switches : \A m :
           /\ Times(toCtrl[t], m) \in Nat
           /\ Times(toCtrl'[t], m) = Times(toCtrl[t], m) + (IF t = s /\ m = r THEN 1 ELSE 0)
      /\ \A t \in Switches :
           ToSet(toCtrl'[t]) = IF t = s THEN ToSet(toCtrl[t]) \cup {r} ELSE ToSet(toCtrl[t])
  BY <1>1, <1>2, ControllerGets
<1>5. flows \in [Switches -> [Macs -> 0 .. 1]] /\ flows[s][m0] = 1
  BY <1>1 DEF IInv, TypeOK
<1>6. /\ flows' \in [Switches -> [Macs -> 0 .. 1]]
      /\ \A t \in Switches, m \in Macs :
           flows'[t][m] = IF t = s /\ m = m0 THEN 0 ELSE flows[t][m]
  BY <1>1, <1>5
<1>7. TypeOK' /\ Channels'
  BY <1>1, <1>4, <1>6 DEF IInv, TypeOK, Channels
<1>8. Greetings'
  <2>1. \A t \in Switches : Times(toCtrl'[t], Hello) = Times(toCtrl[t], Hello)
    BY <1>2, <1>4
  <2> QED BY <1>1, <2>1, GreetingsKept, Numbers
<1>9. ASSUME NEW t \in Switches, NEW x \in Xid PROVE BarrierOf(t, x)' /\ EchoOf(t, x)'
  <2>1. BarrierOf(t, x) /\ EchoOf(t, x)
    BY DEF IInv
  <2>2. /\ Times(toCtrl'[t], BarrierReply(x)) = Times(toCtrl[t], BarrierReply(x))
        /\ Times(toCtrl'[t], EchoReply(x)) = Times(toCtrl[t], EchoReply(x))
    BY <1>3, <1>4
  <2> QED BY <1>1, <2>1, <2>2 DEF BarrierOf, EchoOf
<1>10. ASSUME NEW t \in Switches, NEW m \in Macs PROVE FlowOf(t, m)'
  <2>1. FlowOf(t, m)
    BY DEF IInv
  <2>2. /\ Times(toSwitch[t], Command(m)) \in Nat /\ flows[t][m] \in 0 .. 1
        /\ Times(toCtrl[t], FlowRemoved(m)) \in Nat
    BY Numbers
  <2>3. Times(toCtrl'[t], FlowRemoved(m)) =
          Times(toCtrl[t], FlowRemoved(m)) + (IF t = s /\ m = m0 THEN 1 ELSE 0)
    BY <1>3, <1>4
  <2>4. flows'[t][m] = IF t = s /\ m = m0 THEN 0 ELSE flows[t][m]
    BY <1>6
  <2> QED BY <1>1, <1>5, <2>1, <2>2, <2>3, <2>4 DEF FlowOf
<1>11. \A t \in Switches : ReadyOf(t)'
  <2>1. \A t \in Switches :
          /\ \A m \in ToSet(toSwitch'[t]) : m \in ToSet(toSwitch[t]) \/ m.type # "command"
          /\ \A m \in ToSet(toCtrl'[t]) : m \in ToSet(toCtrl[t]) \/ m.type # "packet_in"
    BY <1>1, <1>2, <1>4
  <2> QED BY <1>1, <2>1, ReadyKept
<1> QED BY <1>7, <1>8, <1>9, <1>10, <1>11 DEF IInv

------------------------------------------------------------------------------
(* The invariant holds *)

LEMMA InitHolds == Init => IInv
<1> SUFFICES ASSUME Init PROVE IInv
  OBVIOUS
<1>1. IsFiniteSet(Switches) /\ Cardinality(Switches) \in Nat /\ MaxInputs \in Nat
  BY ChannelAssumption, FS_CardinalityType
<1>2. TypeOK
  <2>1. xid \in Xid /\ inputs \in 0 .. MaxInputs
    BY <1>1 DEF Init, Xid
  <2>2. DOMAIN << >> = {} /\ Range(<< >>) = {}
    BY DEF Range
  <2>3. flows \in [Switches -> [Macs -> 0 .. 1]]
    BY DEF Init
  <2>4. /\ pending \in [Switches -> Seq(UserCommands)]
        /\ executed \in [Switches -> Seq(Commands \ Unsupported)]
        /\ toSwitch \in [Switches -> Seq(Request)] /\ toCtrl \in [Switches -> Seq(Report)]
    BY DEF Init
  <2> QED BY <2>1, <2>2, <2>3, <2>4 DEF Init, TypeOK
<1>3. Channels
  BY DEF Init, Channels
<1>4. \A t \in Switches : toSwitch[t] = << >> /\ toCtrl[t] = << >>
  BY DEF Init
<1>5. \A t \in Switches : \A m : Times(toSwitch[t], m) = 0 /\ Times(toCtrl[t], m) = 0
  BY <1>4, TimesEmpty
<1>6. Greetings
  <2>1. Greeted = {}
    BY DEF Greeted, Init
  <2>2. Cardinality(Greeted) = 0
    BY <2>1, FS_EmptySet
  <2>3. xid = 0 /\ inputs = 0 /\ connected = {}
    BY DEF Init
  <2> QED BY <1>5, <2>2, <2>3 DEF Greetings
<1>7. ASSUME NEW t \in Switches, NEW x \in Xid PROVE BarrierOf(t, x) /\ EchoOf(t, x)
  <2>1. x \notin DOMAIN barriers /\ x \notin DOMAIN echoes
    BY DEF Init
  <2> QED BY <1>5, <2>1 DEF BarrierOf, EchoOf
<1>8. ASSUME NEW t \in Switches, NEW m \in Macs PROVE FlowOf(t, m)
  <2>1. flows[t][m] = 0 /\ learned[t] = {}
    BY DEF Init
  <2> QED BY <1>5, <2>1 DEF FlowOf
<1>9. ASSUME NEW t \in Switches PROVE ReadyOf(t)
  <2>1. ToSet(<< >>) = {}
    BY DEF ToSet
  <2> QED BY <1>4, <2>1 DEF Init, ReadyOf
<1> QED BY <1>2, <1>3, <1>6, <1>7, <1>8, <1>9 DEF IInv

LEMMA StepHolds == IInv /\ [Next]_vars => IInv'
<1> SUFFICES ASSUME IInv, [Next]_vars PROVE IInv'
  OBVIOUS
<1>1. ASSUME NEW s \in Switches, Connection(s) PROVE IInv'
  BY <1>1, KeepSucceeded, KeepFailed, KeepAccept DEF Connection
<1>2. ASSUME NEW s \in Switches, HandleSwitchMsg(s) PROVE IInv'
  BY <1>2, KeepHello, KeepFeaturesReply, KeepBarrierReply, KeepEchoReply, KeepPacketIn,
     KeepFlowRemoved DEF HandleSwitchMsg
<1>3. ASSUME NEW s \in Switches, HandleControlMsg(s) PROVE IInv'
  BY <1>3, KeepOther, KeepFeaturesRequest, KeepBarrierRequest, KeepEchoRequest, KeepCommand
     DEF HandleControlMsg
<1>4. CASE UNCHANGED vars
  <2>1. /\ UNCHANGED <<accepted, registered, pending, barriers, echoes, xid, learned>>
        /\ UNCHANGED <<connected, refused, flows, executed, toSwitch, toCtrl, inputs>>
    BY <1>4 DEF vars, controller, switch
  <2>2. TypeOK' /\ Channels'
    BY <2>1 DEF IInv, TypeOK, Channels
  <2>3. Greetings'
    BY <2>1, GreetingsKept, Numbers
  <2>4. SameRequests /\ SameReports
    BY <2>1 DEF SameRequests, SameReports
  <2>5. ASSUME NEW t \in Switches PROVE ReadyOf(t)'
    BY <2>1 DEF IInv, ReadyOf
  <2> QED BY <2>1, <2>2, <2>3, <2>4, <2>5, CountsKept DEF IInv
<1> QED BY <1>1, <1>2, <1>3, <1>4, KeepSendEcho, KeepDpctl, KeepPacketReport, KeepFlowTimeout
    DEF Next

LEMMA Invariance == Spec => []IInv
BY InitHolds, StepHolds, PTL DEF Spec

\* Every message, map and counter stays in its range: ids do not run out of the
\* numbers that the bound on inputs allows, and no address ever gets two flows.
THEOREM TypeCorrect == Spec => []TypeOK
<1>1. IInv => TypeOK
  BY DEF IInv
<1> QED BY <1>1, Invariance, PTL

\* The controller waits for a barrier or an echo exactly as long as the request or
\* the reply is under way with the switch it was sent to, for any switches and any
\* number of echoes: no reply is unknown, and no entry stays behind.
THEOREM RepliesExpected == Spec => []RepliesAreExpected
<1>1. IInv => RepliesAreExpected
  BY Counted
<1> QED BY <1>1, Invariance, PTL

\* The controller knows an address exactly as long as there is one flow for it, in
\* the table, on its way there, or removed and being reported.
THEOREM KnownAddresses == Spec => []KnownMeansOneFlow
<1>1. IInv => KnownMeansOneFlow
  BY Counted
<1> QED BY <1>1, Invariance, PTL
------------------------------------------------------------------------------
(* Commands reach their switch in order: the queue of the abstract            *)
(* specification is the commands in the channel and those that wait.          *)

\* Messages that are no commands add none.
LEMMA NoCommands ==
  ASSUME NEW ms \in Seq(Sent), \A r \in ToSet(ms) : r.type # "command"
  PROVE  CommandsIn(ms) = << >>
<1> DEFINE C == {Command(c) : c \in Commands}
           A == {r \in Request : r.type # "command"}
<1>1. ms \in Seq(A)
  <2>1. \A i \in DOMAIN ms : ms[i] \in A
    BY DEF ToSet, Sent
  <2> QED BY <2>1
<1>2. A \cap C = {}
  BY Kinds
<1> HIDE DEF A, C
<1>3. Only(ms, C) \in Seq(A \cap C)
  BY <1>1, OnlyType
<1>4. Only(ms, C) = << >>
  BY <1>2, <1>3, EmptySeq
<1>5. CommandsIn(ms) = Names(Only(ms, C))
  BY DEF CommandsIn, Names, C
<1>6. Names(<< >>) = << >>
  BY DEF Names
<1> QED BY <1>4, <1>5, <1>6

\* The queue of the abstract specification is a list of commands.
LEMMA QueueTypes ==
  ASSUME IInv, NEW t \in Switches
  PROVE  /\ toSwitch[t] \in Seq(Request) /\ toSwitch[t] \in Seq(Sent)
         /\ CommandsIn(toSwitch[t]) \in Seq(Commands)
         /\ pending[t] \in Seq(UserCommands) /\ Supported(pending[t]) \in Seq(Commands)
         /\ Unexecuted(t) \in Seq(Commands)
<1>1. /\ toSwitch[t] \in Seq(Request) /\ pending[t] \in Seq(UserCommands)
      /\ toSwitch[t] \in Seq(Sent)
  BY DEF IInv, TypeOK, Channels
<1>2. [type |-> "hello"] \in Request
  BY DEF Request
<1>3. CommandsIn(toSwitch[t]) \in Seq(Commands)
  BY <1>1, <1>2, CommandsAppend
<1>4. Supported(pending[t]) \in Seq(Commands)
  <2>1. Supported(pending[t]) \in Seq(UserCommands \ Unsupported)
    BY <1>1, SupportedType
  <2>2. \A c \in UserCommands \ Unsupported : c \in Commands
    BY DEF Commands
  <2> QED BY <2>1, <2>2
<1>5. Unexecuted(t) \in Seq(Commands)
  BY <1>3, <1>4 DEF Unexecuted
<1> QED BY <1>1, <1>3, <1>4, <1>5

\* Requests sent add their commands to those in the channel.
LEMMA SentCommands ==
  ASSUME IInv, NEW s \in Switches, NEW ms \in Seq(Sent), SendToSwitch(s, ms)
  PROVE  /\ CommandsIn(toSwitch'[s]) = CommandsIn(toSwitch[s]) \o CommandsIn(ms)
         /\ CommandsIn(ms) \in Seq(Commands)
         /\ \A t \in Switches \ {s} : toSwitch'[t] = toSwitch[t]
<1> DEFINE q == toSwitch[s]
           r == q \o ms
<1>1. /\ q \in Seq(Request) /\ ms \in Seq(Request) /\ toSwitch'[s] = r
      /\ \A t \in Switches \ {s} : toSwitch'[t] = toSwitch[t]
  BY SentAreRequests DEF IInv, TypeOK, SendToSwitch
<1>2. [type |-> "hello"] \in Request
  BY DEF Request
<1>3. CommandsIn(ms) \in Seq(Commands)
  BY <1>1, <1>2, CommandsAppend
<1>4. CommandsIn(r) = CommandsIn(q) \o CommandsIn(ms)
  <2> HIDE DEF q
  <2> QED BY <1>1, CommandsConcat
<1> HIDE DEF r
<1>5. CommandsIn(toSwitch'[s]) = CommandsIn(r)
  BY <1>1
<1> QED BY <1>1, <1>3, <1>4, <1>5

\* A list is the beginning of a concatenation with it.
LEMMA PrefixOfConcat ==
  ASSUME NEW A, NEW a \in Seq(A), NEW b \in Seq(A)
  PROVE  Len(a) <= Len(a \o b) /\ SubSeq(a, 1, Len(a)) = SubSeq(a \o b, 1, Len(a))
<1> DEFINE c == a \o b
<1>1. /\ Len(a) \in Nat /\ Len(b) \in Nat /\ Len(c) = Len(a) + Len(b) /\ c \in Seq(A)
      /\ \A i \in 1 .. Len(a) : c[i] = a[i]
  OBVIOUS
<1> HIDE DEF c
<1>2. Len(a) <= Len(c)
  BY <1>1
<1>3. /\ SubSeq(a, 1, Len(a)) = [i \in 1 .. Len(a) |-> a[i]]
      /\ SubSeq(c, 1, Len(a)) = [i \in 1 .. Len(a) |-> c[i]]
  BY <1>1, <1>2
<1>4. SubSeq(a, 1, Len(a)) = SubSeq(c, 1, Len(a))
  BY <1>1, <1>3
<1> QED BY <1>2, <1>4 DEF c

\* A step that puts commands behind those of one switch.
LEMMA Grows ==
  ASSUME IInv, NEW s \in Switches, NEW e \in Seq(Commands), executed' = executed,
         Unexecuted(s)' = Unexecuted(s) \o e,
         \A t \in Switches \ {s} : Unexecuted(t)' = Unexecuted(t)
  PROVE  Promise!Issue(s)
<1> DEFINE u == Unexecuted(s)
           v == Unexecuted(s)'
<1>1. u \in Seq(Commands) /\ v = u \o e
  BY QueueTypes
<1> HIDE DEF u
<1>2. Len(u) <= Len(u \o e) /\ SubSeq(u, 1, Len(u)) = SubSeq(u \o e, 1, Len(u))
  BY <1>1, PrefixOfConcat
<1>3. Promise!IsPrefix(u, v)
  <2> HIDE DEF v
  <2> QED BY <1>1, <1>2 DEF Promise!IsPrefix
<1>4. [t \in Switches |-> Unexecuted(t)']
        = [[t \in Switches |-> Unexecuted(t)] EXCEPT ![s] = Unexecuted(s)']
  OBVIOUS
<1> QED BY <1>3, <1>4 DEF Promise!Issue, u, v

LEMMA DpctlRefines ==
  ASSUME IInv, NEW s \in Switches, NEW c \in UserCommands, DpctlExecute(s, c)
  PROVE  Promise!Issue(s)
<1>1. executed' = executed
  BY DEF DpctlExecute, switch
<1>2. CASE s \in registered /\ SendToSwitch(s, AsMessages(Supported(<<c>>))) /\ pending' = pending
  <2> DEFINE k == <<c>>
             A == UserCommands \ Unsupported
             cs == Supported(k)
  <2>1. k \in Seq(UserCommands)
    OBVIOUS
  <2> HIDE DEF k
  <2>2. cs \in Seq(A)
    BY <2>1, SupportedType
  <2>3. A \in SUBSET (Commands \ Unsupported) /\ A \in SUBSET Commands
    BY DEF Commands
  <2> HIDE DEF A, cs
  <2> DEFINE ms == AsMessages(cs)
  <2>4. ms \in Seq(Sent)
    BY <2>2, <2>3, CommandMessages
  <2>5. CommandsIn(ms) = cs
    BY <2>2, <2>3, MessagesOf
  <2>6. SendToSwitch(s, ms)
    BY <1>2 DEF cs, k
  <2> HIDE DEF ms
  <2>7. /\ CommandsIn(toSwitch'[s]) = CommandsIn(toSwitch[s]) \o cs /\ cs \in Seq(Commands)
        /\ \A t \in Switches \ {s} : toSwitch'[t] = toSwitch[t]
    BY <2>4, <2>5, <2>6, SentCommands
  <2>8. pending[s] = << >> /\ Supported(<< >>) = << >>
    BY <1>2, <2>1, SupportedType DEF IInv, ReadyOf
  <2>9. /\ CommandsIn(toSwitch[s]) \in Seq(Commands)
        /\ CommandsIn(toSwitch[s]) \o cs \in Seq(Commands)
    BY <2>7, QueueTypes
  <2>10. Unexecuted(s)' = CommandsIn(toSwitch'[s]) \o << >> /\ Unexecuted(s) = CommandsIn(toSwitch[s]) \o << >>
    BY <1>2, <2>8 DEF Unexecuted
  <2>11. Unexecuted(s)' = Unexecuted(s) \o cs
    BY <2>7, <2>9, <2>10
  <2>12. \A t \in Switches \ {s} : Unexecuted(t)' = Unexecuted(t)
    BY <1>2, <2>7 DEF Unexecuted
  <2> QED BY <1>1, <2>7, <2>11, <2>12, Grows
<1>3. CASE /\ s \notin registered /\ toSwitch' = toSwitch
           /\ pending' = [pending EXCEPT ![s] = Append(@, c)]
  <2> DEFINE p == pending[s]
             q == CommandsIn(toSwitch[s])
             e == IF c \in Unsupported THEN << >> ELSE <<c>>
  <2>1. /\ p \in Seq(UserCommands) /\ q \in Seq(Commands) /\ Supported(p) \in Seq(Commands)
        /\ e \in Seq(Commands)
    <3>1. c \in Commands
      BY DEF Commands
    <3>2. p \in Seq(UserCommands) /\ q \in Seq(Commands) /\ Supported(p) \in Seq(Commands)
      BY QueueTypes
    <3> QED BY <3>1, <3>2
  <2>2. pending'[s] = Append(p, c) /\ \A t \in Switches \ {s} : pending'[t] = pending[t]
    BY <1>3 DEF IInv, TypeOK
  <2>3. Unexecuted(s)' = q \o Supported(Append(p, c)) /\ Unexecuted(s) = q \o Supported(p)
    BY <1>3, <2>2 DEF Unexecuted
  <2> HIDE DEF p, q
  <2>4. Supported(Append(p, c)) = IF c \in Unsupported THEN Supported(p) ELSE Append(Supported(p), c)
    BY <2>1, SupportedFacts
  <2>5. q \o Supported(Append(p, c)) = (q \o Supported(p)) \o e
    <3> DEFINE u == Supported(p)
    <3>1. u \in Seq(Commands)
      BY <2>1
    <3> HIDE DEF u
    <3>2. CASE c \in Unsupported
      <4>1. (q \o u) \o << >> = q \o u
        BY <2>1, <3>1
      <4> QED BY <2>4, <3>2, <4>1 DEF u
    <3>3. CASE c \notin Unsupported
      <4>1. c \in Commands
        BY DEF Commands
      <4>2. q \o Append(u, c) = Append(q \o u, c) /\ q \o u \in Seq(Commands)
        BY <2>1, <3>1, <4>1, ConcatSteps
      <4>3. Append(q \o u, c) = (q \o u) \o <<c>>
        BY <4>1, <4>2, ConcatSteps
      <4> QED BY <2>4, <3>3, <4>2, <4>3 DEF u
    <3> QED BY <3>2, <3>3
  <2>6. \A t \in Switches \ {s} : Unexecuted(t)' = Unexecuted(t)
    BY <1>3, <2>2 DEF Unexecuted
  <2> HIDE DEF e
  <2> QED BY <1>1, <2>1, <2>3, <2>5, <2>6, Grows
<1> QED BY <1>2, <1>3 DEF DpctlExecute

\* The commands that waited are sent, and those of the handshake behind them.
LEMMA HandshakeRefines ==
  ASSUME IInv, NEW s \in Switches, HandleFeaturesReply(s)
  PROVE  Promise!Issue(s)
<1> DEFINE A == (UserCommands \cup Range(Setup)) \ Unsupported
           w == Supported(pending[s])
           cs == AtHandshake(s)
<1>1. /\ executed' = executed /\ pending' = [pending EXCEPT ![s] = << >>]
      /\ SendToSwitch(s, AsMessages(cs))
  BY DEF HandleFeaturesReply, Drained, switch
<1>2. /\ cs \in Seq(A) /\ A \in SUBSET (Commands \ Unsupported) /\ A \in SUBSET Commands
      /\ cs = w \o Setup /\ Setup \in Seq(Commands) /\ w \in Seq(Commands)
  <2>1. cs \in Seq(A) /\ cs = w \o Setup
    BY HandshakeCommands DEF AtHandshake
  <2>2. A \in SUBSET (Commands \ Unsupported) /\ A \in SUBSET Commands
    BY DEF Commands
  <2>3. Setup \in Seq(Commands)
    BY DEF Setup, Commands, Range
  <2>4. w \in Seq(Commands)
    BY QueueTypes
  <2> QED BY <2>1, <2>2, <2>3, <2>4
<1> HIDE DEF A, w, cs
<1> DEFINE ms == AsMessages(cs)
<1>3. ms \in Seq(Sent)
  BY <1>2, CommandMessages
<1>4. CommandsIn(ms) = cs
  BY <1>2, MessagesOf
<1>5. SendToSwitch(s, ms)
  BY <1>1
<1> HIDE DEF ms
<1>6. /\ CommandsIn(toSwitch'[s]) = CommandsIn(toSwitch[s]) \o cs
      /\ \A t \in Switches \ {s} : toSwitch'[t] = toSwitch[t]
  BY <1>3, <1>4, <1>5, SentCommands
<1>7. pending'[s] = << >> /\ \A t \in Switches \ {s} : pending'[t] = pending[t]
  BY <1>1 DEF IInv, TypeOK
<1>8. Supported(<< >>) = << >>
  BY QueueTypes, SupportedType
<1> DEFINE q == CommandsIn(toSwitch[s])
<1>9. q \in Seq(Commands)
  BY QueueTypes
<1>10. Unexecuted(s)' = CommandsIn(toSwitch'[s]) \o << >> /\ Unexecuted(s) = q \o w
  BY <1>7, <1>8 DEF Unexecuted, w
<1>11. CommandsIn(toSwitch'[s]) = q \o (w \o Setup)
  BY <1>2, <1>6
<1> HIDE DEF q
<1>12. (q \o (w \o Setup)) \o << >> = (q \o w) \o Setup
  <2> DEFINE k == Setup
  <2>1. k \in Seq(Commands)
    BY <1>2
  <2> HIDE DEF k
  <2>2. q \o (w \o k) = (q \o w) \o k /\ (q \o w) \o k \in Seq(Commands)
    BY <1>2, <1>9, <2>1
  <2>3. ((q \o w) \o k) \o << >> = (q \o w) \o k
    BY <2>2, ConcatSteps
  <2> QED BY <2>2, <2>3 DEF k
<1>13. Unexecuted(s)' = Unexecuted(s) \o Setup
  BY <1>10, <1>11, <1>12
<1>14. \A t \in Switches \ {s} : Unexecuted(t)' = Unexecuted(t)
  BY <1>6, <1>7 DEF Unexecuted
<1> QED BY <1>1, <1>2, <1>13, <1>14, Grows

\* An address that is learned: its flow is a command behind the others, and none
\* waits, for a switch that reports packets is registered.
LEMMA LearningRefines ==
  ASSUME IInv, NEW s \in Switches, HandlePacketIn(s)
  PROVE  Promise!Issue(s)
<1> DEFINE h == Head(toCtrl[s])
           new == IF h.mac \in learned[s] THEN << >> ELSE <<h.mac>>
           po == [type |-> "packet_out"]
           cs == AsMessages(new)
           ms == Append(cs, po)
<1>1. /\ toCtrl[s] # << >> /\ h.type = "packet_in" /\ SendToSwitch(s, ms)
      /\ executed' = executed /\ pending' = pending
  BY DEF HandlePacketIn, AtController, switch
<1>2. h \in Report /\ h \in ToSet(toCtrl[s])
  <2>1. Channels /\ ReceiveFromSwitch(s)
    BY DEF IInv, HandlePacketIn
  <2> QED BY <1>1, <2>1, ControllerTakes
<1>3. h.mac \in Macs
  BY <1>1, <1>2, MessageIs
<1>4. pending[s] = << >>
  <2>1. ReadyOf(s)
    BY DEF IInv
  <2> QED BY <1>1, <1>2, <2>1 DEF ReadyOf
<1>5. new \in Seq(Macs) /\ Macs \in SUBSET (Commands \ Unsupported)
  <2>1. new \in Seq(Macs)
    BY <1>3
  <2>2. Macs \in SUBSET (Commands \ Unsupported)
    BY ChannelAssumption DEF Commands
  <2> QED BY <2>1, <2>2
<1> HIDE DEF h, new
<1>6. cs \in Seq(Sent)
  BY <1>5, CommandMessages
<1>7. po \in Sent
  BY Messages
<1>8. ms \in Seq(Sent)
  <2> HIDE DEF cs, po
  <2> QED BY <1>6, <1>7
<1> HIDE DEF ms
<1>9. /\ CommandsIn(toSwitch'[s]) = CommandsIn(toSwitch[s]) \o CommandsIn(ms)
      /\ CommandsIn(ms) \in Seq(Commands)
      /\ \A t \in Switches \ {s} : toSwitch'[t] = toSwitch[t]
  BY <1>1, <1>8, SentCommands
<1> DEFINE q == CommandsIn(toSwitch[s])
           e == CommandsIn(ms)
<1>10. q \in Seq(Commands) /\ e \in Seq(Commands) /\ q \o e \in Seq(Commands)
  BY <1>9, QueueTypes
<1>11. Supported(<< >>) = << >>
  BY QueueTypes, SupportedType
<1>12. Unexecuted(s)' = CommandsIn(toSwitch'[s]) \o << >> /\ Unexecuted(s) = q \o << >>
  BY <1>1, <1>4, <1>11 DEF Unexecuted
<1>13. CommandsIn(toSwitch'[s]) = q \o e
  BY <1>9
<1> HIDE DEF q, e
<1>14. Unexecuted(s)' = Unexecuted(s) \o e
  <2>1. (q \o e) \o << >> = q \o e /\ q \o << >> = q
    BY <1>10
  <2> QED BY <1>12, <1>13, <2>1
<1>15. \A t \in Switches \ {s} : Unexecuted(t)' = Unexecuted(t)
  BY <1>1, <1>9 DEF Unexecuted
<1> QED BY <1>1, <1>10, <1>14, <1>15, Grows

\* Steps that send no command, and take none.
LEMMA QuietRefines ==
  ASSUME IInv, executed' = executed, pending' = pending,
         \/ toSwitch' = toSwitch
         \/ \E s \in Switches, ms \in Seq(Sent) :
              SendToSwitch(s, ms) /\ \A r \in ToSet(ms) : r.type # "command"
         \/ \E s \in Switches : /\ toSwitch[s] # << >> /\ Head(toSwitch[s]).type # "command"
                              /\ ReceiveFromController(s)
  PROVE  UNCHANGED Promise!commands
<1> SUFFICES ASSUME NEW t \in Switches PROVE Unexecuted(t)' = Unexecuted(t)
  BY DEF Promise!commands
<1>1. CASE toSwitch' = toSwitch
  BY <1>1 DEF Unexecuted
<1>2. ASSUME NEW s \in Switches, NEW ms \in Seq(Sent), SendToSwitch(s, ms),
             \A r \in ToSet(ms) : r.type # "command"
      PROVE  Unexecuted(t)' = Unexecuted(t)
  <2>1. CommandsIn(ms) = << >>
    BY <1>2, NoCommands
  <2>2. /\ CommandsIn(toSwitch'[s]) = CommandsIn(toSwitch[s]) \o << >>
        /\ \A u \in Switches \ {s} : toSwitch'[u] = toSwitch[u]
    BY <1>2, <2>1, SentCommands
  <2>3. CommandsIn(toSwitch[s]) \in Seq(Commands)
    BY QueueTypes
  <2>4. CommandsIn(toSwitch'[s]) = CommandsIn(toSwitch[s])
    BY <2>2, <2>3
  <2>5. CommandsIn(toSwitch'[t]) = CommandsIn(toSwitch[t])
    BY <2>2, <2>4
  <2> QED BY <2>5 DEF Unexecuted
<1>3. ASSUME NEW s \in Switches, toSwitch[s] # << >>, Head(toSwitch[s]).type # "command",
             ReceiveFromController(s)
      PROVE  Unexecuted(t)' = Unexecuted(t)
  <2> DEFINE q == toSwitch[s]
  <2>1. /\ q \in Seq(Request) /\ q # << >> /\ toSwitch'[s] = Tail(q)
        /\ \A u \in Switches \ {s} : toSwitch'[u] = toSwitch[u]
    BY <1>3 DEF IInv, TypeOK, ReceiveFromController
  <2>2. CommandsIn(q) = CommandsIn(Tail(q))
    <3>1. Head(q).type # "command"
      BY <1>3
    <3> HIDE DEF q
    <3> QED BY <2>1, <3>1, CommandsHead
  <2>3. CommandsIn(toSwitch'[t]) = CommandsIn(toSwitch[t])
    BY <2>1, <2>2
  <2> QED BY <2>3 DEF Unexecuted
<1> QED BY <1>1, <1>2, <1>3

\* A switch executes the first command of its queue.
LEMMA CommandRefines ==
  ASSUME IInv, NEW s \in Switches, HandleCommand(s)
  PROVE  Promise!Execute(s)
<1> DEFINE q == toSwitch[s]
           c == Head(q).cmd
           k == CommandsIn(Tail(q))
           w == Supported(pending[s])
<1>1. /\ q # << >> /\ Head(q).type = "command" /\ ReceiveFromController(s)
      /\ executed' = [executed EXCEPT ![s] = Append(@, c)] /\ pending' = pending
  BY DEF HandleCommand, AtSwitch, controller
<1>2. /\ q \in Seq(Request) /\ q \in Seq(Sent) /\ toSwitch'[s] = Tail(q)
      /\ \A u \in Switches \ {s} : toSwitch'[u] = toSwitch[u]
  BY <1>1 DEF IInv, TypeOK, Channels, ReceiveFromController
<1>3. c \in Commands
  <2>1. Head(q) \in Sent
    <3> HIDE DEF q
    <3> QED BY <1>1, <1>2, TakeFacts
  <2> QED BY <1>1, <2>1, MessageIs
<1>4. CommandsIn(q) = <<c>> \o k /\ k \in Seq(Commands)
  <2> HIDE DEF q
  <2> QED BY <1>1, <1>2, CommandsHead
<1>5. w \in Seq(Commands)
  BY QueueTypes
<1>6. Unexecuted(s) = CommandsIn(q) \o w /\ Unexecuted(s)' = k \o w
  BY <1>1, <1>2 DEF Unexecuted
<1>7. \A t \in Switches \ {s} : Unexecuted(t)' = Unexecuted(t)
  BY <1>1, <1>2 DEF Unexecuted
<1> HIDE DEF c, k, w, q
<1>8. /\ (<<c>> \o k) \o w # << >> /\ Head((<<c>> \o k) \o w) = c
      /\ Tail((<<c>> \o k) \o w) = k \o w
  <2> DEFINE r == k \o w
  <2>1. r \in Seq(Commands) /\ (<<c>> \o k) \o w = <<c>> \o r
    BY <1>3, <1>4, <1>5
  <2> HIDE DEF r
  <2>2. <<c>> \o r # << >> /\ Head(<<c>> \o r) = c /\ Tail(<<c>> \o r) = r
    BY <1>3, <2>1
  <2> QED BY <2>1, <2>2 DEF r
<1>9. /\ Unexecuted(s) # << >> /\ Head(Unexecuted(s)) = c
      /\ Unexecuted(s)' = Tail(Unexecuted(s))
  BY <1>4, <1>6, <1>8
<1>10. [t \in Switches |-> Unexecuted(t)']
         = [[t \in Switches |-> Unexecuted(t)] EXCEPT ![s] = Tail(@)]
  BY <1>7, <1>9
<1>11. executed' = [executed EXCEPT ![s] = Append(@, Head(Unexecuted(s)))]
  BY <1>1, <1>9
<1> QED BY <1>9, <1>10, <1>11 DEF Promise!Execute

\* The requests that are no commands.
LEMMA OtherRequests ==
  /\ <<Hello>> \in Seq(Sent)
  /\ \A r \in ToSet(<<Hello>>) : r.type # "command"
  /\ \A x \in Xid : /\ <<EchoRequest(x)>> \in Seq(Sent)
                    /\ \A r \in ToSet(<<EchoRequest(x)>>) : r.type # "command"
                    /\ <<[type |-> "features_request"], BarrierRequest(x)>> \in Seq(Sent)
                    /\ \A r \in ToSet(<<[type |-> "features_request"], BarrierRequest(x)>>) :
                         r.type # "command"
<1>1. Hello \in Sent /\ Hello.type # "command"
  BY Messages, Kinds
<1>2. [type |-> "features_request"] \in Sent
  BY Messages
<1>3. \A x \in Xid : /\ BarrierRequest(x) \in Sent /\ BarrierRequest(x).type # "command"
                     /\ EchoRequest(x) \in Sent /\ EchoRequest(x).type # "command"
  BY Messages, Kinds
<1>4. <<Hello>> \in Seq(Sent) /\ \A r \in ToSet(<<Hello>>) : r.type # "command"
  BY <1>1 DEF ToSet
<1>5. ASSUME NEW x \in Xid
      PROVE  /\ <<EchoRequest(x)>> \in Seq(Sent)
             /\ \A r \in ToSet(<<EchoRequest(x)>>) : r.type # "command"
             /\ <<[type |-> "features_request"], BarrierRequest(x)>> \in Seq(Sent)
             /\ \A r \in ToSet(<<[type |-> "features_request"], BarrierRequest(x)>>) :
                  r.type # "command"
  <2>1. /\ BarrierRequest(x) \in Sent /\ BarrierRequest(x).type # "command"
        /\ EchoRequest(x) \in Sent /\ EchoRequest(x).type # "command"
    BY <1>3
  <2> DEFINE b == BarrierRequest(x)
             e == EchoRequest(x)
             f == [type |-> "features_request"]
  <2>2. f.type # "command"
    OBVIOUS
  <2> HIDE DEF b, e, f
  <2>3. <<e>> \in Seq(Sent) /\ \A r \in ToSet(<<e>>) : r.type # "command"
    BY <2>1 DEF ToSet, e
  <2>4. <<f, b>> \in Seq(Sent) /\ \A r \in ToSet(<<f, b>>) : r.type # "command"
    <3>1. f \in Sent /\ b \in Sent /\ b.type # "command"
      BY <1>2, <2>1 DEF f, b
    <3>2. ToSet(<<f, b>>) = {f, b}
      BY DEF ToSet
    <3> QED BY <2>2, <3>1, <3>2
  <2> QED BY <2>3, <2>4 DEF b, e, f
<1> QED BY <1>4, <1>5

LEMMA StepRefines ==
  ASSUME IInv, IInv', [Next]_vars
  PROVE  [Promise!Next]_(Promise!commands)
<1>1. ASSUME NEW s \in Switches, Promise!Issue(s) \/ Promise!Execute(s)
      PROVE  [Promise!Next]_(Promise!commands)
  BY <1>1 DEF Promise!Next
<1>2. ASSUME NEW s \in Switches, Connection(s) PROVE UNCHANGED Promise!commands
  <2>1. CASE toSwitch' = toSwitch
    BY <1>2, <2>1, QuietRefines DEF Connection, SocketCtrlSucceeded, SocketCtrlFailed,
                                    SocketAccept, controller, switch
  <2>2. CASE SocketAccept(s)
    <3> DEFINE ms == <<Hello>>
    <3>1. SendToSwitch(s, ms) /\ executed' = executed /\ pending' = pending
      BY <2>2 DEF SocketAccept, switch, Hello
    <3>2. ms \in Seq(Sent) /\ \A r \in ToSet(ms) : r.type # "command"
      BY OtherRequests
    <3> HIDE DEF ms
    <3> QED BY <3>1, <3>2, QuietRefines
  <2> QED BY <1>2, <2>1, <2>2 DEF Connection, SocketCtrlSucceeded, SocketCtrlFailed
<1>3. ASSUME NEW s \in Switches, HandleSwitchMsg(s)
      PROVE  Promise!Issue(s) \/ UNCHANGED Promise!commands
  <2>1. CASE HandleHello(s)
    <3> DEFINE ms == <<[type |-> "features_request"], BarrierRequest(xid')>>
    <3>1. SendToSwitch(s, ms) /\ executed' = executed /\ pending' = pending
      BY <2>1 DEF HandleHello, switch, BarrierRequest
    <3>2. xid' \in Xid
      BY DEF IInv, TypeOK
    <3>3. ms \in Seq(Sent) /\ \A r \in ToSet(ms) : r.type # "command"
      BY <3>2, OtherRequests
    <3> HIDE DEF ms
    <3> QED BY <3>1, <3>3, QuietRefines
  <2>2. CASE HandleBarrierReply(s) \/ HandleEchoReply(s) \/ HandleFlowRemoved(s)
    <3>1. executed' = executed /\ pending' = pending /\ toSwitch' = toSwitch
      BY <2>2 DEF HandleBarrierReply, HandleEchoReply, HandleFlowRemoved, switch
    <3> QED BY <3>1, QuietRefines
  <2> QED BY <1>3, <2>1, <2>2, HandshakeRefines, LearningRefines DEF HandleSwitchMsg
<1>4. ASSUME NEW s \in Switches, HandleControlMsg(s)
      PROVE  Promise!Execute(s) \/ UNCHANGED Promise!commands
  <2>1. CASE \/ HandleOther(s) \/ HandleFeaturesRequest(s) \/ HandleBarrierRequest(s)
             \/ HandleEchoRequest(s)
    <3>1. /\ executed' = executed /\ pending' = pending /\ ReceiveFromController(s)
          /\ toSwitch[s] # << >> /\ Head(toSwitch[s]).type # "command"
      BY <2>1 DEF HandleOther, HandleFeaturesRequest, HandleBarrierRequest, HandleEchoRequest,
                  AtSwitch, switch, controller
    <3> QED BY <3>1, QuietRefines
  <2> QED BY <1>4, <2>1, CommandRefines DEF HandleControlMsg
<1>5. ASSUME NEW s \in Switches, SendEchoRequest(s) PROVE UNCHANGED Promise!commands
  <2> DEFINE ms == <<EchoRequest(xid')>>
  <2>1. SendToSwitch(s, ms) /\ executed' = executed /\ pending' = pending
    BY <1>5 DEF SendEchoRequest, switch, EchoRequest
  <2>2. xid' \in Xid
    BY DEF IInv, TypeOK
  <2>3. ms \in Seq(Sent) /\ \A r \in ToSet(ms) : r.type # "command"
    BY <2>2, OtherRequests
  <2> HIDE DEF ms
  <2> QED BY <2>1, <2>3, QuietRefines
<1>6. ASSUME NEW s \in Switches, NEW m \in Macs, PacketIn(s, m) \/ FlowTimeout(s, m)
      PROVE  UNCHANGED Promise!commands
  <2>1. executed' = executed /\ pending' = pending /\ toSwitch' = toSwitch
    BY <1>6 DEF PacketIn, FlowTimeout, switch, controller
  <2> QED BY <2>1, QuietRefines
<1>7. CASE UNCHANGED vars
  <2>1. executed' = executed /\ pending' = pending /\ toSwitch' = toSwitch
    BY <1>7 DEF vars, switch, controller
  <2> QED BY <2>1, QuietRefines
<1> QED BY <1>1, <1>2, <1>3, <1>4, <1>5, <1>6, <1>7, DpctlRefines DEF Next

\* Commands given before, during or after the handshake reach their switch once
\* and in the order they were given: the channel implements CommandQueue.
THEOREM CommandsInOrder == Spec => CommandQueueSpec
<1>1. Init => Promise!Init
  <2> SUFFICES ASSUME Init PROVE Promise!Init
    OBVIOUS
  <2>1. ASSUME NEW t \in Switches PROVE Unexecuted(t) = << >>
    <3>1. toSwitch[t] = << >> /\ pending[t] = << >> /\ << >> \in Seq(UserCommands) /\ IInv
      BY InitHolds DEF Init
    <3>2. Supported(<< >>) = << >>
      BY <3>1, SupportedType
    <3>3. [type |-> "hello"] \in Request /\ << >> \in Seq(Request)
      BY DEF Request
    <3>4. CommandsIn(<< >>) = << >>
      BY <3>3, CommandsAppend
    <3> QED BY <3>1, <3>2, <3>4 DEF Unexecuted
  <2>2. executed = [t \in Switches |-> << >>]
    BY DEF Init
  <2> QED BY <2>1, <2>2 DEF Promise!Init
<1>2. IInv /\ IInv' /\ [Next]_vars => [Promise!Next]_(Promise!commands)
  BY StepRefines
<1> QED BY <1>1, <1>2, Invariance, PTL DEF Spec, CommandQueueSpec, Promise!Spec
==============================================================================
