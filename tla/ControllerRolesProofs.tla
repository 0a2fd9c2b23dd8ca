------------------------ MODULE ControllerRolesProofs ------------------------
(***************************************************************************)
(* Proofs about ControllerRoles, for any controllers, elections, masks and  *)
(* bounds.  The idea: along every channel the elections that requests name  *)
(* never go back, starting from the one the switch has seen of that         *)
(* controller, and only role requests go forward.  So a master that was     *)
(* accepted in a term sends everything in that term until it is replaced.   *)
(***************************************************************************)
EXTENDS ControllerRoles, SequenceTheorems, TLAPS

\* A request that may name a newer election than the one before it.
NewTerm(r) == r.type = "role" /\ r.role \in {"master", "slave"}

\* The elections along channel q, after the request of election s was handled
\* and up to election t.
Before(q, s, i) == IF i = 1 THEN s ELSE q[i - 1].gen
Chain(q, s, t) ==
  /\ \A i \in 1 .. Len(q) :
       /\ q[i].gen >= Before(q, s, i)
       /\ ~NewTerm(q[i]) => q[i].gen = Before(q, s, i)
  /\ t = IF q = << >> THEN s ELSE q[Len(q)].gen

Chains == \A d \in Controllers : Chain(toSwitch[d], seen[d], term[d])

\* No controller has heard of an election that was not held.
Heard == \A d \in Controllers : term[d] <= Len(winner)

\* Who has not connected has asked for nothing.
Connected ==
  \A d \in Controllers \ remotes : role[d] = "equal" /\ toSwitch[d] = << >>

GenerationOk == generation \in Terms \cup {2 * Half - 1}

\* The switch has accepted every election it has seen, and a master has been
\* accepted since the last change by a master.
Order ==
  /\ fence <= Accepted
  /\ \A d \in Controllers :
       /\ seen[d] <= Accepted
       /\ role[d] = "master" => fence <= seen[d]

RolesInv ==
  /\ TypeOK
  /\ GenerationOk
  /\ Chains
  /\ Heard
  /\ Connected
  /\ AtMostOneMaster
  /\ Order
------------------------------------------------------------------------------
(* Generation ids *)

\* The signed comparison orders elections as numbers, and every election is
\* newer than the id the switch starts with.
LEMMA StaleMeansOlder ==
  ASSUME NEW g \in Terms, GenerationOk
  PROVE  /\ Accepted \in Terms
         /\ Stale(g, generation) <=> g < Accepted
BY RolesAssumption DEF GenerationOk, Terms, Accepted, Stale

\* What the switch has accepted is the id itself once it is one of an election.
LEMMA AcceptedIsGeneration ==
  ASSUME generation \in Terms
  PROVE  Accepted = generation
BY RolesAssumption DEF Terms, Accepted
------------------------------------------------------------------------------
(* Channels *)

LEMMA RequestGen ==
  ASSUME NEW r \in Request
  PROVE  r.gen \in Terms /\ r.gen \in Nat
BY RolesAssumption DEF Request, Terms

\* A request sent last takes the chain to its own election.
LEMMA ChainAppend ==
  ASSUME NEW q \in Seq(Request), NEW s \in Nat, NEW t \in Nat, Chain(q, s, t),
         NEW r \in Request, r.gen >= t, NewTerm(r) \/ r.gen = t
  PROVE  Chain(Append(q, r), s, r.gen)
<1> DEFINE p == Append(q, r)
<1>1. p \in Seq(Request) /\ Len(p) = Len(q) + 1 /\ p[Len(q) + 1] = r
  OBVIOUS
<1>2. \A i \in 1 .. Len(q) : p[i] = q[i]
  OBVIOUS
<1>3. Before(p, s, Len(q) + 1) = t
  BY <1>2 DEF Chain, Before
<1>4. \A i \in 1 .. Len(q) : Before(p, s, i) = Before(q, s, i)
  BY <1>2 DEF Before
<1>5. ASSUME NEW i \in 1 .. Len(p)
      PROVE  /\ p[i].gen >= Before(p, s, i)
             /\ ~NewTerm(p[i]) => p[i].gen = Before(p, s, i)
  <2>1. CASE i \in 1 .. Len(q)
    BY <2>1, <1>2, <1>4 DEF Chain
  <2>2. CASE i = Len(q) + 1
    BY <2>2, <1>1, <1>3
  <2> QED BY <2>1, <2>2, <1>1
<1>6. p # << >> /\ p[Len(p)].gen = r.gen
  BY <1>1
<1> HIDE DEF p
<1>7. Chain(p, s, r.gen)
  BY <1>5, <1>6 DEF Chain
<1> QED BY <1>7 DEF p

\* Handling the request at the head of a channel goes one link further.
LEMMA ChainTail ==
  ASSUME NEW q \in Seq(Request), NEW s \in Nat, NEW t \in Nat, Chain(q, s, t),
         q # << >>
  PROVE  /\ Head(q) \in Request
         /\ Head(q).gen >= s
         /\ ~NewTerm(Head(q)) => Head(q).gen = s
         /\ Chain(Tail(q), Head(q).gen, t)
<1> DEFINE p == Tail(q)
           g == Head(q).gen
<1>0. Len(q) \in Nat /\ Len(p) \in Nat /\ (Len(q) = 1 \/ Len(q) > 1)
  <2>1. Len(q) \in Nat /\ Len(p) \in Nat
    OBVIOUS
  <2>2. Len(q) # 0
    BY EmptySeq
  <2>3. \A n \in Nat : n # 0 => n = 1 \/ n > 1
    OBVIOUS
  <2> QED BY <2>1, <2>2, <2>3, Zenon
<1>1. Len(q) >= 1 /\ Head(q) = q[1] /\ q[1] \in Request
  OBVIOUS
<1>2. p \in Seq(Request) /\ Len(p) = Len(q) - 1
  OBVIOUS
<1>3. \A i \in 1 .. Len(p) : p[i] = q[i + 1]
  OBVIOUS
<1>4. q[1].gen >= s /\ (~NewTerm(q[1]) => q[1].gen = s)
  BY <1>1 DEF Chain, Before
<1>5. \A i \in 1 .. Len(p) : i + 1 \in 1 .. Len(q) /\ Before(p, g, i) = Before(q, s, i + 1)
  BY <1>1, <1>2, <1>3 DEF Before
<1>6. \A i \in 1 .. Len(p) : /\ p[i].gen >= Before(p, g, i)
                             /\ ~NewTerm(p[i]) => p[i].gen = Before(p, g, i)
  BY <1>3, <1>5 DEF Chain
<1> HIDE DEF p
<1>7. t = IF p = << >> THEN g ELSE p[Len(p)].gen
  <2>1. t = q[Len(q)].gen
    BY DEF Chain
  <2>2. CASE Len(q) = 1
    <3>1. p = << >>
      BY <2>2, <1>2, EmptySeq
    <3> QED BY <3>1, <2>1, <2>2, <1>1
  <2>3. CASE Len(q) > 1
    <3>1. p # << >> /\ p[Len(p)] = q[Len(q)]
      BY <2>3, <1>0, <1>2, <1>3, EmptySeq
    <3> QED BY <3>1, <2>1
  <2> QED BY <2>2, <2>3, <1>0
<1>8. Chain(p, g, t)
  BY <1>6, <1>7 DEF Chain
<1> QED BY <1>1, <1>4, <1>8 DEF p------------------------------------------------------------------------------
(* The invariant *)

LEMMA InitInv == Init => RolesInv
<1> SUFFICES ASSUME Init PROVE RolesInv
  OBVIOUS
<1>1. TypeOK
  BY RolesAssumption
  DEF Init, TypeOK, Mask, Async, Roles, GenerationId, Terms
<1>2. GenerationOk
  BY DEF Init, GenerationOk
<1>3. Chains
  BY DEF Init, Chains, Chain
<1>4. Heard /\ Connected /\ AtMostOneMaster
  BY DEF Init, Heard, Connected, AtMostOneMaster, Masters
<1>5. Order
  BY RolesAssumption DEF Init, Order, Accepted
<1> QED BY <1>1, <1>2, <1>3, <1>4, <1>5 DEF RolesInv

\* Every request but the role requests for an election keeps to the election
\* that its sender named last.
LEMMA SendKeeps ==
  ASSUME RolesInv, NEW c \in Controllers, NEW r \in Request, Send(c, r),
         r.gen >= term[c], NewTerm(r) \/ r.gen = term[c],
         term' = [term EXCEPT ![c] = r.gen],
         winner' \in Seq(Controllers), Len(winner') \in Terms,
         Len(winner') >= Len(winner), r.gen <= Len(winner'),
         asked' \in [Controllers -> Roles]
  PROVE  RolesInv'
<1>1. r.gen \in Terms /\ Terms \subseteq Nat /\ Len(winner) \in Nat
  BY RequestGen DEF Terms, RolesInv, TypeOK
<1>2. toSwitch' = [toSwitch EXCEPT ![c] = Append(@, r)] /\ c \in remotes
  BY DEF Send
<1>3. toSwitch' \in [Controllers -> Seq(Request)]
  BY <1>2 DEF RolesInv, TypeOK
<1>4. TypeOK'
  <2>1. requests' \in 0 .. MaxRequests
    BY RolesAssumption DEF RolesInv, TypeOK, Send
  <2> QED BY <1>1, <1>3, <2>1 DEF RolesInv, TypeOK, Send, datapath
<1>5. Chains'
  <2> SUFFICES ASSUME NEW d \in Controllers
               PROVE  Chain(toSwitch'[d], seen[d], term'[d])
    BY DEF Chains, Send
  <2>1. Chain(toSwitch[d], seen[d], term[d])
    BY DEF RolesInv, Chains
  <2>2. toSwitch[d] \in Seq(Request) /\ seen[d] \in Nat /\ term[d] \in Nat
    BY <1>1 DEF RolesInv, TypeOK
  <2>3. CASE d = c
    <3>1. toSwitch'[d] = Append(toSwitch[d], r) /\ term'[d] = r.gen
      BY <2>3, <1>2 DEF RolesInv, TypeOK
    <3>2. Chain(Append(toSwitch[d], r), seen[d], r.gen)
      BY <2>1, <2>2, <2>3, ChainAppend
    <3> QED BY <3>1, <3>2
  <2>4. CASE d # c
    BY <2>1, <2>4, <1>2 DEF RolesInv, TypeOK
  <2> QED BY <2>3, <2>4
<1>6. Heard'
  <2> SUFFICES ASSUME NEW d \in Controllers PROVE term'[d] <= Len(winner')
    BY DEF Heard
  <2>1. term[d] \in Nat /\ Len(winner') \in Nat /\ term[d] <= Len(winner)
    BY <1>1 DEF RolesInv, TypeOK, Heard
  <2>2. term'[d] = IF d = c THEN r.gen ELSE term[d]
    BY DEF RolesInv, TypeOK
  <2> QED BY <1>1, <2>1, <2>2
<1>7. Connected'
  BY <1>2 DEF RolesInv, TypeOK, Connected, Send, datapath
<1>8. GenerationOk' /\ AtMostOneMaster' /\ Order'
  BY DEF RolesInv, GenerationOk, AtMostOneMaster, Masters, Order, Accepted, Send, datapath
<1> QED BY <1>4, <1>5, <1>6, <1>7, <1>8 DEF RolesInv

\* What taking a request from its channel does to the channels.
LEMMA TakeKeeps ==
  ASSUME RolesInv, NEW c \in Controllers, NEW type, Pending(c, type), Take(c)
  PROVE  /\ Head(toSwitch[c]) \in Request
         /\ Head(toSwitch[c]).type = type
         /\ Head(toSwitch[c]).gen \in Terms
         /\ Head(toSwitch[c]).gen >= seen[c]
         /\ ~NewTerm(Head(toSwitch[c])) => Head(toSwitch[c]).gen = seen[c]
         /\ toSwitch' \in [Controllers -> Seq(Request)]
         /\ seen' = [seen EXCEPT ![c] = Head(toSwitch[c]).gen]
         /\ seen' \in [Controllers -> Terms]
         /\ Chains' /\ Heard'
         /\ c \in remotes
         /\ \A d \in Controllers \ remotes : toSwitch'[d] = << >>
<1> DEFINE g == Head(toSwitch[c]).gen
<1>1. toSwitch[c] # << >> /\ Head(toSwitch[c]).type = type
  BY DEF Pending
<1>2. toSwitch[c] \in Seq(Request) /\ seen[c] \in Nat /\ term[c] \in Nat
  BY DEF RolesInv, TypeOK, Terms
<1>3. /\ Head(toSwitch[c]) \in Request
      /\ g >= seen[c]
      /\ ~NewTerm(Head(toSwitch[c])) => g = seen[c]
      /\ Chain(Tail(toSwitch[c]), g, term[c])
  BY <1>1, <1>2, ChainTail DEF RolesInv, Chains
<1>4. g \in Terms
  BY <1>3, RequestGen
<1> HIDE DEF g
<1>5. /\ toSwitch' = [toSwitch EXCEPT ![c] = Tail(@)]
      /\ seen' = [seen EXCEPT ![c] = g]
      /\ term' = term /\ winner' = winner
  BY DEF Take, g, outside
<1>6. toSwitch' \in [Controllers -> Seq(Request)]
  <2>1. Tail(toSwitch[c]) \in Seq(Request)
    BY <1>1, <1>2
  <2> QED BY <2>1, <1>5 DEF RolesInv, TypeOK
<1>7. seen' \in [Controllers -> Terms]
  BY <1>4, <1>5 DEF RolesInv, TypeOK
<1>8. Chains'
  <2> SUFFICES ASSUME NEW d \in Controllers
               PROVE  Chain(toSwitch'[d], seen'[d], term[d])
    BY <1>5 DEF Chains
  <2>1. CASE d = c
    BY <2>1, <1>3, <1>5 DEF RolesInv, TypeOK
  <2>2. CASE d # c
    BY <2>2, <1>5 DEF RolesInv, TypeOK, Chains
  <2> QED BY <2>1, <2>2
<1>9. Heard' /\ c \in remotes /\ \A d \in Controllers \ remotes : toSwitch'[d] = << >>
  BY <1>1, <1>5 DEF RolesInv, TypeOK, Heard, Connected
<1> QED BY <1>1, <1>3, <1>4, <1>5, <1>6, <1>7, <1>8, <1>9 DEF g------------------------------------------------------------------------------
(* The steps of controllers *)

LEMMA ElectionOfRequest ==
  ASSUME NEW r \in {"master", "slave", "equal", "nochange"}, NEW t \in Terms
  PROVE  [type |-> "role", role |-> r, gen |-> t] \in Request
BY DEF Request, Roles

LEMMA ControllerKeeps ==
  ASSUME RolesInv, NEW c \in Controllers, ControllerStep(c)
  PROVE  RolesInv'
<1>1. /\ term \in [Controllers -> Terms] /\ winner \in Seq(Controllers)
      /\ Len(winner) \in Terms /\ asked \in [Controllers -> Roles]
      /\ term[c] \in Terms /\ term[c] <= Len(winner)
      /\ term = [term EXCEPT ![c] = term[c]]
  BY DEF RolesInv, TypeOK, Heard
<1>2. /\ term[c] \in Nat /\ Len(winner) \in Nat
      /\ term[c] >= term[c] /\ Len(winner) >= Len(winner)
  BY <1>1 DEF Terms
<1>3. ASSUME NEW r \in Roles, NEW t \in Terms, Ask(c, r, t), t >= term[c],
             r # "equal" \/ t = term[c],
             winner' \in Seq(Controllers), Len(winner') \in Terms,
             Len(winner') >= Len(winner), t <= Len(winner')
      PROVE  RolesInv'
  <2> DEFINE q == [type |-> "role", role |-> r, gen |-> t]
  <2>1. q \in Request
    BY <1>3, ElectionOfRequest DEF Roles
  <2>2. q.gen = t /\ (NewTerm(q) \/ q.gen = term[c])
    BY <1>3 DEF NewTerm, Roles
  <2>3. asked' \in [Controllers -> Roles] /\ term' = [term EXCEPT ![c] = t]
    BY <1>1, <1>3 DEF Ask
  <2>4. Send(c, q)
    BY <1>3 DEF Ask
  <2> HIDE DEF q
  <2> QED BY <1>3, <2>1, <2>2, <2>3, <2>4, SendKeeps
<1>4. ASSUME NEW r \in Request, r.gen = term[c], Send(c, r),
             UNCHANGED <<winner, term, asked>>
      PROVE  RolesInv'
  <2>1. r.gen >= term[c] /\ r.gen <= Len(winner')
    BY <1>1, <1>2, <1>4
  <2>2. term' = [term EXCEPT ![c] = r.gen]
    BY <1>1, <1>4
  <2>3. /\ winner' \in Seq(Controllers) /\ Len(winner') \in Terms
        /\ Len(winner') >= Len(winner) /\ asked' \in [Controllers -> Roles]
    BY <1>1, <1>2, <1>4
  <2> QED BY <1>4, <2>1, <2>2, <2>3, SendKeeps
<1>5. CASE AskMaster(c)
  <2>1. CASE /\ Len(winner) < MaxElections
             /\ winner' = Append(winner, c)
             /\ Ask(c, "master", Len(winner) + 1)
    <3>1. /\ winner' \in Seq(Controllers) /\ Len(winner') = Len(winner) + 1
          /\ Len(winner) + 1 \in Terms /\ Len(winner) + 1 >= term[c]
          /\ Len(winner') >= Len(winner) /\ Len(winner) + 1 <= Len(winner')
      BY <1>1, <2>1, RolesAssumption DEF Terms
    <3> QED BY <2>1, <3>1, <1>3 DEF Roles
  <2>2. CASE Ask(c, "master", term[c]) /\ UNCHANGED winner
    <3>1. /\ winner' \in Seq(Controllers) /\ Len(winner') \in Terms
          /\ Len(winner') >= Len(winner) /\ term[c] <= Len(winner')
          /\ "master" \in Roles /\ "master" # "equal"
      BY <1>1, <1>2, <2>2 DEF Roles
    <3> QED BY <1>1, <1>2, <1>3, <2>2, <3>1
  <2> QED BY <1>5, <2>1, <2>2 DEF AskMaster
<1>6. CASE AskSlave(c)
  <2>1. PICK t \in term[c] .. Len(winner) : Ask(c, "slave", t) /\ UNCHANGED winner
    BY <1>6 DEF AskSlave
  <2>2. t \in Terms /\ t >= term[c] /\ t <= Len(winner)
    <3>1. \A a, b \in Terms : \A e \in a .. b : e \in Terms /\ e >= a /\ e <= b
      BY RolesAssumption DEF Terms
    <3> QED BY <1>1, <3>1
  <2>3. /\ winner' \in Seq(Controllers) /\ Len(winner') \in Terms
        /\ Len(winner') >= Len(winner) /\ t <= Len(winner')
        /\ "slave" \in Roles /\ "slave" # "equal"
    BY <1>1, <1>2, <2>1, <2>2 DEF Roles
  <2> QED BY <1>3, <2>1, <2>2, <2>3
<1>7. CASE AskEqual(c)
  <2>1. /\ winner' \in Seq(Controllers) /\ Len(winner') \in Terms
        /\ Len(winner') >= Len(winner) /\ term[c] <= Len(winner')
        /\ "equal" \in Roles
    BY <1>1, <1>2, <1>7 DEF AskEqual, Roles
  <2>2. Ask(c, "equal", term[c])
    BY <1>7 DEF AskEqual
  <2> QED BY <1>1, <1>2, <1>3, <2>1, <2>2
<1>8. CASE AskNoChange(c)
  BY <1>1, <1>4, <1>8, ElectionOfRequest DEF AskNoChange
<1>9. CASE SendMod(c)
  <2>1. [type |-> "mod", gen |-> term[c]] \in Request
    BY <1>1 DEF Request
  <2> QED BY <1>4, <1>9, <2>1 DEF SendMod
<1>10. CASE SendAsync(c)
  <2>1. PICK m \in Masks : Send(c, [type |-> "async", mask |-> m, gen |-> term[c]])
    BY <1>10 DEF SendAsync
  <2>2. [type |-> "async", mask |-> m, gen |-> term[c]] \in Request
    BY <1>1 DEF Request
  <2> QED BY <1>4, <1>10, <2>1, <2>2 DEF SendAsync
<1>11. CASE Receive(c)
  <2>1. /\ UNCHANGED <<datapath, toSwitch, winner, term, asked, requests, seen, fence, events>>
        /\ toCtrl[c] # << >>
        /\ toCtrl' = [toCtrl EXCEPT ![c] = Tail(@)]
        /\ told' = IF Head(toCtrl[c]).type = "role_reply"
                   THEN [told EXCEPT ![c] = Head(toCtrl[c]).role] ELSE told
    BY <1>11 DEF Receive
  <2>2. toCtrl' \in [Controllers -> Seq(Report)]
    BY <2>1 DEF RolesInv, TypeOK
  <2>3. Head(toCtrl[c]) \in Report
    BY <2>1 DEF RolesInv, TypeOK
  <2>4. told' \in [Controllers -> Roles]
    BY <2>1, <2>3 DEF RolesInv, TypeOK, Report, Async
  <2> QED BY <2>1, <2>2, <2>4
     DEF RolesInv, TypeOK, datapath, Chains, Heard, Connected, GenerationOk,
         AtMostOneMaster, Masters, Order, Accepted
<1> QED BY <1>5, <1>6, <1>7, <1>8, <1>9, <1>10, <1>11 DEF ControllerStep------------------------------------------------------------------------------
(* The steps of the switch *)

LEMMA ConnectKeeps ==
  ASSUME RolesInv, NEW c \in Controllers, Connect(c)
  PROVE  RolesInv' /\ UNCHANGED <<role, generation>>
<1>1. role' = role
  BY DEF RolesInv, TypeOK, Connected, Connect
<1>2. mask' \in [Controllers -> Mask]
  BY DEF RolesInv, TypeOK, Connect, Mask, Async
<1>3. TypeOK'
  BY <1>1, <1>2 DEF RolesInv, TypeOK, Connect, channels, outside
<1>4. Chains' /\ Heard'
  BY DEF RolesInv, Chains, Heard, Connect, channels, outside
<1>5. Connected' /\ GenerationOk' /\ AtMostOneMaster' /\ Order'
  BY <1>1 DEF RolesInv, Connected, GenerationOk, AtMostOneMaster, Masters, Order,
              Accepted, Connect, channels
<1> QED BY <1>1, <1>3, <1>4, <1>5 DEF RolesInv, Connect

\* The cases of a role request.
Keeps(c, r) == r.role = "nochange" /\ UNCHANGED <<role, generation>>
Levels(c, r) ==
  r.role = "equal" /\ role' = [role EXCEPT ![c] = "equal"] /\ UNCHANGED generation
Refuses(c, r) ==
  NewTerm(r) /\ r.gen < Accepted /\ UNCHANGED <<role, generation>>
Accepts(c, r) ==
  /\ NewTerm(r) /\ r.gen >= Accepted /\ generation' = r.gen
  /\ role' = IF r.role = "master" THEN Promote(c) ELSE [role EXCEPT ![c] = "slave"]

LEMMA RoleRequestCases ==
  ASSUME RolesInv, NEW c \in Controllers, HandleRole(c)
  PROVE  LET r == Head(toSwitch[c]) IN
           /\ Keeps(c, r) \/ Levels(c, r) \/ Refuses(c, r) \/ Accepts(c, r)
           /\ toCtrl' \in [Controllers -> Seq(Report)]
<1> DEFINE r == Head(toSwitch[c])
<1>1. Pending(c, "role") /\ Take(c)
  BY DEF HandleRole
<1>2. r \in Request /\ r.type = "role" /\ r.gen \in Terms
  BY <1>1, TakeKeeps
<1>3. r.role \in Roles \cup {"nochange"}
  BY <1>2 DEF Request
<1>4. Accepted \in Terms /\ (Stale(r.gen, generation) <=> r.gen < Accepted)
  BY <1>2, StaleMeansOlder DEF RolesInv
<1>5. Accepted \in Nat /\ r.gen \in Nat /\ role[c] \in Roles
  BY <1>2, <1>4 DEF Terms, RolesInv, TypeOK
<1>6. Granted(c, r.role) \in Roles
  BY <1>3, <1>5 DEF Granted
<1>7. /\ [type |-> "role_reply", role |-> Granted(c, r.role)] \in Report
      /\ [type |-> "error"] \in Report
  BY <1>6 DEF Report
<1>8. ASSUME NEW m \in Report, Reply(c, m)
      PROVE  toCtrl' \in [Controllers -> Seq(Report)]
  BY <1>8 DEF Reply, RolesInv, TypeOK
<1> HIDE DEF r
<1>9. \/ /\ r.role = "nochange"
         /\ Reply(c, [type |-> "role_reply", role |-> Granted(c, r.role)])
         /\ UNCHANGED <<role, generation>>
      \/ /\ r.role = "equal"
         /\ role' = [role EXCEPT ![c] = "equal"]
         /\ Reply(c, [type |-> "role_reply", role |-> Granted(c, r.role)])
         /\ UNCHANGED generation
      \/ /\ r.role \in {"master", "slave"}
         /\ Stale(r.gen, generation)
         /\ Reply(c, [type |-> "error"])
         /\ UNCHANGED <<role, generation>>
      \/ /\ r.role \in {"master", "slave"}
         /\ ~Stale(r.gen, generation)
         /\ generation' = r.gen
         /\ role' = IF r.role = "master" THEN Promote(c)
                    ELSE [role EXCEPT ![c] = "slave"]
         /\ Reply(c, [type |-> "role_reply", role |-> Granted(c, r.role)])
  BY DEF HandleRole, r
<1>10. toCtrl' \in [Controllers -> Seq(Report)]
  BY <1>7, <1>8, <1>9
<1>11. ~(r.gen < Accepted) => r.gen >= Accepted
  BY <1>5
<1>12. Keeps(c, r) \/ Levels(c, r) \/ Refuses(c, r) \/ Accepts(c, r)
  BY <1>2, <1>4, <1>9, <1>11 DEF Keeps, Levels, Refuses, Accepts, NewTerm
<1> QED BY <1>10, <1>12 DEF r
\* Whoever is promoted is the only master.
LEMMA PromoteOne ==
  ASSUME RolesInv, NEW c \in Controllers, c \in remotes
  PROVE  /\ Promote(c) \in [Controllers -> Roles]
         /\ Promote(c)[c] = "master"
         /\ \A d \in Controllers \ {c} :
              Promote(c)[d] # "master" /\ (d \notin remotes => Promote(c)[d] = role[d])
BY DEF Promote, RolesInv, TypeOK, Connected, Roles

LEMMA HandleRoleKeeps ==
  ASSUME RolesInv, NEW c \in Controllers, HandleRole(c)
  PROVE  RolesInv'
<1> DEFINE r == Head(toSwitch[c])
<1>1. Pending(c, "role") /\ Take(c)
  BY DEF HandleRole
<1>2. /\ r \in Request /\ r.gen \in Terms /\ r.gen >= seen[c]
      /\ ~NewTerm(r) => r.gen = seen[c]
      /\ toSwitch' \in [Controllers -> Seq(Request)]
      /\ seen' = [seen EXCEPT ![c] = r.gen] /\ seen' \in [Controllers -> Terms]
      /\ Chains' /\ Heard' /\ c \in remotes
      /\ \A d \in Controllers \ remotes : toSwitch'[d] = << >>
  BY <1>1, TakeKeeps
<1>3. /\ Keeps(c, r) \/ Levels(c, r) \/ Refuses(c, r) \/ Accepts(c, r)
      /\ toCtrl' \in [Controllers -> Seq(Report)]
  BY RoleRequestCases
<1> HIDE DEF r
<1>4. /\ UNCHANGED <<remotes, mask, fence, outside, events>>
      /\ Accepted \in Terms /\ generation \in Terms \cup {2 * Half - 1}
  BY StaleMeansOlder, <1>2 DEF HandleRole, Take, RolesInv, GenerationOk
<1>5. role \in [Controllers -> Roles] /\ seen \in [Controllers -> Terms] /\ fence \in Terms
  BY DEF RolesInv, TypeOK
<1>6. /\ role' \in [Controllers -> Roles]
      /\ \A d \in Controllers \ remotes : role'[d] = role[d]
      /\ AtMostOneMaster'
      /\ \A d \in Controllers \ {c} : role'[d] = "master" => role[d] = "master"
  <2>1. CASE Keeps(c, r) \/ Refuses(c, r)
    BY <2>1, <1>5 DEF Keeps, Refuses, RolesInv, AtMostOneMaster, Masters
  <2>2. ASSUME NEW x \in {"slave", "equal"}, role' = [role EXCEPT ![c] = x]
        PROVE  /\ role' \in [Controllers -> Roles]
               /\ \A d \in Controllers \ remotes : role'[d] = role[d]
               /\ AtMostOneMaster'
               /\ \A d \in Controllers \ {c} : role'[d] = "master" => role[d] = "master"
    BY <2>2, <1>2, <1>5 DEF RolesInv, AtMostOneMaster, Masters, Roles
  <2>3. CASE Levels(c, r)
    BY <2>2, <2>3 DEF Levels
  <2>4. CASE Accepts(c, r)
    <3>1. CASE r.role = "master"
      BY <3>1, <2>4, <1>2, PromoteOne DEF Accepts, AtMostOneMaster, Masters
    <3>2. CASE r.role # "master"
      BY <3>2, <2>4, <2>2 DEF Accepts
    <3> QED BY <3>1, <3>2
  <2> QED BY <1>3, <2>1, <2>3, <2>4
<1>7. /\ generation' \in Terms \cup {2 * Half - 1}
      /\ Accepted' \in Terms /\ Accepted' >= Accepted /\ Accepted' >= r.gen
      /\ Accepts(c, r) => Accepted' = r.gen
      /\ role'[c] = "master" => role[c] = "master" \/ (Accepts(c, r) /\ r.role = "master")
  <2>1. Accepted \in Nat /\ r.gen \in Nat
    BY <1>2, <1>4 DEF Terms
  <2>2. CASE Accepts(c, r)
    <3>1. generation' = r.gen /\ r.gen >= Accepted
      BY <2>2 DEF Accepts
    <3>2. Accepted' = r.gen
      BY <3>1, <1>2, RolesAssumption DEF Accepted, Terms
    <3>3. role'[c] = "master" => r.role = "master"
      BY <2>2, <1>5 DEF Accepts
    <3> QED BY <2>1, <2>2, <3>1, <3>2, <3>3, <1>2
  <2>3. CASE ~Accepts(c, r)
    <3>1. generation' = generation /\ Accepted' = Accepted
      BY <1>3, <2>3 DEF Keeps, Levels, Refuses, Accepted
    <3>2. Accepted >= r.gen
      <4>1. CASE Refuses(c, r)
        BY <4>1, <2>1 DEF Refuses
      <4>2. CASE ~NewTerm(r)
        <5>1. r.gen = seen[c] /\ seen[c] <= Accepted
          BY <4>2, <1>2 DEF RolesInv, Order
        <5> QED BY <5>1, <2>1
      <4>3. Refuses(c, r) \/ ~NewTerm(r)
        BY <1>3, <2>3 DEF Keeps, Levels, NewTerm
      <4> QED BY <4>1, <4>2, <4>3
    <3>3. role'[c] = "master" => role[c] = "master"
      BY <1>3, <1>5, <2>3 DEF Keeps, Levels, Refuses
    <3> QED BY <1>4, <2>1, <2>3, <3>1, <3>2, <3>3
  <2> QED BY <2>2, <2>3
<1>8. Order'
  <2> SUFFICES ASSUME NEW d \in Controllers
               PROVE  /\ fence <= Accepted'
                      /\ seen'[d] <= Accepted'
                      /\ role'[d] = "master" => fence <= seen'[d]
    BY <1>4 DEF Order
  <2>1. /\ fence \in Nat /\ Accepted \in Nat /\ Accepted' \in Nat
        /\ r.gen \in Nat /\ seen[d] \in Nat
    BY <1>2, <1>4, <1>5, <1>7 DEF Terms
  <2>2. /\ fence <= Accepted /\ seen[d] <= Accepted
        /\ role[d] = "master" => fence <= seen[d]
    BY DEF RolesInv, Order
  <2>3. CASE d = c
    <3>1. seen'[d] = r.gen
      BY <2>3, <1>2, <1>5
    <3>2. CASE Accepts(c, r)
      <4>1. r.gen >= Accepted
        BY <3>2 DEF Accepts
      <4> QED BY <4>1, <3>1, <3>2, <2>1, <2>2, <1>7
    <3>3. CASE ~Accepts(c, r)
      BY <3>1, <3>3, <2>1, <2>2, <2>3, <1>2, <1>7
    <3> QED BY <3>2, <3>3
  <2>4. CASE d # c
    <3>1. seen'[d] = seen[d] /\ (role'[d] = "master" => role[d] = "master")
      BY <2>4, <1>2, <1>5, <1>6
    <3> QED BY <3>1, <2>1, <2>2, <1>7
  <2> QED BY <2>3, <2>4
<1>9. GenerationOk' /\ generation' \in GenerationId
  BY <1>7, RolesAssumption DEF GenerationOk, GenerationId, Terms
<1>10. TypeOK'
  BY <1>2, <1>3, <1>4, <1>6, <1>9 DEF RolesInv, TypeOK, outside
<1>11. Connected'
  BY <1>2, <1>4, <1>6 DEF RolesInv, Connected
<1> QED BY <1>2, <1>6, <1>8, <1>9, <1>10, <1>11 DEF RolesInv
\* A request for no new term leaves the order as it is, unless it is a change.
LEMMA TakeSeen ==
  ASSUME RolesInv, NEW c \in Controllers, NEW type, Pending(c, type), Take(c),
         type # "role"
  PROVE  seen' = seen /\ Head(toSwitch[c]).gen = seen[c]
<1>1. ~NewTerm(Head(toSwitch[c]))
  BY TakeKeeps DEF NewTerm
<1> QED BY <1>1, TakeKeeps DEF RolesInv, TypeOK

LEMMA HandleModKeeps ==
  ASSUME RolesInv, NEW c \in Controllers, HandleMod(c)
  PROVE  RolesInv' /\ fence' >= fence /\ UNCHANGED <<role, generation>>
<1>1. Pending(c, "mod") /\ Take(c) /\ UNCHANGED <<datapath, outside, events>>
  BY DEF HandleMod, Take
<1>2. /\ toSwitch' \in [Controllers -> Seq(Request)]
      /\ seen' = seen /\ Head(toSwitch[c]).gen = seen[c]
      /\ Chains' /\ Heard' /\ c \in remotes
      /\ \A d \in Controllers \ remotes : toSwitch'[d] = << >>
  BY <1>1, TakeKeeps, TakeSeen
<1>3. /\ role \in [Controllers -> Roles] /\ seen \in [Controllers -> Terms]
      /\ fence \in Terms /\ toCtrl \in [Controllers -> Seq(Report)]
  BY DEF RolesInv, TypeOK
<1>4. toCtrl' \in [Controllers -> Seq(Report)]
  <2>1. [type |-> "error"] \in Report
    BY DEF Report
  <2>2. CASE Reply(c, [type |-> "error"])
    BY <2>1, <2>2, <1>3 DEF Reply
  <2> QED BY <2>2, <1>3 DEF HandleMod
<1>5. fence' = fence \/ (role[c] = "master" /\ fence' = seen[c])
  BY <1>2, <1>3 DEF HandleMod, Refused, Roles
<1>6. Order' /\ fence' \in Terms /\ fence' >= fence
  <2>1. Accepted \in Nat /\ fence \in Nat /\ \A d \in Controllers : seen[d] \in Nat
    BY <1>3, StaleMeansOlder DEF Terms, RolesInv
  <2>2. Accepted' = Accepted /\ role' = role
    BY <1>1 DEF Accepted, datapath
  <2>3. /\ fence <= Accepted
        /\ \A d \in Controllers : seen[d] <= Accepted /\ (role[d] = "master" => fence <= seen[d])
    BY DEF RolesInv, Order
  <2>4. CASE fence' = fence
    BY <2>1, <2>2, <2>3, <2>4, <1>2, <1>3 DEF Order
  <2>5. CASE role[c] = "master" /\ fence' = seen[c]
    <3>1. \A d \in Controllers : role[d] = "master" => d = c
      BY <2>5 DEF RolesInv, AtMostOneMaster, Masters
    <3> QED BY <2>1, <2>2, <2>3, <2>5, <3>1, <1>2, <1>3 DEF Order
  <2> QED BY <2>4, <2>5, <1>5
<1>7. TypeOK'
  BY <1>1, <1>2, <1>4, <1>6 DEF RolesInv, TypeOK, datapath, outside
<1>8. Connected' /\ GenerationOk' /\ AtMostOneMaster'
  BY <1>1, <1>2 DEF RolesInv, Connected, GenerationOk, AtMostOneMaster, Masters, datapath
<1> QED BY <1>1, <1>2, <1>6, <1>7, <1>8 DEF RolesInv, datapath

LEMMA HandleAsyncKeeps ==
  ASSUME RolesInv, NEW c \in Controllers, HandleAsync(c)
  PROVE  RolesInv' /\ UNCHANGED <<role, generation>>
<1>1. /\ Pending(c, "async") /\ Take(c)
      /\ UNCHANGED <<remotes, role, generation, toCtrl, fence, outside, events>>
  BY DEF HandleAsync, Take
<1>2. /\ Head(toSwitch[c]) \in Request /\ Head(toSwitch[c]).type = "async"
      /\ toSwitch' \in [Controllers -> Seq(Request)]
      /\ seen' = seen
      /\ Chains' /\ Heard' /\ c \in remotes
      /\ \A d \in Controllers \ remotes : toSwitch'[d] = << >>
  BY <1>1, TakeKeeps, TakeSeen
<1>3. mask' \in [Controllers -> Mask]
  <2>1. Head(toSwitch[c]).mask \in Mask
    BY <1>2, RolesAssumption DEF Request
  <2> QED BY <2>1 DEF HandleAsync, RolesInv, TypeOK
<1>4. TypeOK'
  BY <1>1, <1>2, <1>3 DEF RolesInv, TypeOK, outside
<1>5. Connected' /\ GenerationOk' /\ AtMostOneMaster' /\ Order'
  BY <1>1, <1>2 DEF RolesInv, Connected, GenerationOk, AtMostOneMaster, Masters, Order, Accepted
<1> QED BY <1>1, <1>2, <1>4, <1>5 DEF RolesInv

LEMMA BroadcastKeeps ==
  ASSUME RolesInv, NEW e \in Async, Broadcast(e)
  PROVE  RolesInv' /\ UNCHANGED <<role, generation>>
<1>1. UNCHANGED <<datapath, toSwitch, outside, seen, fence>>
  BY DEF Broadcast
<1>2. toCtrl' \in [Controllers -> Seq(Report)]
  <2>1. [type |-> e] \in Report
    BY DEF Report
  <2> QED BY <2>1 DEF Broadcast, RolesInv, TypeOK
<1>3. events' \in 0 .. MaxEvents
  BY RolesAssumption DEF Broadcast, RolesInv, TypeOK
<1>4. TypeOK'
  BY <1>1, <1>2, <1>3 DEF RolesInv, TypeOK, datapath, outside
<1>5. Chains' /\ Heard'
  BY <1>1 DEF RolesInv, Chains, Heard, outside
<1>6. Connected' /\ GenerationOk' /\ AtMostOneMaster' /\ Order'
  BY <1>1 DEF RolesInv, Connected, GenerationOk, AtMostOneMaster, Masters, Order,
              Accepted, datapath
<1> QED BY <1>1, <1>4, <1>5, <1>6 DEF RolesInv, datapath

LEMMA StutterKeeps ==
  ASSUME RolesInv, UNCHANGED vars
  PROVE  RolesInv' /\ UNCHANGED <<role, generation, fence>>
BY DEF vars, datapath, channels, outside, RolesInv, TypeOK, Chains, Heard,
       Connected, GenerationOk, AtMostOneMaster, Masters, Order, Accepted

\* The invariant holds in every reachable state.
THEOREM Invariance == Spec => []RolesInv
<1>1. ASSUME RolesInv, [Next]_vars PROVE RolesInv'
  <2>1. ASSUME NEW c \in Controllers, ControllerStep(c) PROVE RolesInv'
    BY <1>1, <2>1, ControllerKeeps
  <2>2. ASSUME NEW c \in Controllers, SwitchStep(c) PROVE RolesInv'
    BY <1>1, <2>2, ConnectKeeps, HandleRoleKeeps, HandleModKeeps, HandleAsyncKeeps
    DEF SwitchStep
  <2>3. ASSUME NEW e \in Async, Broadcast(e) PROVE RolesInv'
    BY <1>1, <2>3, BroadcastKeeps
  <2>4. CASE UNCHANGED vars
    BY <1>1, <2>4, StutterKeeps
  <2> QED BY <1>1, <2>1, <2>2, <2>3, <2>4 DEF Next
<1> QED BY <1>1, InitInv, PTL DEF Spec
\* Every variable keeps to its type: what dp_handle_role_request leaves behind
\* is a role, and generation_id an id.
THEOREM TypeCorrect == Spec => []TypeOK
<1>1. RolesInv => TypeOK
  BY DEF RolesInv
<1> QED BY <1>1, Invariance, PTL

\* Whatever order the requests arrive in, dp_handle_role_request leaves one
\* master at most.
THEOREM OneMaster == Spec => []AtMostOneMaster
<1>1. RolesInv => AtMostOneMaster
  BY DEF RolesInv
<1> QED BY <1>1, Invariance, PTL

\* Only a change by a master moves the fence.
LEMMA FenceMoves ==
  ASSUME RolesInv, [Next]_vars
  PROVE  fence' >= fence \/ fence' = fence
<1>1. ASSUME NEW c \in Controllers, ControllerStep(c) PROVE fence' = fence
  BY <1>1 DEF ControllerStep, AskMaster, AskSlave, AskEqual, AskNoChange, Ask, SendMod,
              SendAsync, Send, Receive
<1>2. ASSUME NEW c \in Controllers, SwitchStep(c)
      PROVE  fence' >= fence \/ fence' = fence
  <2>1. CASE HandleMod(c)
    BY <2>1, HandleModKeeps
  <2> QED BY <1>2, <2>1 DEF SwitchStep, Connect, HandleRole, HandleAsync
<1>3. ASSUME NEW e \in Async, Broadcast(e) PROVE fence' = fence
  BY <1>3 DEF Broadcast
<1>4. CASE UNCHANGED vars
  BY <1>4 DEF vars
<1> QED BY <1>1, <1>2, <1>3, <1>4 DEF Next

\* Changes by masters are in the order of their elections: the slave tests of
\* the request handlers refuse what a former master has under way.
THEOREM Fenced == Spec => FormerMastersAreFenced
<1>1. RolesInv /\ [Next]_vars => [fence' >= fence]_fence
  BY FenceMoves
<1> QED BY <1>1, Invariance, PTL DEF Spec, FormerMastersAreFenced
------------------------------------------------------------------------------
(* The switch implements Mastership *)

\* What TheMaster is, for any roles: Masters, as a function of the roles.
MasterOf(r) ==
  IF {c \in Controllers : r[c] = "master"} = {} THEN Nobody
  ELSE CHOOSE c \in Controllers : r[c] = "master"

LEMMA TheMasterIs == TheMaster = MasterOf(role) /\ TheMaster' = MasterOf(role')
BY DEF TheMaster, Masters, MasterOf

LEMMA MasterOfNone ==
  ASSUME NEW r, \A c \in Controllers : r[c] # "master"
  PROVE  MasterOf(r) = Nobody
BY DEF MasterOf

LEMMA MasterOfOne ==
  ASSUME NEW r, NEW c \in Controllers, r[c] = "master",
         \A d \in Controllers : r[d] = "master" => d = c
  PROVE  MasterOf(r) = c /\ c # Nobody
<1>1. c \in {d \in Controllers : r[d] = "master"}
  OBVIOUS
<1>2. (CHOOSE d \in Controllers : r[d] = "master") = c
  OBVIOUS
<1> QED BY <1>1, <1>2, RolesAssumption DEF MasterOf

LEMMA InitOffice == Init => Office!Init
<1> SUFFICES ASSUME Init PROVE Office!Init
  OBVIOUS
<1>1. TheMaster = Nobody
  BY TheMasterIs, MasterOfNone DEF Init
<1>2. Accepted = 0
  BY RolesAssumption DEF Init, Accepted
<1> QED BY <1>1, <1>2 DEF Office!Init

\* A role request is a take-over, a resignation, an announcement or nothing.
LEMMA RoleOffice ==
  ASSUME RolesInv, RolesInv', NEW c \in Controllers, HandleRole(c)
  PROVE  Office!Next \/ UNCHANGED <<TheMaster, Accepted>>
<1> DEFINE r == Head(toSwitch[c])
<1>1. Pending(c, "role") /\ Take(c)
  BY DEF HandleRole
<1>2. r.gen \in Terms /\ c \in remotes
  BY <1>1, TakeKeeps
<1>3. Keeps(c, r) \/ Levels(c, r) \/ Refuses(c, r) \/ Accepts(c, r)
  BY RoleRequestCases
<1> HIDE DEF r
<1>4. role \in [Controllers -> Roles] /\ role' \in [Controllers -> Roles]
  BY DEF RolesInv, TypeOK
<1>5. Accepted \in Nat /\ Accepted' \in Nat /\ Accepted >= Accepted
  BY <1>2, StaleMeansOlder, RolesAssumption
  DEF RolesInv, GenerationOk, Accepted, Terms
<1>6. CASE Keeps(c, r) \/ Refuses(c, r)
  BY <1>6, TheMasterIs DEF Keeps, Refuses, Accepted
<1>7. ASSUME NEW x \in {"slave", "equal"}, role' = [role EXCEPT ![c] = x],
             Accepted' >= Accepted
      PROVE  Office!Leave(Accepted') \/ (TheMaster' = TheMaster)
  <2>1. CASE role[c] = "master"
    <3>1. TheMaster = c /\ c # Nobody
      BY <2>1, TheMasterIs, MasterOfOne DEF RolesInv, AtMostOneMaster, Masters
    <3>2. \A d \in Controllers : role'[d] # "master"
      BY <2>1, <1>4, <1>7 DEF RolesInv, AtMostOneMaster, Masters
    <3>3. TheMaster' = Nobody
      BY <3>2, TheMasterIs, MasterOfNone
    <3> QED BY <3>1, <3>3, <1>7 DEF Office!Leave
  <2>2. CASE role[c] # "master"
    <3>1. \A d \in Controllers : role'[d] = "master" <=> role[d] = "master"
      BY <2>2, <1>4, <1>7
    <3>2. {d \in Controllers : role'[d] = "master"} = {d \in Controllers : role[d] = "master"}
      BY <3>1
    <3>3. CASE \A d \in Controllers : role[d] # "master"
      BY <3>1, <3>3, TheMasterIs, MasterOfNone
    <3>4. ASSUME NEW d \in Controllers, role[d] = "master"
          PROVE  TheMaster' = TheMaster
      <4>1. /\ role'[d] = "master"
            /\ \A e \in Controllers : role[e] = "master" => e = d
            /\ \A e \in Controllers : role'[e] = "master" => e = d
        BY <3>1, <3>4 DEF RolesInv, AtMostOneMaster, Masters
      <4>2. MasterOf(role) = d
        BY <4>1, <3>4, MasterOfOne
      <4>3. MasterOf(role') = d
        BY <4>1, MasterOfOne
      <4> QED BY <4>2, <4>3, TheMasterIs
    <3> QED BY <3>3, <3>4
  <2> QED BY <2>1, <2>2
<1>8. CASE Levels(c, r)
  <2>1. Accepted' = Accepted /\ role' = [role EXCEPT ![c] = "equal"]
    BY <1>8 DEF Levels, Accepted
  <2>2. Office!Leave(Accepted') \/ TheMaster' = TheMaster
    BY <2>1, <1>5, <1>7
  <2> QED BY <2>1, <2>2, <1>5 DEF Office!Next
<1>9. CASE Accepts(c, r)
  <2>1. Accepted' = r.gen /\ r.gen >= Accepted
    BY <1>2, <1>9, RolesAssumption DEF Accepts, Accepted, Terms
  <2>2. CASE r.role = "master"
    <3>1. role' = Promote(c)
      BY <2>2, <1>9 DEF Accepts
    <3>2. role'[c] = "master" /\ \A d \in Controllers : role'[d] = "master" => d = c
      BY <3>1, <1>2, PromoteOne
    <3>3. TheMaster' = c
      BY <3>2, TheMasterIs, MasterOfOne
    <3>4. Office!TakeOver(c, Accepted')
      BY <2>1, <3>3 DEF Office!TakeOver
    <3> QED BY <3>4, <1>5 DEF Office!Next
  <2>3. CASE r.role # "master"
    <3>1. Office!Leave(Accepted') \/ TheMaster' = TheMaster
      BY <1>7, <1>9, <2>1, <2>3 DEF Accepts
    <3>2. TheMaster' = TheMaster => Office!Announce(Accepted')
      BY <2>1 DEF Office!Announce
    <3> QED BY <3>1, <3>2, <1>5 DEF Office!Next
  <2> QED BY <2>2, <2>3
<1> QED BY <1>3, <1>6, <1>8, <1>9

LEMMA StepOffice ==
  ASSUME RolesInv, RolesInv', [Next]_vars
  PROVE  [Office!Next]_(Office!mastership)
<1>1. CASE UNCHANGED <<role, generation>>
  BY <1>1, TheMasterIs DEF Office!mastership, Accepted
<1>2. ASSUME NEW c \in Controllers, ControllerStep(c)
      PROVE  UNCHANGED <<role, generation>>
  BY <1>2 DEF ControllerStep, AskMaster, AskSlave, AskEqual, AskNoChange, Ask, SendMod,
              SendAsync, Send, Receive, datapath
<1>3. ASSUME NEW c \in Controllers, SwitchStep(c)
      PROVE  HandleRole(c) \/ UNCHANGED <<role, generation>>
  BY <1>3, ConnectKeeps, HandleModKeeps, HandleAsyncKeeps DEF SwitchStep
<1>4. ASSUME NEW c \in Controllers, HandleRole(c)
      PROVE  [Office!Next]_(Office!mastership)
  BY <1>4, RoleOffice DEF Office!mastership
<1>5. ASSUME NEW e \in Async, Broadcast(e) PROVE UNCHANGED <<role, generation>>
  BY <1>5, BroadcastKeeps
<1>6. CASE UNCHANGED vars
  BY <1>1, <1>6, StutterKeeps
<1> QED BY <1>1, <1>2, <1>3, <1>4, <1>5, <1>6 DEF Next

\* The roles of the switch are the mastership of one office: a master is
\* replaced or leaves, in terms that only grow.
THEOREM ImplementsMastership == Spec => MastershipSpec
<1>1. RolesInv /\ RolesInv' /\ [Next]_vars => [Office!Next]_(Office!mastership)
  BY StepOffice
<1> QED BY <1>1, InitOffice, Invariance, PTL DEF Spec, MastershipSpec, Office!Spec------------------------------------------------------------------------------
(* The last winner *)

\* A request that decides the role of its sender.
Decides(r) == r.type = "role" /\ r.role # "nochange"
ForMaster(r, g) == r.type = "role" /\ r.role = "master" /\ r.gen = g

\* The last decision in channel q is to be the master of election g; there is
\* none.
Asks(q, g) ==
  \E i \in 1 .. Len(q) :
    ForMaster(q[i], g) /\ \A j \in i + 1 .. Len(q) : ~Decides(q[j])
Quiet(q) == \A i \in 1 .. Len(q) : ~Decides(q[i])

\* Only winners ask to be the master, and nobody invents an election.
Rightful(r, d, won) ==
  /\ r.gen <= Len(won)
  /\ r.type = "role" /\ r.role = "master" => r.gen >= 1 /\ won[r.gen] = d
MayAsk ==
  \A d \in Controllers : \A i \in 1 .. Len(toSwitch[d]) :
    Rightful(toSwitch[d][i], d, winner)

LastWinner == winner[Len(winner)]
Claim ==
  winner # << >> =>
    /\ term[LastWinner] = Len(winner)
    /\ asked[LastWinner] = "master" =>
         \/ Asks(toSwitch[LastWinner], Len(winner))
         \/ /\ Quiet(toSwitch[LastWinner])
            /\ role[LastWinner] = "master" /\ generation = Len(winner)

WinnerInv == MayAsk /\ Accepted <= Len(winner) /\ Claim
LEMMA QueueAppend ==
  ASSUME NEW q \in Seq(Request), NEW r \in Request, NEW g
  PROVE  /\ Asks(q, g) /\ ~Decides(r) => Asks(Append(q, r), g)
         /\ Quiet(q) /\ ~Decides(r) => Quiet(Append(q, r))
         /\ ForMaster(r, g) => Asks(Append(q, r), g)
<1> DEFINE p == Append(q, r)
<1>1. Len(q) \in Nat /\ Len(p) = Len(q) + 1 /\ p[Len(q) + 1] = r
  OBVIOUS
<1>2. \A i \in 1 .. Len(q) : p[i] = q[i]
  OBVIOUS
<1> HIDE DEF p
<1>3. ASSUME NEW i \in 1 .. Len(q), ForMaster(q[i], g),
             \A j \in i + 1 .. Len(q) : ~Decides(q[j]), ~Decides(r)
      PROVE  Asks(p, g)
  <2>1. \A j \in i + 1 .. Len(p) : j \in i + 1 .. Len(q) \/ j = Len(q) + 1
    BY <1>1
  <2>2. \A j \in i + 1 .. Len(q) : j \in 1 .. Len(q)
    BY <1>1
  <2>3. \A j \in i + 1 .. Len(p) : ~Decides(p[j])
    BY <2>1, <2>2, <1>1, <1>2, <1>3
  <2>4. i \in 1 .. Len(p) /\ ForMaster(p[i], g)
    BY <1>1, <1>2, <1>3
  <2> QED BY <2>3, <2>4 DEF Asks
<1>4. Quiet(q) /\ ~Decides(r) => Quiet(p)
  <2>1. \A j \in 1 .. Len(p) : j \in 1 .. Len(q) \/ j = Len(q) + 1
    BY <1>1
  <2> QED BY <2>1, <1>1, <1>2 DEF Quiet
<1>5. ForMaster(r, g) => Asks(p, g)
  <2>1. Len(p) \in 1 .. Len(p) /\ p[Len(p)] = r
    BY <1>1
  <2>2. \A j \in Len(p) + 1 .. Len(p) : FALSE
    BY <1>1
  <2> QED BY <2>1, <2>2 DEF Asks
<1>6. Asks(q, g) /\ ~Decides(r) => Asks(p, g)
  BY <1>3 DEF Asks
<1> QED BY <1>4, <1>5, <1>6 DEF p

LEMMA QueueTail ==
  ASSUME NEW q \in Seq(Request), NEW g, q # << >>
  PROVE  /\ Asks(q, g) =>
              Asks(Tail(q), g) \/ (ForMaster(Head(q), g) /\ Quiet(Tail(q)))
         /\ Quiet(q) => ~Decides(Head(q)) /\ Quiet(Tail(q))
<1> DEFINE p == Tail(q)
<1>1. Len(q) \in Nat /\ Len(q) # 0
  BY EmptySeq
<1>2. Len(p) = Len(q) - 1 /\ Head(q) = q[1]
  BY <1>1
<1>3. \A i \in 1 .. Len(p) : p[i] = q[i + 1]
  OBVIOUS
<1> HIDE DEF p
<1>4. \A i \in 1 .. Len(p) : i + 1 \in 1 .. Len(q)
  BY <1>1, <1>2
<1>5. 1 \in 1 .. Len(q)
  BY <1>1
<1>6. ASSUME NEW i \in 1 .. Len(q), ForMaster(q[i], g),
             \A j \in i + 1 .. Len(q) : ~Decides(q[j])
      PROVE  Asks(p, g) \/ (ForMaster(Head(q), g) /\ Quiet(p))
  <2>1. CASE i = 1
    <3>1. \A j \in 1 .. Len(p) : j + 1 \in i + 1 .. Len(q)
      BY <2>1, <1>1, <1>2
    <3>2. Quiet(p)
      BY <3>1, <1>3, <1>6 DEF Quiet
    <3> QED BY <3>2, <2>1, <1>2, <1>6
  <2>2. CASE i # 1
    <3>1. i - 1 \in 1 .. Len(p) /\ (i - 1) + 1 = i
      BY <2>2, <1>1, <1>2
    <3>2. \A j \in (i - 1) + 1 .. Len(p) : j \in 1 .. Len(p) /\ j + 1 \in i + 1 .. Len(q)
      BY <2>2, <1>1, <1>2
    <3>3. \A j \in (i - 1) + 1 .. Len(p) : ~Decides(p[j])
      BY <3>2, <1>3, <1>6
    <3>4. ForMaster(p[i - 1], g)
      BY <3>1, <1>3, <1>6
    <3> QED BY <3>1, <3>3, <3>4 DEF Asks
  <2> QED BY <2>1, <2>2
<1>7. Asks(q, g) => Asks(p, g) \/ (ForMaster(Head(q), g) /\ Quiet(p))
  BY <1>6 DEF Asks
<1>8. Quiet(q) => ~Decides(Head(q)) /\ Quiet(p)
  BY <1>2, <1>3, <1>4, <1>5 DEF Quiet
<1> QED BY <1>7, <1>8 DEF p
LEMMA InitWinner == Init => WinnerInv
<1> SUFFICES ASSUME Init PROVE WinnerInv
  OBVIOUS
<1>1. MayAsk /\ Claim
  BY DEF Init, MayAsk, Claim
<1>2. Accepted <= Len(winner)
  BY RolesAssumption DEF Init, Accepted
<1> QED BY <1>1, <1>2 DEF WinnerInv

LEMMA SendMayAsk ==
  ASSUME RolesInv, WinnerInv, NEW c \in Controllers, NEW r \in Request, Send(c, r),
         Rightful(r, c, winner'), Len(winner') \in Nat, Len(winner') >= Len(winner),
         \A g \in 1 .. Len(winner) : winner'[g] = winner[g]
  PROVE  MayAsk' /\ Accepted' <= Len(winner')
<1>1. toSwitch' = [toSwitch EXCEPT ![c] = Append(@, r)] /\ generation' = generation
  BY DEF Send, datapath
<1>2. Len(winner) \in Nat /\ Accepted \in Nat /\ Accepted <= Len(winner)
  BY StaleMeansOlder, RolesAssumption
  DEF RolesInv, TypeOK, WinnerInv, GenerationOk, Accepted, Terms
<1>3. Accepted' <= Len(winner')
  BY <1>1, <1>2 DEF Accepted
<1>4. ASSUME NEW q \in Request, NEW d \in Controllers, Rightful(q, d, winner)
      PROVE  Rightful(q, d, winner')
  <2>1. q.gen \in Nat
    BY RequestGen
  <2>2. q.gen <= Len(winner) /\ q.gen <= Len(winner')
    BY <1>2, <1>4, <2>1 DEF Rightful
  <2>3. q.gen >= 1 => winner'[q.gen] = winner[q.gen]
    BY <1>2, <2>1, <2>2
  <2> QED BY <1>4, <2>2, <2>3 DEF Rightful
<1>5. ASSUME NEW d \in Controllers, NEW i \in 1 .. Len(toSwitch'[d])
      PROVE  Rightful(toSwitch'[d][i], d, winner')
  <2>1. toSwitch[d] \in Seq(Request)
    BY DEF RolesInv, TypeOK
  <2>2. \A j \in 1 .. Len(toSwitch[d]) : toSwitch[d][j] \in Request /\ Rightful(toSwitch[d][j], d, winner')
    BY <2>1, <1>4 DEF WinnerInv, MayAsk
  <2>3. CASE d # c
    BY <2>2, <2>3, <1>1, <1>5 DEF RolesInv, TypeOK
  <2>4. CASE d = c
    <3>1. toSwitch'[d] = Append(toSwitch[d], r)
      BY <2>4, <1>1 DEF RolesInv, TypeOK
    <3>2. CASE i \in 1 .. Len(toSwitch[d])
      <4>1. toSwitch'[d][i] = toSwitch[d][i]
        BY <2>1, <3>1, <3>2
      <4> QED BY <4>1, <3>2, <2>2
    <3>3. CASE i = Len(toSwitch[d]) + 1
      <4>1. toSwitch'[d][i] = r
        BY <2>1, <3>1, <3>3
      <4> QED BY <4>1, <2>4
    <3> QED BY <2>1, <3>1, <3>2, <3>3, <1>5
  <2> QED BY <2>3, <2>4
<1> QED BY <1>3, <1>5 DEF MayAsk

\* A request without an election: a claim stays, or is given up, or renewed.
LEMMA SendClaim ==
  ASSUME RolesInv, WinnerInv, NEW c \in Controllers, NEW r \in Request, Send(c, r),
         Rightful(r, c, winner), winner' = winner, r.gen >= term[c],
         term' = [term EXCEPT ![c] = r.gen],
         \/ r.type = "role" /\ r.role \in Roles /\ asked' = [asked EXCEPT ![c] = r.role]
         \/ ~Decides(r) /\ asked' = asked
  PROVE  WinnerInv'
<1>1. toSwitch' = [toSwitch EXCEPT ![c] = Append(@, r)] /\ UNCHANGED <<role, generation>>
  BY DEF Send, datapath
<1>2. /\ Len(winner) \in Nat /\ winner \in Seq(Controllers)
      /\ r.gen \in Nat /\ term[c] \in Nat /\ Len(winner) >= Len(winner)
  BY RequestGen DEF RolesInv, TypeOK, Terms
<1>3. Rightful(r, c, winner')
  BY DEF Rightful
<1>4. MayAsk' /\ Accepted' <= Len(winner')
  BY <1>2, <1>3, SendMayAsk
<1>5. Claim'
  <2> SUFFICES ASSUME winner # << >>
      PROVE  /\ term'[LastWinner] = Len(winner)
             /\ asked'[LastWinner] = "master" =>
                  \/ Asks(toSwitch'[LastWinner], Len(winner))
                  \/ /\ Quiet(toSwitch'[LastWinner])
                     /\ role[LastWinner] = "master" /\ generation = Len(winner)
    BY <1>1 DEF Claim, LastWinner
  <2> DEFINE w == LastWinner
             g == Len(winner)
  <2>1. w \in Controllers
    BY <1>2, EmptySeq DEF LastWinner
  <2>2. /\ term[w] = g
        /\ asked[w] = "master" =>
             \/ Asks(toSwitch[w], g)
             \/ Quiet(toSwitch[w]) /\ role[w] = "master" /\ generation = g
    BY DEF WinnerInv, Claim
  <2> HIDE DEF w, g
  <2>3. CASE w # c
    <3>1. term'[w] = term[w] /\ asked'[w] = asked[w] /\ toSwitch'[w] = toSwitch[w]
      BY <2>1, <2>3, <1>1 DEF RolesInv, TypeOK
    <3> QED BY <2>2, <3>1 DEF w, g
  <2>4. CASE w = c
    <3>1. r.gen = g
      <4>1. r.gen <= g
        BY DEF Rightful, g
      <4> QED BY <4>1, <2>2, <2>4, <1>2 DEF g
    <3>2. term'[w] = g /\ toSwitch'[w] = Append(toSwitch[w], r) /\ toSwitch[w] \in Seq(Request)
      BY <2>1, <2>4, <3>1, <1>1 DEF RolesInv, TypeOK
    <3>3. CASE r.type = "role" /\ r.role \in Roles /\ asked' = [asked EXCEPT ![c] = r.role]
      <4>1. asked'[w] = r.role
        BY <2>1, <2>4, <3>3 DEF RolesInv, TypeOK
      <4>2. r.role = "master" => ForMaster(r, g)
        BY <3>1, <3>3 DEF ForMaster
      <4>3. r.role = "master" => Asks(toSwitch'[w], g)
        BY <4>2, <3>2, QueueAppend
      <4> QED BY <4>1, <4>3, <3>2 DEF w, g
    <3>4. CASE ~Decides(r) /\ asked' = asked
      <4>1. /\ Asks(toSwitch[w], g) => Asks(toSwitch'[w], g)
            /\ Quiet(toSwitch[w]) => Quiet(toSwitch'[w])
        BY <3>2, <3>4, QueueAppend
      <4> QED BY <4>1, <3>2, <3>4, <2>2 DEF w, g
    <3> QED BY <3>3, <3>4
  <2> QED BY <2>3, <2>4
<1> QED BY <1>4, <1>5 DEF WinnerInv

\* An election: the winner's request is the last of its channel.
LEMMA WinClaim ==
  ASSUME RolesInv, WinnerInv, NEW c \in Controllers,
         Len(winner) < MaxElections, winner' = Append(winner, c),
         Ask(c, "master", Len(winner) + 1)
  PROVE  WinnerInv'
<1> DEFINE t == Len(winner) + 1
           r == [type |-> "role", role |-> "master", gen |-> t]
<1>1. /\ Len(winner) \in Nat /\ Len(winner') = t /\ Len(winner') >= Len(winner)
      /\ winner' # << >> /\ winner'[t] = c /\ t \in Terms /\ t \in Nat /\ t >= 1 /\ t <= t
      /\ \A g \in 1 .. Len(winner) : winner'[g] = winner[g]
  BY RolesAssumption DEF RolesInv, TypeOK, Terms
<1>2. Send(c, r) /\ term' = [term EXCEPT ![c] = t] /\ asked' = [asked EXCEPT ![c] = "master"]
  BY DEF Ask
<1>3. r \in Request
  BY <1>1, ElectionOfRequest
<1>4. ForMaster(r, t)
  BY DEF ForMaster
<1>5. r.gen = t /\ r.type = "role"
  OBVIOUS
<1> HIDE DEF r, t
<1>6. Rightful(r, c, winner')
  BY <1>1, <1>5 DEF Rightful
<1>7. MayAsk' /\ Accepted' <= Len(winner')
  BY <1>1, <1>2, <1>3, <1>6, SendMayAsk
<1>8. term'[c] = t /\ toSwitch'[c] = Append(toSwitch[c], r) /\ toSwitch[c] \in Seq(Request)
  BY <1>2 DEF Send, RolesInv, TypeOK
<1>9. Asks(toSwitch'[c], t)
  BY <1>3, <1>4, <1>8, QueueAppend
<1>10. Claim'
  BY <1>1, <1>8, <1>9 DEF Claim, LastWinner
<1> QED BY <1>7, <1>10 DEF WinnerInv
\* What taking a request from channel c means to the last winner, when there is
\* one, and to the elections that are left under way.
LEMMA TakeWinner ==
  ASSUME RolesInv, WinnerInv, NEW c \in Controllers, NEW type, Pending(c, type), Take(c)
  PROVE  /\ winner' = winner /\ term' = term /\ asked' = asked
         /\ MayAsk'
         /\ Rightful(Head(toSwitch[c]), c, winner)
         /\ \A d \in Controllers \ {c} : toSwitch'[d] = toSwitch[d]
         /\ \A g : Asks(toSwitch[c], g) =>
                   \/ Asks(toSwitch'[c], g)
                   \/ ForMaster(Head(toSwitch[c]), g) /\ Quiet(toSwitch'[c])
         /\ Quiet(toSwitch[c]) => ~Decides(Head(toSwitch[c])) /\ Quiet(toSwitch'[c])
<1>1. toSwitch[c] # << >> /\ toSwitch[c] \in Seq(Request)
  BY DEF Pending, RolesInv, TypeOK
<1>2. toSwitch' = [toSwitch EXCEPT ![c] = Tail(@)] /\ winner' = winner /\ term' = term /\ asked' = asked
  BY DEF Take, outside
<1>3. toSwitch'[c] = Tail(toSwitch[c]) /\ \A d \in Controllers \ {c} : toSwitch'[d] = toSwitch[d]
  BY <1>2 DEF RolesInv, TypeOK
<1>4. Rightful(Head(toSwitch[c]), c, winner)
  <2>1. Len(toSwitch[c]) \in Nat /\ Len(toSwitch[c]) # 0
    BY <1>1, EmptySeq
  <2>2. 1 \in 1 .. Len(toSwitch[c]) /\ Head(toSwitch[c]) = toSwitch[c][1]
    BY <2>1
  <2> QED BY <2>2 DEF WinnerInv, MayAsk
<1>5. MayAsk'
  <2>1. ASSUME NEW i \in 1 .. Len(Tail(toSwitch[c]))
        PROVE  Rightful(Tail(toSwitch[c])[i], c, winner)
    <3>1. i + 1 \in 1 .. Len(toSwitch[c]) /\ Tail(toSwitch[c])[i] = toSwitch[c][i + 1]
      BY <1>1
    <3> QED BY <3>1 DEF WinnerInv, MayAsk
  <2>2. ASSUME NEW d \in Controllers, NEW i \in 1 .. Len(toSwitch'[d])
        PROVE  Rightful(toSwitch'[d][i], d, winner)
    BY <1>3, <2>1, <2>2 DEF WinnerInv, MayAsk
  <2> QED BY <2>2, <1>2 DEF MayAsk
<1> QED BY <1>1, <1>2, <1>3, <1>4, <1>5, QueueTail

\* A request that decides nothing, and one that decides for another controller
\* than the winner, leave a claim alone.
LEMMA TakeClaim ==
  ASSUME RolesInv, WinnerInv, NEW c \in Controllers, NEW type, Pending(c, type), Take(c),
         winner # << >> => c # LastWinner \/ ~Decides(Head(toSwitch[c])),
         winner # << >> /\ role[LastWinner] = "master" /\ generation = Len(winner) =>
           role'[LastWinner] = "master" /\ generation' = Len(winner)
  PROVE  Claim'
<1>1. /\ winner' = winner /\ term' = term /\ asked' = asked
      /\ \A d \in Controllers \ {c} : toSwitch'[d] = toSwitch[d]
      /\ \A g : Asks(toSwitch[c], g) =>
                \/ Asks(toSwitch'[c], g)
                \/ ForMaster(Head(toSwitch[c]), g) /\ Quiet(toSwitch'[c])
      /\ Quiet(toSwitch[c]) => Quiet(toSwitch'[c])
  BY TakeWinner
<1>2. CASE winner = << >>
  BY <1>1, <1>2 DEF Claim
<1>3. CASE winner # << >>
  <2> DEFINE w == LastWinner
             g == Len(winner)
  <2>1. /\ term[w] = g
        /\ asked[w] = "master" =>
             \/ Asks(toSwitch[w], g)
             \/ Quiet(toSwitch[w]) /\ role[w] = "master" /\ generation = g
    BY <1>3 DEF WinnerInv, Claim
  <2>2. w \in Controllers
    BY <1>3, EmptySeq DEF LastWinner, RolesInv, TypeOK
  <2>3. w' = w /\ g' = g
    BY <1>1 DEF LastWinner
  <2>4. role[w] = "master" /\ generation = g => role'[w] = "master" /\ generation' = g
    BY <1>3
  <2>5. c # w \/ ~Decides(Head(toSwitch[c]))
    BY <1>3
  <2> HIDE DEF w, g
  <2>6. ~Decides(Head(toSwitch[c])) => ~ForMaster(Head(toSwitch[c]), g)
    BY DEF Decides, ForMaster
  <2>7. /\ Asks(toSwitch[w], g) => Asks(toSwitch'[w], g)
        /\ Quiet(toSwitch[w]) => Quiet(toSwitch'[w])
    BY <1>1, <2>2, <2>5, <2>6
  <2>8. /\ term'[w] = g
        /\ asked'[w] = "master" =>
             \/ Asks(toSwitch'[w], g)
             \/ Quiet(toSwitch'[w]) /\ role'[w] = "master" /\ generation' = g
    BY <1>1, <2>1, <2>4, <2>7
  <2> QED BY <2>3, <2>8 DEF Claim, w, g
<1> QED BY <1>2, <1>3

LEMMA HandleRoleWinner ==
  ASSUME RolesInv, WinnerInv, NEW c \in Controllers, HandleRole(c)
  PROVE  WinnerInv'
<1> DEFINE r == Head(toSwitch[c])
           w == LastWinner
           g == Len(winner)
<1>1. Pending(c, "role") /\ Take(c)
  BY DEF HandleRole
<1>2. r \in Request /\ r.gen \in Terms /\ c \in remotes /\ r.type = "role"
  BY <1>1, TakeKeeps
<1>3. /\ winner' = winner /\ term' = term /\ asked' = asked
      /\ MayAsk' /\ Rightful(r, c, winner)
      /\ \A e : Asks(toSwitch[c], e) =>
                Asks(toSwitch'[c], e) \/ (ForMaster(r, e) /\ Quiet(toSwitch'[c]))
      /\ Quiet(toSwitch[c]) => ~Decides(r) /\ Quiet(toSwitch'[c])
  BY <1>1, TakeWinner
<1>4. Keeps(c, r) \/ Levels(c, r) \/ Refuses(c, r) \/ Accepts(c, r)
  BY RoleRequestCases
<1>5. role \in [Controllers -> Roles] /\ g \in Nat /\ r.gen \in Nat /\ Accepted \in Nat
      /\ Accepted <= g /\ r.gen <= g
  BY <1>2, <1>3, StaleMeansOlder
  DEF RolesInv, TypeOK, Terms, WinnerInv, Rightful
<1>6. Accepted' <= g /\ (generation = g => Accepted = g)
  <2>1. generation = g => Accepted = g
    BY AcceptedIsGeneration DEF RolesInv, TypeOK
  <2>2. CASE generation' = generation
    BY <2>1, <2>2, <1>5 DEF Accepted
  <2>3. CASE generation' = r.gen
    BY <2>1, <2>3, <1>2, <1>5, RolesAssumption DEF Accepted, Terms
  <2> QED BY <2>2, <2>3, <1>4 DEF Keeps, Levels, Refuses, Accepts
<1>7. CASE winner = << >> \/ c # w
  <2>1. ASSUME winner # << >>, role[w] = "master", generation = g
        PROVE  role'[w] = "master" /\ generation' = g
    <3>1. w \in Controllers /\ c # w
      BY <1>7, <2>1, EmptySeq DEF LastWinner, RolesInv, TypeOK
    <3>2. CASE Accepts(c, r)
      <4>1. r.gen = g
        BY <3>2, <1>5, <1>6, <2>1 DEF Accepts
      <4>2. r.role # "master"
        BY <4>1, <3>1, <1>2, <1>3 DEF Rightful, LastWinner
      <4> QED BY <4>1, <4>2, <3>1, <3>2, <1>5, <2>1 DEF Accepts
    <3>3. CASE Keeps(c, r) \/ Levels(c, r) \/ Refuses(c, r)
      BY <3>1, <3>3, <1>5, <2>1 DEF Keeps, Levels, Refuses
    <3> QED BY <3>2, <3>3, <1>4
  <2>2. Claim'
    BY <1>1, <1>7, <2>1, TakeClaim
  <2> QED BY <2>2, <1>3, <1>6 DEF WinnerInv
<1>8. CASE winner # << >> /\ c = w /\ ~Decides(r)
  <2>1. role' = role /\ generation' = generation
    BY <1>2, <1>4, <1>8 DEF Decides, Keeps, Levels, Refuses, Accepts, NewTerm
  <2>2. Claim'
    BY <1>1, <1>8, <2>1, TakeClaim
  <2> QED BY <2>2, <1>3, <1>6 DEF WinnerInv
<1>9. CASE winner # << >> /\ c = w /\ Decides(r)
  <2>1. /\ term[w] = g
        /\ asked[w] = "master" => Asks(toSwitch[w], g)
    BY <1>3, <1>9 DEF WinnerInv, Claim
  <2>2. ASSUME ForMaster(r, g)
        PROVE  role'[w] = "master" /\ generation' = g
    <3>1. r.role = "master" /\ r.gen = g
      BY <2>2 DEF ForMaster
    <3>2. ~(r.gen < Accepted)
      BY <3>1, <1>5
    <3>3. Accepts(c, r)
      BY <3>1, <3>2, <1>4 DEF Keeps, Levels, Refuses
    <3> QED BY <3>1, <3>3, <1>2, <1>9, PromoteOne DEF Accepts
  <2>3. w' = w /\ g' = g
    BY <1>3 DEF LastWinner
  <2>4. asked'[w] = "master" =>
          \/ Asks(toSwitch'[w], g)
          \/ Quiet(toSwitch'[w]) /\ role'[w] = "master" /\ generation' = g
    BY <2>1, <2>2, <1>3, <1>9
  <2>5. Claim'
    BY <2>1, <2>3, <2>4, <1>3 DEF Claim
  <2> QED BY <2>5, <1>3, <1>6 DEF WinnerInv
<1> QED BY <1>7, <1>8, <1>9
LEMMA OtherRequestWinner ==
  ASSUME RolesInv, WinnerInv, NEW c \in Controllers, HandleMod(c) \/ HandleAsync(c)
  PROVE  WinnerInv'
<1>1. PICK type \in {"mod", "async"} : Pending(c, type) /\ Take(c)
  BY DEF HandleMod, HandleAsync
<1>2. role' = role /\ generation' = generation
  BY HandleModKeeps, HandleAsyncKeeps
<1>3. ~Decides(Head(toSwitch[c]))
  BY <1>1, TakeKeeps DEF Decides
<1>4. Claim'
  BY <1>1, <1>2, <1>3, TakeClaim
<1>5. MayAsk' /\ winner' = winner
  BY <1>1, TakeWinner
<1> QED BY <1>2, <1>4, <1>5 DEF WinnerInv, Accepted

\* Steps that touch no request, role or election.
LEMMA QuietWinner ==
  ASSUME WinnerInv, UNCHANGED <<role, generation, toSwitch, winner, term, asked>>
  PROVE  WinnerInv'
BY DEF WinnerInv, MayAsk, Rightful, Claim, LastWinner, Accepted

LEMMA ControllerWinner ==
  ASSUME RolesInv, WinnerInv, NEW c \in Controllers, ControllerStep(c)
  PROVE  WinnerInv'
<1>1. /\ term \in [Controllers -> Terms] /\ winner \in Seq(Controllers)
      /\ term[c] \in Terms /\ Len(winner) \in Terms /\ term[c] <= Len(winner)
      /\ term = [term EXCEPT ![c] = term[c]]
      /\ \A a, b \in Terms : \A e \in a .. b : e \in Terms /\ e >= a /\ e <= b
      /\ \A e \in Terms : e \in Nat /\ e >= e
  BY RolesAssumption DEF RolesInv, TypeOK, Heard, Terms
<1>2. ASSUME NEW r \in Roles, NEW t \in Terms, Ask(c, r, t), t >= term[c], t <= Len(winner),
             winner' = winner, r = "master" => t >= 1 /\ winner[t] = c
      PROVE  WinnerInv'
  <2> DEFINE q == [type |-> "role", role |-> r, gen |-> t]
  <2>1. q \in Request
    BY ElectionOfRequest DEF Roles
  <2>2. /\ q.gen = t /\ q.type = "role" /\ q.role = r /\ Rightful(q, c, winner)
    BY <1>2 DEF Rightful
  <2>3. Send(c, q) /\ term' = [term EXCEPT ![c] = t] /\ asked' = [asked EXCEPT ![c] = r]
    BY <1>2 DEF Ask
  <2> HIDE DEF q
  <2> QED BY <1>2, <2>1, <2>2, <2>3, SendClaim
<1>3. ASSUME NEW r \in Request, r.gen = term[c], ~Decides(r), Send(c, r),
             UNCHANGED <<winner, term, asked>>
      PROVE  WinnerInv'
  <2>1. Rightful(r, c, winner)
    BY <1>1, <1>3 DEF Rightful, Decides
  <2>2. r.gen >= term[c] /\ term' = [term EXCEPT ![c] = r.gen]
    BY <1>1, <1>3
  <2> QED BY <1>3, <2>1, <2>2, SendClaim
<1>4. CASE AskMaster(c)
  <2>1. CASE /\ Len(winner) < MaxElections
             /\ winner' = Append(winner, c)
             /\ Ask(c, "master", Len(winner) + 1)
    BY <2>1, WinClaim
  <2>2. CASE /\ term[c] > 0 /\ winner[term[c]] = c
             /\ Ask(c, "master", term[c]) /\ UNCHANGED winner
    <3>1. term[c] >= 1 /\ term[c] >= term[c] /\ "master" \in Roles
      BY <1>1, <2>2 DEF Roles
    <3> QED BY <1>1, <1>2, <2>2, <3>1
  <2> QED BY <1>4, <2>1, <2>2 DEF AskMaster
<1>5. CASE AskSlave(c)
  <2>1. PICK t \in term[c] .. Len(winner) : Ask(c, "slave", t) /\ UNCHANGED winner
    BY <1>5 DEF AskSlave
  <2>2. t \in Terms /\ t >= term[c] /\ t <= Len(winner) /\ "slave" \in Roles
    BY <1>1 DEF Roles
  <2> QED BY <1>2, <2>1, <2>2
<1>6. CASE AskEqual(c)
  <2>1. Ask(c, "equal", term[c]) /\ UNCHANGED winner /\ "equal" \in Roles
    BY <1>6 DEF AskEqual, Roles
  <2> QED BY <1>1, <1>2, <2>1
<1>7. CASE AskNoChange(c)
  BY <1>1, <1>3, <1>7, ElectionOfRequest DEF AskNoChange, Decides
<1>8. CASE SendMod(c)
  <2>1. [type |-> "mod", gen |-> term[c]] \in Request
    BY <1>1 DEF Request
  <2> QED BY <1>3, <1>8, <2>1 DEF SendMod, Decides
<1>9. CASE SendAsync(c)
  <2>1. PICK m \in Masks : Send(c, [type |-> "async", mask |-> m, gen |-> term[c]])
    BY <1>9 DEF SendAsync
  <2>2. [type |-> "async", mask |-> m, gen |-> term[c]] \in Request
    BY <1>1 DEF Request
  <2> QED BY <1>3, <1>9, <2>1, <2>2 DEF SendAsync, Decides
<1>10. CASE Receive(c)
  BY <1>10, QuietWinner DEF Receive, datapath
<1> QED BY <1>4, <1>5, <1>6, <1>7, <1>8, <1>9, <1>10 DEF ControllerStep

LEMMA StepWinner ==
  ASSUME RolesInv, WinnerInv, [Next]_vars
  PROVE  WinnerInv'
<1>1. ASSUME NEW c \in Controllers, SwitchStep(c) PROVE WinnerInv'
  <2>1. CASE Connect(c)
    BY <2>1, ConnectKeeps, QuietWinner DEF Connect, channels, outside
  <2> QED BY <1>1, <2>1, HandleRoleWinner, OtherRequestWinner DEF SwitchStep
<1>2. ASSUME NEW e \in Async, Broadcast(e) PROVE WinnerInv'
  BY <1>2, QuietWinner DEF Broadcast, datapath, outside
<1>3. CASE UNCHANGED vars
  BY <1>3, QuietWinner DEF vars, datapath, channels, outside
<1> QED BY <1>1, <1>2, <1>3, ControllerWinner DEF Next

\* Late requests of former winners do not undo the last election: once its
\* winner's request was handled, and until it asks for something else, it is the
\* master.
THEOREM LatestWins == Spec => []LatestWinnerIsMaster
<1>1. ASSUME RolesInv, WinnerInv PROVE LatestWinnerIsMaster
  <2> SUFFICES ASSUME winner # << >>, asked[LastWinner] = "master",
                      \A i \in DOMAIN toSwitch[LastWinner] :
                        toSwitch[LastWinner][i].type # "role"
               PROVE  role[LastWinner] = "master"
    BY DEF LatestWinnerIsMaster, LastWinner
  <2>1. LastWinner \in Controllers
    BY <1>1, EmptySeq DEF LastWinner, RolesInv, TypeOK
  <2>2. DOMAIN toSwitch[LastWinner] = 1 .. Len(toSwitch[LastWinner])
    BY <1>1, <2>1 DEF RolesInv, TypeOK
  <2>3. ~Asks(toSwitch[LastWinner], Len(winner))
    BY <2>2 DEF Asks, ForMaster
  <2> QED BY <1>1, <2>3 DEF WinnerInv, Claim
<1>2. RolesInv /\ WinnerInv /\ [Next]_vars => WinnerInv'
  BY StepWinner
<1> QED BY <1>1, <1>2, InitWinner, Invariance, PTL DEF Spec
------------------------------------------------------------------------------
(* What slaves hear *)

\* Messages that a slave must not get.
IsPacket(m) == m.type \in {"packet_in", "flow_removed"}

\* Channel q to a controller of role r that was told role t: it reads no packet
\* as a slave, and is one if the last reply of the channel will tell it so.
Hears(q, t, r) ==
  /\ \A i \in 1 .. Len(q) : IsPacket(q[i]) => ~KnowsSlave(q, t, i)
  /\ KnowsSlave(q, t, Len(q) + 1) => r = "slave"

HearsInv == \A d \in Controllers : Hears(toCtrl[d], told[d], role[d])

\* What a controller knows before a message depends on those before it only, and
\* a reply makes all before it forgotten.
LEMMA KnowsAppend ==
  ASSUME NEW q \in Seq(Report), NEW m \in Report, NEW t
  PROVE  /\ \A i \in 1 .. Len(q) + 1 :
              KnowsSlave(Append(q, m), t, i) <=> KnowsSlave(q, t, i)
         /\ KnowsSlave(Append(q, m), t, Len(q) + 2) <=>
              IF IsReply(m) THEN m.role = "slave" ELSE KnowsSlave(q, t, Len(q) + 1)
<1> DEFINE p == Append(q, m)
           n == Len(q)
<1>1. n \in Nat /\ p[n + 1] = m /\ \A i \in 1 .. n : p[i] = q[i]
  OBVIOUS
<1> HIDE DEF p, n
<1>2. ASSUME NEW i \in 1 .. n + 1
      PROVE  KnowsSlave(p, t, i) <=> KnowsSlave(q, t, i)
  <2>1. \A j \in 1 .. i - 1 : p[j] = q[j] /\ \A k \in j + 1 .. i - 1 : p[k] = q[k]
    BY <1>1
  <2>2. (\A j \in 1 .. i - 1 : ~IsReply(p[j])) <=> (\A j \in 1 .. i - 1 : ~IsReply(q[j]))
    BY <2>1
  <2>3. \A j \in 1 .. i - 1 : (\A k \in j + 1 .. i - 1 : ~IsReply(p[k]))
                                <=> (\A k \in j + 1 .. i - 1 : ~IsReply(q[k]))
    BY <2>1, Zenon
  <2> QED BY <2>1, <2>2, <2>3, Zenon DEF KnowsSlave
<1>3. (n + 2) - 1 = n + 1 /\ (n + 1) - 1 = n /\ n + 1 \in 1 .. n + 1
  BY <1>1
<1>4. KnowsSlave(p, t, n + 2) <=>
        IF IsReply(m) THEN m.role = "slave" ELSE KnowsSlave(p, t, n + 1)
  <2>1. CASE IsReply(m)
    <3>1. \A j \in 1 .. n : n + 1 \in j + 1 .. n + 1
      BY <1>1
    <3>2. n + 1 \in 1 .. n + 1 /\ \A k : k \notin (n + 1) + 1 .. n + 1
      BY <1>1
    <3>3. \A j \in 1 .. n + 1 : j = n + 1 \/ j \in 1 .. n
      BY <1>1
    <3> QED BY <2>1, <3>1, <3>2, <3>3, <1>1, <1>3, Zenon DEF KnowsSlave
  <2>2. CASE ~IsReply(m)
    <3>1. \A j \in 1 .. n + 1 : j = n + 1 \/ j \in 1 .. n
      BY <1>1
    <3>2. \A j \in 1 .. n : /\ j \in 1 .. n + 1
                            /\ \A k \in j + 1 .. n : k \in j + 1 .. n + 1
                            /\ \A k \in j + 1 .. n + 1 : k = n + 1 \/ k \in j + 1 .. n
      BY <1>1
    <3> QED BY <2>2, <3>1, <3>2, <1>1, <1>3, Zenon DEF KnowsSlave
  <2> QED BY <2>1, <2>2
<1>5. KnowsSlave(p, t, n + 1) <=> KnowsSlave(q, t, n + 1)
  BY <1>2, <1>3
<1> QED BY <1>2, <1>4, <1>5 DEF p, n

\* Reading the first message of a channel changes nothing for those after it.
LEMMA KnowsTail ==
  ASSUME NEW q \in Seq(Report), q # << >>, NEW t, NEW i \in 1 .. Len(q)
  PROVE  KnowsSlave(Tail(q), IF IsReply(Head(q)) THEN Head(q).role ELSE t, i)
           <=> KnowsSlave(q, t, i + 1)
<1> DEFINE p == Tail(q)
           n == Len(q)
           u == IF IsReply(Head(q)) THEN Head(q).role ELSE t
<1>1. n \in Nat /\ n >= 1 /\ Head(q) = q[1] /\ \A j \in 1 .. n - 1 : p[j] = q[j + 1]
  OBVIOUS
<1>2. u = IF IsReply(q[1]) THEN q[1].role ELSE t
  BY <1>1
<1> HIDE DEF p, n, u
<1>3. i \in 1 .. n /\ (i + 1) - 1 = i
  BY DEF n
<1>4. \A j \in 1 .. i - 1 : /\ p[j] = q[j + 1] /\ j + 1 \in 1 .. i /\ j + 1 # 1
                            /\ \A k \in j + 1 .. i - 1 : p[k] = q[k + 1]
  BY <1>1, <1>3
<1>5. /\ \A j \in 1 .. i : j = 1 \/ (j - 1 \in 1 .. i - 1 /\ (j - 1) + 1 = j)
      /\ 1 \in 1 .. i
  BY <1>3
<1>6. \A j \in 1 .. i - 1 :
        (\A k \in j + 1 .. i - 1 : ~IsReply(p[k]))
          <=> (\A k \in (j + 1) + 1 .. i : ~IsReply(q[k]))
  <2> SUFFICES ASSUME NEW j \in 1 .. i - 1
               PROVE  (\A k \in j + 1 .. i - 1 : ~IsReply(p[k]))
                        <=> (\A k \in (j + 1) + 1 .. i : ~IsReply(q[k]))
    OBVIOUS
  <2>1. \A k \in j + 1 .. i - 1 : k + 1 \in (j + 1) + 1 .. i
    BY <1>3
  <2>2. \A k \in (j + 1) + 1 .. i : k - 1 \in j + 1 .. i - 1 /\ (k - 1) + 1 = k
    BY <1>3
  <2> QED BY <1>4, <2>1, <2>2, Zenon
<1>7. (\A j \in 1 .. i - 1 : ~IsReply(p[j])) <=> (\A j \in 1 + 1 .. i : ~IsReply(q[j]))
  <2>1. \A k \in 1 .. i - 1 : k + 1 \in 1 + 1 .. i
    BY <1>3
  <2>2. \A k \in 1 + 1 .. i : k - 1 \in 1 .. i - 1 /\ (k - 1) + 1 = k
    BY <1>3
  <2> QED BY <1>4, <2>1, <2>2, Zenon
<1>8. (\A j \in 1 .. i : ~IsReply(q[j]))
        <=> ~IsReply(q[1]) /\ \A j \in 1 + 1 .. i : ~IsReply(q[j])
  <2>1. \A j \in 1 .. i : j = 1 \/ j \in 1 + 1 .. i
    BY <1>3
  <2>2. \A j \in 1 + 1 .. i : j \in 1 .. i
    BY <1>3
  <2> QED BY <2>1, <2>2, <1>5, Zenon
<1>9. KnowsSlave(q, t, i + 1) <=>
        \/ t = "slave" /\ \A j \in 1 .. i : ~IsReply(q[j])
        \/ /\ IsReply(q[1]) /\ q[1].role = "slave"
           /\ \A j \in 1 + 1 .. i : ~IsReply(q[j])
        \/ \E j \in 1 .. i - 1 : /\ IsReply(q[j + 1]) /\ q[j + 1].role = "slave"
                                 /\ \A k \in (j + 1) + 1 .. i : ~IsReply(q[k])
  <2> DEFINE Last(j) == /\ IsReply(q[j]) /\ q[j].role = "slave"
                        /\ \A k \in j + 1 .. i : ~IsReply(q[k])
  <2>1. KnowsSlave(q, t, i + 1) <=>
          \/ t = "slave" /\ \A j \in 1 .. i : ~IsReply(q[j])
          \/ \E j \in 1 .. i : Last(j)
    BY <1>3, Zenon DEF KnowsSlave
  <2> HIDE DEF Last
  <2>2. (\E j \in 1 .. i : Last(j)) <=> Last(1) \/ \E j \in 1 .. i - 1 : Last(j + 1)
    BY <1>4, <1>5
  <2>3. Last(1) <=> /\ IsReply(q[1]) /\ q[1].role = "slave"
                    /\ \A j \in 1 + 1 .. i : ~IsReply(q[j])
    BY DEF Last
  <2>4. \A j \in 1 .. i - 1 : Last(j + 1) <=>
          /\ IsReply(q[j + 1]) /\ q[j + 1].role = "slave"
          /\ \A k \in (j + 1) + 1 .. i : ~IsReply(q[k])
    BY DEF Last
  <2> QED BY <2>1, <2>2, <2>3, <2>4, Zenon
<1>10. KnowsSlave(p, u, i) <=>
         \/ u = "slave" /\ \A j \in 1 + 1 .. i : ~IsReply(q[j])
         \/ \E j \in 1 .. i - 1 : /\ IsReply(q[j + 1]) /\ q[j + 1].role = "slave"
                                  /\ \A k \in (j + 1) + 1 .. i : ~IsReply(q[k])
  BY <1>4, <1>6, <1>7, Zenon DEF KnowsSlave
<1>11. KnowsSlave(p, u, i) <=> KnowsSlave(q, t, i + 1)
  BY <1>2, <1>8, <1>9, <1>10
<1> QED BY <1>11 DEF p, u

LEMMA HearsAppend ==
  ASSUME NEW q \in Seq(Report), NEW t, NEW r, NEW u, Hears(q, t, r), NEW m \in Report,
         IsReply(m) => (m.role = "slave" => u = "slave"),
         ~IsReply(m) => (r = "slave" => u = "slave"),
         IsPacket(m) => r # "slave"
  PROVE  Hears(Append(q, m), t, u)
<1> DEFINE p == Append(q, m)
           n == Len(q)
<1>1. n \in Nat /\ Len(p) = n + 1 /\ p[n + 1] = m /\ \A i \in 1 .. n : p[i] = q[i]
  OBVIOUS
<1>2. /\ \A i \in 1 .. n + 1 : KnowsSlave(p, t, i) <=> KnowsSlave(q, t, i)
      /\ KnowsSlave(p, t, n + 2) <=>
           IF IsReply(m) THEN m.role = "slave" ELSE KnowsSlave(q, t, n + 1)
  BY KnowsAppend
<1>3. /\ \A i \in 1 .. n : IsPacket(q[i]) => ~KnowsSlave(q, t, i)
      /\ KnowsSlave(q, t, n + 1) => r = "slave"
  BY DEF Hears
<1> HIDE DEF p, n
<1>4. (n + 1) + 1 = n + 2 /\ n + 1 \in 1 .. n + 1
      /\ \A i \in 1 .. n + 1 : i \in 1 .. n \/ i = n + 1
  BY <1>1
<1>5. \A i \in 1 .. n + 1 : IsPacket(p[i]) => ~KnowsSlave(p, t, i)
  BY <1>1, <1>2, <1>3, <1>4
<1>6. KnowsSlave(p, t, n + 2) => u = "slave"
  BY <1>2, <1>3
<1>7. Hears(p, t, u)
  BY <1>1, <1>4, <1>5, <1>6 DEF Hears
<1> QED BY <1>7 DEF p

LEMMA HearsTail ==
  ASSUME NEW q \in Seq(Report), q # << >>, NEW t, NEW r, Hears(q, t, r)
  PROVE  Hears(Tail(q), IF IsReply(Head(q)) THEN Head(q).role ELSE t, r)
<1> DEFINE p == Tail(q)
           n == Len(q)
           u == IF IsReply(Head(q)) THEN Head(q).role ELSE t
<1>1. /\ n \in Nat /\ n >= 1 /\ Len(p) = n - 1 /\ \A j \in 1 .. n - 1 : p[j] = q[j + 1]
  OBVIOUS
<1>2. \A i \in 1 .. n : KnowsSlave(p, u, i) <=> KnowsSlave(q, t, i + 1)
  BY KnowsTail
<1>3. /\ \A i \in 1 .. n : IsPacket(q[i]) => ~KnowsSlave(q, t, i)
      /\ KnowsSlave(q, t, n + 1) => r = "slave"
  BY DEF Hears
<1> HIDE DEF p, n, u
<1>4. /\ n \in 1 .. n /\ (n - 1) + 1 = n
      /\ \A i \in 1 .. n - 1 : i \in 1 .. n /\ i + 1 \in 1 .. n
  BY <1>1
<1>5. \A i \in 1 .. n - 1 : IsPacket(p[i]) => ~KnowsSlave(p, u, i)
  BY <1>1, <1>2, <1>3, <1>4
<1>6. KnowsSlave(p, u, n) => r = "slave"
  BY <1>2, <1>3, <1>4
<1>7. Hears(p, u, r)
  BY <1>1, <1>4, <1>5, <1>6 DEF Hears
<1> QED BY <1>7 DEF p, u

LEMMA InitHears == Init => HearsInv
BY DEF Init, HearsInv, Hears, KnowsSlave

\* Who gets no message stays a slave if it was one.
LEMMA HearsQuiet ==
  ASSUME HearsInv, UNCHANGED <<toCtrl, told>>,
         \A d \in Controllers : role[d] = "slave" => role'[d] = "slave"
  PROVE  HearsInv'
BY DEF HearsInv, Hears

\* One controller gets a reply and changes its role.
LEMMA HearsReply ==
  ASSUME RolesInv, HearsInv, NEW c \in Controllers, NEW m \in Report, Reply(c, m),
         told' = told, ~IsPacket(m),
         IsReply(m) => (m.role = "slave" => role'[c] = "slave"),
         ~IsReply(m) => (role[c] = "slave" => role'[c] = "slave"),
         \A d \in Controllers \ {c} : role[d] = "slave" => role'[d] = "slave"
  PROVE  HearsInv'
<1> SUFFICES ASSUME NEW d \in Controllers PROVE Hears(toCtrl'[d], told[d], role'[d])
  BY DEF HearsInv
<1>1. /\ toCtrl[d] \in Seq(Report)
      /\ toCtrl'[d] = IF d = c THEN Append(toCtrl[c], m) ELSE toCtrl[d]
  BY DEF Reply, RolesInv, TypeOK
<1>2. Hears(toCtrl[d], told[d], role[d])
  BY DEF HearsInv
<1>3. CASE d = c
  <2>1. Hears(Append(toCtrl[d], m), told[d], role'[d])
    BY <1>1, <1>2, <1>3, HearsAppend
  <2> QED BY <1>1, <1>3, <2>1
<1>4. CASE d # c
  BY <1>1, <1>2, <1>4 DEF Hears
<1> QED BY <1>3, <1>4

\* The reply to a role request names the role that the controller has then.
LEMMA HandleRoleHears ==
  ASSUME RolesInv, HearsInv, NEW c \in Controllers, HandleRole(c)
  PROVE  HearsInv'
<1> DEFINE r == Head(toSwitch[c])
<1>1. Pending(c, "role") /\ Take(c)
  BY DEF HandleRole
<1>2. r \in Request /\ r.type = "role" /\ told' = told
  BY <1>1, TakeKeeps DEF Take, outside
<1>3. r.role \in Roles \cup {"nochange"}
  BY <1>2 DEF Request
<1> HIDE DEF r
<1>4. role \in [Controllers -> Roles]
  BY DEF RolesInv, TypeOK
<1>5. ASSUME NEW x \in Roles, Reply(c, [type |-> "role_reply", role |-> x]), role'[c] = x,
             \A d \in Controllers \ {c} : role[d] = "slave" => role'[d] = "slave"
      PROVE  HearsInv'
  <2> DEFINE m == [type |-> "role_reply", role |-> x]
  <2>1. m \in Report /\ ~IsPacket(m) /\ IsReply(m) /\ m.role = x
    BY DEF Report, IsPacket, IsReply
  <2> HIDE DEF m
  <2>2. Reply(c, m)
    BY <1>5 DEF m
  <2> QED BY <1>2, <1>5, <2>1, <2>2, HearsReply
<1>6. CASE /\ r.role = "nochange"
           /\ Reply(c, [type |-> "role_reply", role |-> Granted(c, r.role)])
           /\ UNCHANGED role
  BY <1>4, <1>5, <1>6 DEF Granted
<1>7. CASE /\ r.role = "equal" /\ role' = [role EXCEPT ![c] = "equal"]
           /\ Reply(c, [type |-> "role_reply", role |-> Granted(c, r.role)])
  BY <1>4, <1>5, <1>7 DEF Granted, Roles
<1>8. CASE Reply(c, [type |-> "error"]) /\ UNCHANGED role
  <2>1. [type |-> "error"] \in Report /\ ~IsPacket([type |-> "error"])
        /\ ~IsReply([type |-> "error"])
    BY DEF Report, IsPacket, IsReply
  <2> QED BY <1>2, <1>8, <2>1, HearsReply
<1>9. CASE /\ r.role \in {"master", "slave"}
           /\ role' = IF r.role = "master" THEN Promote(c) ELSE [role EXCEPT ![c] = "slave"]
           /\ Reply(c, [type |-> "role_reply", role |-> Granted(c, r.role)])
  <2>1. role'[c] = r.role /\ Granted(c, r.role) = r.role
    BY <1>4, <1>9 DEF Promote, Granted
  <2>2. \A d \in Controllers \ {c} : role[d] = "slave" => role'[d] = "slave"
    BY <1>4, <1>9 DEF Promote
  <2> QED BY <1>3, <1>5, <1>9, <2>1, <2>2
<1>10. \/ /\ r.role = "nochange"
          /\ Reply(c, [type |-> "role_reply", role |-> Granted(c, r.role)])
          /\ UNCHANGED role
       \/ /\ r.role = "equal" /\ role' = [role EXCEPT ![c] = "equal"]
          /\ Reply(c, [type |-> "role_reply", role |-> Granted(c, r.role)])
       \/ Reply(c, [type |-> "error"]) /\ UNCHANGED role
       \/ /\ r.role \in {"master", "slave"}
          /\ role' = IF r.role = "master" THEN Promote(c) ELSE [role EXCEPT ![c] = "slave"]
          /\ Reply(c, [type |-> "role_reply", role |-> Granted(c, r.role)])
  BY DEF HandleRole, r
<1> QED BY <1>6, <1>7, <1>8, <1>9, <1>10

LEMMA StepHears ==
  ASSUME RolesInv, HearsInv, [Next]_vars
  PROVE  HearsInv'
<1>1. ASSUME NEW c \in Controllers, ControllerStep(c) PROVE HearsInv'
  <2>1. CASE Receive(c)
    <3> SUFFICES ASSUME NEW d \in Controllers PROVE Hears(toCtrl'[d], told'[d], role'[d])
      BY DEF HearsInv
    <3>1. Hears(toCtrl[d], told[d], role[d]) /\ toCtrl[d] \in Seq(Report)
      BY DEF HearsInv, RolesInv, TypeOK
    <3>2. toCtrl[c] # << >> /\ role' = role
      BY <2>1 DEF Receive, datapath
    <3>3. /\ toCtrl'[d] = IF d = c THEN Tail(toCtrl[d]) ELSE toCtrl[d]
          /\ told'[d] = IF d = c
                        THEN IF IsReply(Head(toCtrl[d])) THEN Head(toCtrl[d]).role ELSE told[d]
                        ELSE told[d]
      BY <2>1 DEF Receive, RolesInv, TypeOK, IsReply
    <3> QED BY <3>1, <3>2, <3>3, HearsTail
  <2>2. CASE ~Receive(c)
    <3>1. UNCHANGED <<toCtrl, told, role>>
      BY <1>1, <2>2 DEF ControllerStep, AskMaster, AskSlave, AskEqual, AskNoChange, Ask,
                        SendMod, SendAsync, Send, datapath
    <3> QED BY <3>1, <1>1, HearsQuiet
  <2> QED BY <2>1, <2>2
<1>2. ASSUME NEW c \in Controllers, SwitchStep(c) PROVE HearsInv'
  <2>1. CASE Connect(c)
    BY <2>1, ConnectKeeps, HearsQuiet DEF Connect, channels, outside
  <2>2. CASE HandleMod(c)
    <3>1. told' = told /\ role' = role
      BY <2>2 DEF HandleMod, Take, outside, datapath
    <3>2. CASE Reply(c, [type |-> "error"])
      <4>1. [type |-> "error"] \in Report /\ ~IsPacket([type |-> "error"])
            /\ ~IsReply([type |-> "error"])
        BY DEF Report, IsPacket, IsReply
      <4> QED BY <3>1, <3>2, <4>1, HearsReply
    <3>3. CASE UNCHANGED toCtrl
      BY <3>1, <3>3, HearsQuiet
    <3> QED BY <2>2, <3>2, <3>3 DEF HandleMod
  <2>3. CASE HandleAsync(c)
    BY <2>3, HearsQuiet DEF HandleAsync, Take, outside
  <2> QED BY <1>2, <2>1, <2>2, <2>3, HandleRoleHears DEF SwitchStep
<1>3. ASSUME NEW e \in Async, Broadcast(e) PROVE HearsInv'
  <2> SUFFICES ASSUME NEW d \in Controllers PROVE Hears(toCtrl'[d], told'[d], role'[d])
    BY DEF HearsInv
  <2>1. Hears(toCtrl[d], told[d], role[d]) /\ toCtrl[d] \in Seq(Report)
    BY DEF HearsInv, RolesInv, TypeOK
  <2>2. told' = told /\ role' = role
    BY <1>3 DEF Broadcast, outside, datapath
  <2>3. CASE Wants(d, e) /\ toCtrl'[d] = Append(toCtrl[d], [type |-> e])
    <3> DEFINE m == [type |-> e]
    <3>1. m \in Report /\ ~IsReply(m) /\ (IsPacket(m) => role[d] # "slave")
      BY <2>3 DEF Report, IsReply, IsPacket, Async, Wants
    <3>2. toCtrl'[d] = Append(toCtrl[d], m)
      BY <2>3
    <3> HIDE DEF m
    <3>3. Hears(Append(toCtrl[d], m), told[d], role[d])
      BY <2>1, <3>1, HearsAppend
    <3> QED BY <2>2, <3>2, <3>3
  <2>4. CASE toCtrl'[d] = toCtrl[d]
    BY <2>1, <2>2, <2>4
  <2> QED BY <1>3, <2>3, <2>4 DEF Broadcast
<1>4. CASE UNCHANGED vars
  BY <1>4, HearsQuiet DEF vars, datapath, channels, outside
<1> QED BY <1>1, <1>2, <1>3, <1>4 DEF Next

\* A controller that reads it is a slave reads no packet-in and no flow-removed
\* message after that: replies and asynchronous messages share a channel, and
\* send_openflow_buffer looks at the role that the last reply told.
THEOREM SlavesAreSpared == Spec => []SlavesHearNoPackets
<1>1. ASSUME RolesInv, HearsInv PROVE SlavesHearNoPackets
  <2> SUFFICES ASSUME NEW c \in Controllers, NEW i \in DOMAIN toCtrl[c], IsPacket(toCtrl[c][i])
               PROVE  ~KnowsSlave(toCtrl[c], told[c], i)
    BY DEF SlavesHearNoPackets, IsPacket
  <2>1. DOMAIN toCtrl[c] = 1 .. Len(toCtrl[c])
    BY <1>1 DEF RolesInv, TypeOK
  <2> QED BY <1>1, <2>1 DEF HearsInv, Hears
<1>2. RolesInv /\ HearsInv /\ [Next]_vars => HearsInv'
  BY StepHears
<1> QED BY <1>1, <1>2, InitHears, Invariance, PTL DEF Spec
==============================================================================
