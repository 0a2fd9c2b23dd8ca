------------------------- MODULE SwitchPacketsProofs -------------------------
(***************************************************************************)
(* Proofs about SwitchPackets, for any number of slots, groups, tables and  *)
(* packet-outs, however late or often the controller answers.               *)
(***************************************************************************)
EXTENDS OrderlySwitch, TLAPS

Frame == {f \in [op : Ops, pkt : Nat, acts : Seq(Ending)] :
            f.op = "group" => Head(f.acts) \in Groups}

FramesAreTyped == calls \in Seq(Frame)

\* Calls that end by destroying or giving away their packet.
Owning == {"set", "all", "group", "destroy"}

\* Frame i owns its packet: nothing further out on the stack works on it.
OwnersLast ==
  \A i, j \in DOMAIN calls :
    i < j /\ calls[i].op \in Owning => calls[j].pkt # calls[i].pkt

\* A packet that was saved during this handler is in a slot that cannot be
\* overwritten before the next second.
FramesAreLive ==
  \A i \in DOMAIN calls, k \in Slots :
    ring[k].pkt = calls[i].pkt => Sec < ring[k].timeout

\* Packets with an ns-3 id only are buffered, and not while in the pipeline.
RingOutsidePipeline ==
  \A k \in Slots : ring[k].pkt # FromController /\ ring[k].pkt \notin ids

\* A packet that carries a buffer id is the one in that slot.
IdsNameSlots ==
  \A p \in DOMAIN pkts : pkts[p].bid # NoBuffer => ring[pkts[p].bid.slot].pkt = p

IInv ==
  /\ TypeOK
  /\ SlotsHoldLivePackets
  /\ SavedPacketsHaveASlot
  /\ PipelineNamesLivePackets
  /\ FramesAreTyped
  /\ NoUseAfterFree
  /\ OwnersLast
  /\ FramesAreLive
  /\ RingOutsidePipeline
  /\ IdsNameSlots
  /\ GrantedIdIsNotNoBuffer
------------------------------------------------------------------------------
(* Facts about the constants and the stack *)

LEMMA Constants ==
  /\ NoBuffer \in BufferId
  /\ Sec = now \div TicksPerSec
  /\ \A c \in -1 .. MaxCookie : NextCookie(c) \in 0 .. MaxCookie
  /\ \A i \in Slots : Advance(i) \in Slots
BY BuffersAssumption DEF NoBuffer, BufferId, Slots, Sec, NextCookie, Advance

LEMMA NoPktIsNoPacket == NoPkt \notin Nat
BY DEF NoPkt

LEMMA SecIsNat == ASSUME now \in Nat PROVE Sec \in Nat
BY PacketsAssumption DEF Sec

\* What is on the stack after frames replaced its top.
LEMMA Replaced ==
  ASSUME NEW s \in Seq(Frame), s # << >>, NEW f \in Seq(Frame)
  PROVE  /\ f \o Tail(s) \in Seq(Frame)
         /\ Len(f \o Tail(s)) = Len(f) + Len(s) - 1
         /\ \A i \in 1 .. Len(f) : (f \o Tail(s))[i] = f[i]
         /\ \A i \in Len(f) + 1 .. Len(f) + Len(s) - 1 :
              (f \o Tail(s))[i] = s[i - Len(f) + 1]
OBVIOUS

\* No packet is in two slots.
LEMMA OneSlot ==
  ASSUME SlotsHoldLivePackets, NEW i \in Slots, NEW k \in Slots,
         ring[i].pkt = ring[k].pkt, ring[i].pkt # NoPkt
  PROVE  i = k
<1>1. [slot |-> i, cookie |-> ring[i].cookie] = [slot |-> k, cookie |-> ring[k].cookie]
  BY DEF SlotsHoldLivePackets
<1> QED BY <1>1

LEMMA SeqMonotone ==
  ASSUME NEW S, NEW T, S \subseteq T PROVE Seq(S) \subseteq Seq(T)
OBVIOUS

LEMMA TypedStack ==
  Seq(Frame) \subseteq Seq([op : Ops, pkt : Nat, acts : Seq(Ending)])
<1>1. Frame \subseteq [op : Ops, pkt : Nat, acts : Seq(Ending)]
  BY DEF Frame
<1> QED BY <1>1, SeqMonotone

LEMMA Continued ==
  ASSUME IInv, calls # << >>,
         NEW f \in Seq(Frame), Continue(f),
         \A i \in DOMAIN f : f[i].pkt \in DOMAIN pkts',
         \A j \in 2 .. Len(calls) : calls[j].pkt \in DOMAIN pkts',
         \A i, j \in DOMAIN f :
           i < j /\ f[i].op \in Owning => f[j].pkt # f[i].pkt,
         \A i \in DOMAIN f : \A j \in 2 .. Len(calls) :
           f[i].op \in Owning => calls[j].pkt # f[i].pkt
  PROVE  /\ calls' \in Seq(Frame)
         /\ NoUseAfterFree'
         /\ OwnersLast'
         /\ \A i \in DOMAIN calls' :
              \/ \E j \in DOMAIN f : calls'[i] = f[j]
              \/ \E j \in 2 .. Len(calls) : calls'[i] = calls[j]
<1> DEFINE n == Len(f)
<1>1. calls \in Seq(Frame)
  BY DEF IInv, FramesAreTyped
<1>2. /\ calls' \in Seq(Frame)
      /\ Len(calls') = n + Len(calls) - 1
      /\ \A i \in 1 .. n : calls'[i] = f[i]
      /\ \A i \in n + 1 .. n + Len(calls) - 1 : calls'[i] = calls[i - n + 1]
  BY <1>1, Replaced DEF Continue
<1>3. DOMAIN f = 1 .. n /\ n \in Nat /\ DOMAIN calls' = 1 .. n + Len(calls) - 1
      /\ DOMAIN calls = 1 .. Len(calls) /\ Len(calls) \in Nat
  BY <1>1, <1>2
<1>4. \A i \in DOMAIN calls' :
        \/ i \in DOMAIN f /\ calls'[i] = f[i]
        \/ i > n /\ i - n + 1 \in 2 .. Len(calls) /\ calls'[i] = calls[i - n + 1]
  BY <1>2, <1>3
<1>5. NoUseAfterFree'
  BY <1>4 DEF NoUseAfterFree
<1>6. OwnersLast'
  <2> SUFFICES ASSUME NEW i \in DOMAIN calls', NEW j \in DOMAIN calls',
                      i < j, calls'[i].op \in Owning
               PROVE  calls'[j].pkt # calls'[i].pkt
    BY DEF OwnersLast
  <2>1. CASE j \in DOMAIN f /\ calls'[j] = f[j]
    BY <1>2, <1>3, <2>1
  <2>2. CASE j > n /\ j - n + 1 \in 2 .. Len(calls) /\ calls'[j] = calls[j - n + 1]
    <3>1. CASE i \in DOMAIN f /\ calls'[i] = f[i]
      BY <2>2, <3>1
    <3>2. CASE i > n /\ i - n + 1 \in 2 .. Len(calls) /\ calls'[i] = calls[i - n + 1]
      <4>1. i - n + 1 < j - n + 1 /\ i - n + 1 \in DOMAIN calls
            /\ j - n + 1 \in DOMAIN calls
        BY <1>3, <2>2, <3>2
      <4> QED BY <2>2, <3>2, <4>1 DEF IInv, OwnersLast
    <3> QED BY <1>4, <3>1, <3>2
  <2> QED BY <1>4, <2>1, <2>2
<1>7. \A i \in DOMAIN calls' :
        \/ \E j \in DOMAIN f : calls'[i] = f[j]
        \/ \E j \in 2 .. Len(calls) : calls'[i] = calls[j]
  BY <1>4
<1> QED BY <1>2, <1>5, <1>6, <1>7
------------------------------------------------------------------------------
(* The inductive step, one lemma per shape of action *)

LEMMA FailKeepsInv ==
  ASSUME IInv, NEW a \in Assertions, Fail(a)
  PROVE  IInv'
BY DEF Fail, IInv, TypeOK, SlotsHoldLivePackets, SavedPacketsHaveASlot,
       PipelineNamesLivePackets, FramesAreTyped, NoUseAfterFree, OwnersLast,
       FramesAreLive, RingOutsidePipeline, IdsNameSlots, GrantedIdIsNotNoBuffer,
       Sec, lib, pipe, dev, env

\* The top of the stack.
LEMMA TopFrame ==
  ASSUME IInv, calls # << >>
  PROVE  /\ Top = calls[1] /\ 1 \in DOMAIN calls /\ Top \in Frame
         /\ calls \in Seq(Frame) /\ TopPkt \in DOMAIN pkts /\ TopPkt \in Nat
         /\ \A j \in 2 .. Len(calls) :
              /\ j \in DOMAIN calls /\ calls[j].pkt \in DOMAIN pkts
              /\ Top.op \in Owning => calls[j].pkt # TopPkt
<1>1. calls \in Seq(Frame)
  BY DEF IInv, FramesAreTyped
<1>2. Top = calls[1] /\ 1 \in DOMAIN calls /\ calls[1] \in Frame
      /\ \A j \in 2 .. Len(calls) : j \in DOMAIN calls /\ 1 < j
  BY <1>1 DEF Top
<1> QED
  BY <1>1, <1>2 DEF IInv, NoUseAfterFree, OwnersLast, TopPkt, Frame

\* The C call replaces its frame and changes nothing else.
LEMMA OnlyCallsKeepsInv ==
  ASSUME IInv, calls # << >>, OnlyCalls,
         NEW f \in Seq(Frame), Continue(f),
         \A i \in DOMAIN f : f[i].pkt = TopPkt,
         \A i, j \in DOMAIN f : i < j => f[i].op \notin Owning,
         \A i \in DOMAIN f : f[i].op \in Owning => Top.op \in Owning
  PROVE  IInv'
<1>1. /\ pkts' = pkts /\ ring' = ring /\ idx' = idx /\ valid' = valid /\ ids' = ids
      /\ saved' = saved /\ timers' = timers /\ now' = now /\ arrivals' = arrivals
      /\ answers' = answers /\ uid' = uid /\ offered' = offered /\ failed' = failed
  BY DEF OnlyCalls, lib, pipe, dev, env
<1>2. /\ calls' \in Seq(Frame)
      /\ NoUseAfterFree'
      /\ OwnersLast'
      /\ \A i \in DOMAIN calls' :
           \/ \E j \in DOMAIN f : calls'[i] = f[j]
           \/ \E j \in 2 .. Len(calls) : calls'[i] = calls[j]
  <2>1. \A i \in DOMAIN f : f[i].pkt \in DOMAIN pkts'
    BY <1>1, TopFrame
  <2>2. \A j \in 2 .. Len(calls) : calls[j].pkt \in DOMAIN pkts'
    BY <1>1, TopFrame
  <2>3. \A i \in DOMAIN f : \A j \in 2 .. Len(calls) :
          f[i].op \in Owning => calls[j].pkt # f[i].pkt
    BY TopFrame
  <2>4. \A i, j \in DOMAIN f :
          i < j /\ f[i].op \in Owning => f[j].pkt # f[i].pkt
    OBVIOUS
  <2> QED BY <2>1, <2>2, <2>3, <2>4, Continued
<1>3. FramesAreLive'
  <2> SUFFICES ASSUME NEW i \in DOMAIN calls', NEW k \in Slots,
                      ring[k].pkt = calls'[i].pkt
               PROVE  Sec < ring[k].timeout
    BY <1>1 DEF FramesAreLive, Sec
  <2>1. \E j \in DOMAIN calls : calls'[i].pkt = calls[j].pkt
    BY <1>2, TopFrame DEF TopPkt
  <2> QED BY <2>1 DEF IInv, FramesAreLive
<1>4. TypeOK'
  BY <1>1, <1>2, TypedStack DEF IInv, TypeOK
<1> QED
  BY <1>1, <1>2, <1>3, <1>4 DEF IInv, SlotsHoldLivePackets, SavedPacketsHaveASlot,
     PipelineNamesLivePackets, RingOutsidePipeline, FramesAreTyped, IdsNameSlots,
     GrantedIdIsNotNoBuffer

\* The C call clones the packet of its frame.
LEMMA CloneKeepsInv ==
  ASSUME IInv, calls # << >>, NEW out \in BOOLEAN, NEW f \in Seq(Frame),
         CloneThen(out, f),
         \A i \in DOMAIN f : f[i].pkt \in {TopPkt, NewId},
         \A i, j \in DOMAIN f :
           i < j /\ f[i].op \in Owning => f[j].pkt # f[i].pkt,
         \A i \in DOMAIN f :
           f[i].op \in Owning /\ f[i].pkt = TopPkt => Top.op \in Owning
  PROVE  IInv'
<1>1. CASE ~valid /\ Fail("Invalid packet metadata")
  BY <1>1, FailKeepsInv DEF Assertions
<1>2. CASE valid /\ uid' = NewId /\ Alloc(NewId, out) /\ ids' = ids \cup {NewId}
           /\ Continue(f)
           /\ UNCHANGED <<ring, idx, valid, dev, env, offered, failed>>
  <2>1. /\ ring' = ring /\ idx' = idx /\ valid' = valid
        /\ saved' = saved /\ timers' = timers /\ now' = now /\ arrivals' = arrivals
        /\ answers' = answers /\ offered' = offered /\ failed' = failed
    BY <1>2 DEF dev, env
  <2>2. uid \in Nat /\ NewId = uid + 1 /\ NewId \notin DOMAIN pkts /\ Sec' = Sec
    BY <2>1 DEF IInv, TypeOK, NewId, Sec
  <2>3. /\ DOMAIN pkts' = DOMAIN pkts \cup {NewId}
        /\ \A q \in DOMAIN pkts : pkts'[q] = pkts[q]
        /\ pkts'[NewId] = [bid |-> NoBuffer, out |-> out]
        /\ pkts' \in [DOMAIN pkts' -> [bid : BufferId, out : BOOLEAN]]
    BY <1>2, <2>2, Constants DEF Alloc, IInv, TypeOK
  <2>4. /\ calls' \in Seq(Frame)
        /\ NoUseAfterFree'
        /\ OwnersLast'
        /\ \A i \in DOMAIN calls' :
             \/ \E j \in DOMAIN f : calls'[i] = f[j]
             \/ \E j \in 2 .. Len(calls) : calls'[i] = calls[j]
    <3>1. \A i \in DOMAIN f : f[i].pkt \in DOMAIN pkts'
      BY <2>3, TopFrame
    <3>2. \A j \in 2 .. Len(calls) : calls[j].pkt \in DOMAIN pkts'
      BY <2>3, TopFrame
    <3>3. \A i \in DOMAIN f : \A j \in 2 .. Len(calls) :
            f[i].op \in Owning => calls[j].pkt # f[i].pkt
      BY <2>2, TopFrame
    <3> QED BY <1>2, <3>1, <3>2, <3>3, Continued
  <2>5. FramesAreLive'
    <3> SUFFICES ASSUME NEW i \in DOMAIN calls', NEW k \in Slots,
                        ring[k].pkt = calls'[i].pkt
                 PROVE  Sec < ring[k].timeout
      BY <2>1, <2>2 DEF FramesAreLive
    <3>1. \/ calls'[i].pkt = NewId
          \/ \E j \in DOMAIN calls : calls'[i].pkt = calls[j].pkt
      BY <2>4, TopFrame DEF TopPkt
    <3>2. ring[k].pkt # NewId
      <4>1. ring[k].pkt = NoPkt \/ ring[k].pkt \in DOMAIN pkts
        BY DEF IInv, SlotsHoldLivePackets
      <4>2. NewId \in Nat
        BY <2>2
      <4> QED BY <2>2, <4>1, <4>2, NoPktIsNoPacket
    <3> QED BY <3>1, <3>2 DEF IInv, FramesAreLive
  <2>6. TypeOK'
    <3>1. DOMAIN pkts' \subseteq 0 .. uid' /\ uid' \in Nat
      BY <1>2, <2>2, <2>3 DEF IInv, TypeOK
    <3>2. ids' \subseteq 1 .. uid' /\ saved' \subseteq 1 .. uid'
      BY <1>2, <2>1, <2>2 DEF IInv, TypeOK
    <3>3. timers' \subseteq [pkt : 1 .. uid', at : Nat]
      <4>1. timers \subseteq [pkt : 1 .. uid, at : Nat] /\ 1 .. uid \subseteq 1 .. uid'
        BY <1>2, <2>2 DEF IInv, TypeOK
      <4> QED BY <2>1, <4>1
    <3> QED BY <2>1, <2>3, <2>4, <3>1, <3>2, <3>3, TypedStack DEF IInv, TypeOK
  <2>7. SlotsHoldLivePackets'
    BY <2>1, <2>2, <2>3 DEF IInv, SlotsHoldLivePackets
  <2>8. PipelineNamesLivePackets' /\ SavedPacketsHaveASlot'
    BY <1>2, <2>1, <2>3 DEF IInv, PipelineNamesLivePackets, SavedPacketsHaveASlot
  <2>9. RingOutsidePipeline'
    <3> SUFFICES ASSUME NEW k \in Slots
                 PROVE  ring[k].pkt # FromController /\ ring[k].pkt # NewId
                        /\ ring[k].pkt \notin ids
      BY <1>2, <2>1 DEF RingOutsidePipeline
    <3>1. ring[k].pkt = NoPkt \/ ring[k].pkt \in DOMAIN pkts
      BY DEF IInv, SlotsHoldLivePackets
    <3>2. NewId \in Nat
      BY <2>2
    <3> QED BY <2>2, <3>1, <3>2, NoPktIsNoPacket DEF IInv, RingOutsidePipeline
  <2>10. IdsNameSlots' /\ GrantedIdIsNotNoBuffer'
    BY <2>1, <2>3 DEF IInv, IdsNameSlots, GrantedIdIsNotNoBuffer
  <2> QED BY <2>4, <2>5, <2>6, <2>7, <2>8, <2>9, <2>10 DEF IInv, FramesAreTyped
<1> QED BY <1>1, <1>2 DEF CloneThen
------------------------------------------------------------------------------
(* The actions that only move the stack or clone *)

\* Action lists in a frame are sequences of endings, so are their tails.
LEMMA FrameActs ==
  ASSUME IInv, calls # << >>, Top.acts # << >>
  PROVE  /\ TopAct \in Ending /\ Tail(Top.acts) \in Seq(Ending)
         /\ <<TopAct>> \in Seq(Ending)
BY TopFrame DEF Frame, TopAct

LEMMA CallIsFrame ==
  ASSUME NEW op \in Ops, NEW p \in Nat, NEW acts \in Seq(Ending),
         op = "group" => Head(acts) \in Groups
  PROVE  /\ Call(op, p, acts) \in Frame
         /\ Call(op, p, acts).op = op /\ Call(op, p, acts).pkt = p
BY DEF Call, Frame

LEMMA OneFrame ==
  ASSUME NEW a \in Frame
  PROVE  << a >> \in Seq(Frame) /\ DOMAIN << a >> = {1} /\ << a >>[1] = a
OBVIOUS

LEMMA TwoFrames ==
  ASSUME NEW a \in Frame, NEW b \in Frame
  PROVE  /\ << a, b >> \in Seq(Frame) /\ DOMAIN << a, b >> = {1, 2}
         /\ << a, b >>[1] = a /\ << a, b >>[2] = b
OBVIOUS

LEMMA OnlyCallsPop ==
  ASSUME IInv, calls # << >>, OnlyCalls, Continue(<< >>)
  PROVE  IInv'
<1> DEFINE f == << >>
<1>1. f \in Seq(Frame) /\ DOMAIN f = {}
  OBVIOUS
<1>2. Continue(f)
  OBVIOUS
<1> HIDE DEF f
<1> QED BY <1>1, <1>2, OnlyCallsKeepsInv

LEMMA OnlyCallsOne ==
  ASSUME IInv, calls # << >>, OnlyCalls,
         NEW op \in Ops, NEW acts \in Seq(Ending),
         Continue(<< Call(op, TopPkt, acts) >>),
         op = "group" => Head(acts) \in Groups,
         op \in Owning => Top.op \in Owning
  PROVE  IInv'
<1> DEFINE a == Call(op, TopPkt, acts)
<1>1. a \in Frame /\ a.op = op /\ a.pkt = TopPkt
  BY TopFrame, CallIsFrame
<1> HIDE DEF a
<1> DEFINE f == << a >>
<1>2. f \in Seq(Frame) /\ DOMAIN f = {1} /\ f[1] = a
  BY <1>1, OneFrame
<1>3. Continue(f)
  BY DEF a
<1> HIDE DEF f
<1> QED BY <1>1, <1>2, <1>3, OnlyCallsKeepsInv

LEMMA OnlyCallsTwo ==
  ASSUME IInv, calls # << >>, OnlyCalls,
         NEW op1 \in Ops \ Owning, NEW acts1 \in Seq(Ending),
         NEW op2 \in Ops, NEW acts2 \in Seq(Ending),
         op2 # "group",
         Continue(<< Call(op1, TopPkt, acts1), Call(op2, TopPkt, acts2) >>),
         op2 \in Owning => Top.op \in Owning
  PROVE  IInv'
<1> DEFINE a == Call(op1, TopPkt, acts1)
           b == Call(op2, TopPkt, acts2)
<1>1. /\ a \in Frame /\ a.op = op1 /\ a.pkt = TopPkt
      /\ b \in Frame /\ b.op = op2 /\ b.pkt = TopPkt
  BY TopFrame, CallIsFrame DEF Owning
<1> HIDE DEF a, b
<1> DEFINE f == << a, b >>
<1>2. f \in Seq(Frame) /\ DOMAIN f = {1, 2} /\ f[1] = a /\ f[2] = b
  BY <1>1, TwoFrames
<1>3. Continue(f)
  BY DEF a, b
<1> HIDE DEF f
<1>4. /\ \A i \in DOMAIN f : f[i].pkt = TopPkt
      /\ \A i, j \in DOMAIN f : i < j => f[i].op \notin Owning
      /\ \A i \in DOMAIN f : f[i].op \in Owning => Top.op \in Owning
  BY <1>1, <1>2
<1> QED BY <1>2, <1>3, <1>4, OnlyCallsKeepsInv

\* The clone's frame first, then what is left to do.
LEMMA CloneTwo ==
  ASSUME IInv, calls # << >>, NEW out \in BOOLEAN,
         NEW op1 \in Ops, NEW acts1 \in Seq(Ending),
         NEW op2 \in Ops, NEW acts2 \in Seq(Ending), NEW p \in {TopPkt, NewId},
         op1 = "group" => Head(acts1) \in Groups, op2 # "group",
         CloneThen(out, << Call(op1, NewId, acts1), Call(op2, p, acts2) >>),
         p = NewId => op1 \notin Owning,
         p = TopPkt /\ op2 \in Owning => Top.op \in Owning
  PROVE  IInv'
<1> DEFINE a == Call(op1, NewId, acts1)
           b == Call(op2, p, acts2)
<1>0. NewId \in Nat /\ TopPkt \in Nat /\ TopPkt # NewId
  <2>1. TopPkt \in DOMAIN pkts /\ TopPkt \in Nat
    BY TopFrame
  <2> QED BY <2>1 DEF IInv, TypeOK, NewId
<1>1. /\ a \in Frame /\ a.op = op1 /\ a.pkt = NewId
      /\ b \in Frame /\ b.op = op2 /\ b.pkt = p
  BY <1>0, CallIsFrame
<1> HIDE DEF a, b
<1> DEFINE f == << a, b >>
<1>2. f \in Seq(Frame) /\ DOMAIN f = {1, 2} /\ f[1] = a /\ f[2] = b
  BY <1>1, TwoFrames
<1>3. CloneThen(out, f)
  BY DEF a, b
<1> HIDE DEF f
<1>4. \A i, j \in DOMAIN f :
        i < j /\ f[i].op \in Owning => f[j].pkt # f[i].pkt
  BY <1>0, <1>1, <1>2
<1>5. \A i \in DOMAIN f :
        f[i].op \in Owning /\ f[i].pkt = TopPkt => Top.op \in Owning
  BY <1>0, <1>1, <1>2
<1> QED BY <1>1, <1>2, <1>3, <1>4, <1>5, CloneKeepsInv

LEMMA Acts ==
  /\ << >> \in Seq(Ending)
  /\ \A a \in Ending : << a >> \in Seq(Ending) /\ Head(<< a >>) = a
  /\ Seq(Action) \subseteq Seq(Ending)
  /\ Output \subseteq Ending /\ Groups \subseteq Ending
BY DEF Ending, Action

LEMMA ExecuteActionListStep == IInv /\ ExecuteActionList => IInv'
<1> SUFFICES ASSUME IInv, ExecuteActionList PROVE IInv'
  OBVIOUS
<1>1. calls # << >> /\ Top.op = "list"
  BY DEF ExecuteActionList, Running, Top
<1>2. CASE Top.acts = << >> /\ Continue(<< >>) /\ OnlyCalls
  BY <1>1, <1>2, OnlyCallsPop
<1>3. CASE Top.acts # << >> /\ TopAct \in Groups
           /\ CloneThen(pkts[TopPkt].out,
                << Call("group", NewId, <<TopAct>>),
                   Call("list", TopPkt, Tail(Top.acts)) >>)
  <2>1. pkts[TopPkt].out \in BOOLEAN /\ TopPkt # NewId
    BY <1>1, TopFrame DEF IInv, TypeOK, NewId
  <2>2. /\ <<TopAct>> \in Seq(Ending) /\ Head(<<TopAct>>) \in Groups
        /\ Tail(Top.acts) \in Seq(Ending)
    BY <1>1, <1>3, FrameActs, Acts
  <2>3. /\ "group" \in Ops /\ "list" \in Ops \ Owning /\ "list" # "group"
    BY DEF Ops, Owning
  <2> QED BY <1>1, <1>3, <2>1, <2>2, <2>3, CloneTwo
<1>4. CASE Top.acts # << >>
           /\ Continue(<< Call("out", TopPkt, <<TopAct>>),
                          Call("list", TopPkt, Tail(Top.acts)) >>)
           /\ OnlyCalls
  BY <1>1, <1>4, FrameActs, OnlyCallsTwo DEF Owning, Ops
<1> QED BY <1>2, <1>3, <1>4 DEF ExecuteActionList

LEMMA ActionSetExecuteStep == IInv /\ ActionSetExecute => IInv'
<1> SUFFICES ASSUME IInv, ActionSetExecute PROVE IInv'
  OBVIOUS
<1>1. calls # << >> /\ Top.op = "set"
  BY DEF ActionSetExecute, Running, Top
<1>2. CASE OnlyCalls /\ Continue(<< Call("destroy", TopPkt, << >>) >>)
  BY <1>1, <1>2, Acts, OnlyCallsOne DEF Ops, Owning
<1>3. CASE TopAct \in Groups /\ OnlyCalls
           /\ Continue(<< Call("group", TopPkt, <<TopAct>>) >>)
  BY <1>1, <1>3, Acts, OnlyCallsOne DEF Ops, Owning
<1>4. CASE TopAct \in Output /\ OnlyCalls
           /\ Continue(<< Call("out", TopPkt, <<TopAct>>),
                          Call("destroy", TopPkt, << >>) >>)
  BY <1>1, <1>4, Acts, OnlyCallsTwo DEF Ops, Owning
<1>5. CASE Fail("Invalid packet metadata") \/ Fail("Invalid packet ID")
  BY <1>5, FailKeepsInv DEF Assertions
<1> QED BY <1>2, <1>3, <1>4, <1>5 DEF ActionSetExecute

LEMMA GroupExecuteStep == IInv /\ GroupExecute => IInv'
<1> SUFFICES ASSUME IInv, GroupExecute PROVE IInv'
  OBVIOUS
<1>1. calls # << >> /\ Top.op = "group" /\ OnlyCalls
  BY DEF GroupExecute, Running, Top
<1>2. TopAct \in Groups
  BY <1>1, TopFrame DEF Frame, TopAct
<1>3. /\ GroupTable[TopAct].type \in {"all", "one"}
      /\ GroupTable[TopAct].buckets \in Seq(Action \cup {"none"})
      /\ GroupTable[TopAct].buckets \in Seq(Ending)
  <2>1. Action \cup {"none"} \subseteq Ending
    BY DEF Ending
  <2> QED BY <1>2, <2>1, SeqMonotone, PacketsAssumption
<1>4. CASE Continue(<< Call("all", TopPkt, GroupTable[TopAct].buckets) >>)
  BY <1>1, <1>3, <1>4, OnlyCallsOne DEF Ops, Owning
<1>5. CASE Continue(<< Call("destroy", TopPkt, << >>) >>)
  BY <1>1, <1>5, Acts, OnlyCallsOne DEF Ops, Owning
<1>6. ASSUME NEW i \in 1 .. Len(GroupTable[TopAct].buckets),
             Continue(<< Call("set", TopPkt, << GroupTable[TopAct].buckets[i] >>) >>)
      PROVE  IInv'
  <2>1. GroupTable[TopAct].buckets[i] \in Ending
    BY <1>3
  <2> QED BY <1>1, <1>6, <2>1, Acts, OnlyCallsOne DEF Ops, Owning
<1> QED BY <1>4, <1>5, <1>6 DEF GroupExecute

LEMMA ExecuteAllStep == IInv /\ ExecuteAll => IInv'
<1> SUFFICES ASSUME IInv, ExecuteAll PROVE IInv'
  OBVIOUS
<1>1. calls # << >> /\ Top.op = "all"
  BY DEF ExecuteAll, Running, Top
<1>2. CASE Continue(<< Call("destroy", TopPkt, << >>) >>) /\ OnlyCalls
  BY <1>1, <1>2, Acts, OnlyCallsOne DEF Ops, Owning
<1>3. CASE Top.acts # << >>
           /\ CloneThen(pkts[TopPkt].out,
                << Call("set", NewId, <<TopAct>>),
                   Call("all", TopPkt, Tail(Top.acts)) >>)
  <2>1. pkts[TopPkt].out \in BOOLEAN /\ TopPkt # NewId
    BY <1>1, TopFrame DEF IInv, TypeOK, NewId
  <2>2. <<TopAct>> \in Seq(Ending) /\ Tail(Top.acts) \in Seq(Ending)
    BY <1>1, <1>3, FrameActs
  <2>3. /\ "set" \in Ops /\ "set" # "group" /\ "all" \in Ops
        /\ "all" \in Owning /\ "all" # "group"
    BY DEF Ops, Owning
  <2> QED BY <1>1, <1>3, <2>1, <2>2, <2>3, CloneTwo
<1> QED BY <1>2, <1>3 DEF ExecuteAll

LEMMA OutputPortStep == IInv /\ OutputPort => IInv'
BY OnlyCallsPop, FailKeepsInv DEF OutputPort, Running, Assertions

LEMMA TreatmentActs ==
  ASSUME NEW t \in Treatment
  PROVE  t.apply \in Seq(Ending) /\ << t.end >> \in Seq(Ending)
BY Acts DEF Treatment

LEMMA OutputTableStep == IInv /\ OutputTable => IInv'
<1> SUFFICES ASSUME IInv, OutputTable PROVE IInv'
  OBVIOUS
<1>1. calls # << >>
  BY DEF OutputTable, Running
<1>2. CASE Continue(<< >>) /\ OnlyCalls
  BY <1>1, <1>2, OnlyCallsPop
<1>3. ASSUME NEW t \in Treatments, CloneThen(FALSE, Process(NewId, t))
      PROVE  IInv'
  <2>1. t \in Treatment
    BY PacketsAssumption
  <2>2. TopPkt # NewId
    BY <1>1, TopFrame DEF IInv, TypeOK, NewId
  <2>3. CloneThen(FALSE, << Call("list", NewId, t.apply), Call("set", NewId, << t.end >>) >>)
    BY <1>3 DEF Process
  <2> QED BY <1>1, <2>1, <2>2, <2>3, TreatmentActs, CloneTwo DEF Owning, Ops
<1> QED BY <1>2, <1>3 DEF OutputTable
------------------------------------------------------------------------------
(* The events: a new stack of two calls on one packet *)

\* The stack of a handler that starts on packet p.
LEMMA NewStack ==
  ASSUME NEW p \in Nat, NEW acts \in Seq(Ending), NEW acts2 \in Seq(Ending),
         NEW op \in {"set", "destroy"}, p \in DOMAIN pkts',
         calls' = << Call("list", p, acts), Call(op, p, acts2) >>
  PROVE  /\ calls' \in Seq(Frame)
         /\ NoUseAfterFree'
         /\ OwnersLast'
         /\ \A i \in DOMAIN calls' : calls'[i].pkt = p
<1> DEFINE a == Call("list", p, acts)
           b == Call(op, p, acts2)
<1>1. /\ a \in Frame /\ a.op = "list" /\ a.pkt = p
      /\ b \in Frame /\ b.op = op /\ b.pkt = p
  BY CallIsFrame DEF Ops
<1> HIDE DEF a, b
<1>2. /\ calls' \in Seq(Frame) /\ DOMAIN calls' = {1, 2}
      /\ calls'[1] = a /\ calls'[2] = b
  BY <1>1, TwoFrames DEF a, b
<1> QED BY <1>1, <1>2 DEF NoUseAfterFree, OwnersLast, Owning

\* No handler runs: no packet is in the pipeline's care.
LEMMA SendToPipelineStep == IInv /\ SendToPipeline => IInv'
<1> SUFFICES ASSUME IInv, SendToPipeline PROVE IInv'
  OBVIOUS
<1>1. CASE Fail("Another packet in pipeline")
  BY <1>1, FailKeepsInv DEF Assertions
<1>2. ASSUME ~valid, uid' = NewId, Alloc(NewId, FALSE), SetPacket(NewId),
             NEW t \in Treatments, calls' = Process(NewId, t),
             arrivals' = arrivals + 1,
             UNCHANGED <<ring, idx, dev, now, answers, offered, failed>>
      PROVE  IInv'
  <2>1. /\ ring' = ring /\ idx' = idx /\ saved' = saved /\ timers' = timers
        /\ now' = now /\ answers' = answers /\ offered' = offered
        /\ failed' = failed /\ valid' = TRUE /\ ids' = ids \cup {NewId}
        /\ arrivals' \in Nat
    BY <1>2 DEF dev, SetPacket, IInv, TypeOK
  <2>2. uid \in Nat /\ NewId = uid + 1 /\ NewId \notin DOMAIN pkts /\ NewId \in Nat
    BY DEF IInv, TypeOK, NewId
  <2>3. /\ DOMAIN pkts' = DOMAIN pkts \cup {NewId}
        /\ \A q \in DOMAIN pkts : pkts'[q] = pkts[q]
        /\ pkts'[NewId].bid = NoBuffer
        /\ pkts' \in [DOMAIN pkts' -> [bid : BufferId, out : BOOLEAN]]
    BY <1>2, <2>2, Constants DEF Alloc, IInv, TypeOK
  <2>4. t.apply \in Seq(Ending) /\ << t.end >> \in Seq(Ending)
    BY PacketsAssumption, TreatmentActs
  <2>5. /\ calls' \in Seq(Frame)
        /\ NoUseAfterFree'
        /\ OwnersLast'
        /\ \A i \in DOMAIN calls' : calls'[i].pkt = NewId
    <3>1. calls' = << Call("list", NewId, t.apply), Call("set", NewId, << t.end >>) >>
      BY <1>2 DEF Process
    <3> QED BY <2>2, <2>3, <2>4, <3>1, NewStack
  <2>6. \A k \in Slots : ring[k].pkt # NewId
    <3> SUFFICES ASSUME NEW k \in Slots PROVE ring[k].pkt # NewId
      OBVIOUS
    <3>1. ring[k].pkt = NoPkt \/ ring[k].pkt \in DOMAIN pkts
      BY DEF IInv, SlotsHoldLivePackets
    <3> QED BY <2>2, <3>1, NoPktIsNoPacket
  <2>7. FramesAreLive' /\ RingOutsidePipeline'
    BY <2>1, <2>5, <2>6 DEF IInv, FramesAreLive, RingOutsidePipeline
  <2>8. TypeOK'
    <3>1. DOMAIN pkts' \subseteq 0 .. uid' /\ uid' \in Nat
      BY <1>2, <2>2, <2>3 DEF IInv, TypeOK
    <3>2. ids' \subseteq 1 .. uid' /\ saved' \subseteq 1 .. uid'
      BY <1>2, <2>1, <2>2 DEF IInv, TypeOK
    <3>3. timers' \subseteq [pkt : 1 .. uid', at : Nat]
      <4>1. timers \subseteq [pkt : 1 .. uid, at : Nat] /\ 1 .. uid \subseteq 1 .. uid'
        BY <1>2, <2>2 DEF IInv, TypeOK
      <4> QED BY <2>1, <4>1
    <3> QED BY <2>1, <2>3, <2>5, <3>1, <3>2, <3>3, TypedStack DEF IInv, TypeOK
  <2>9. SlotsHoldLivePackets' /\ PipelineNamesLivePackets' /\ SavedPacketsHaveASlot'
    BY <2>1, <2>2, <2>3 DEF IInv, SlotsHoldLivePackets, PipelineNamesLivePackets,
       SavedPacketsHaveASlot
  <2>10. IdsNameSlots' /\ GrantedIdIsNotNoBuffer'
    BY <2>1, <2>3 DEF IInv, IdsNameSlots, GrantedIdIsNotNoBuffer
  <2> QED BY <2>5, <2>7, <2>8, <2>9, <2>10 DEF IInv, FramesAreTyped
<1> QED BY <1>1, <1>2 DEF SendToPipeline

LEMMA PacketOutDataStep == IInv /\ PacketOutData => IInv'
<1> SUFFICES ASSUME IInv, PacketOutData PROVE IInv'
  OBVIOUS
<1> DEFINE p == FromController
<1>0. PICK acts \in DataLists :
        calls' = << Call("list", p, acts), Call("destroy", p, << >>) >>
  BY DEF PacketOutData
<1>1. /\ ring' = ring /\ idx' = idx /\ saved' = saved /\ timers' = timers
      /\ now' = now /\ arrivals' = arrivals /\ offered' = offered
      /\ failed' = failed /\ valid' = valid /\ ids' = ids /\ uid' = uid
      /\ answers' \in Nat
  BY DEF PacketOutData, dev, pipe, IInv, TypeOK
<1>2. /\ DOMAIN pkts' = DOMAIN pkts \cup {p}
      /\ \A q \in DOMAIN pkts : q # p => pkts'[q] = pkts[q]
      /\ pkts'[p].bid = NoBuffer
      /\ pkts' \in [DOMAIN pkts' -> [bid : BufferId, out : BOOLEAN]]
  BY Constants DEF PacketOutData, Alloc, IInv, TypeOK
<1>3. /\ calls' \in Seq(Frame)
      /\ NoUseAfterFree'
      /\ OwnersLast'
      /\ \A i \in DOMAIN calls' : calls'[i].pkt = p
  <2>1. acts \in Seq(Ending) /\ << >> \in Seq(Ending) /\ p \in Nat
    BY PacketsAssumption, Acts DEF FromController
  <2> QED BY <1>0, <1>2, <2>1, NewStack
<1>4. FramesAreLive' /\ RingOutsidePipeline'
  BY <1>1, <1>3 DEF IInv, FramesAreLive, RingOutsidePipeline
<1>5. TypeOK'
  <2>1. DOMAIN pkts' \subseteq 0 .. uid'
    BY <1>1, <1>2 DEF IInv, TypeOK, FromController
  <2> QED BY <1>1, <1>2, <1>3, <2>1, TypedStack DEF IInv, TypeOK
<1>6. SlotsHoldLivePackets' /\ PipelineNamesLivePackets' /\ SavedPacketsHaveASlot'
  BY <1>1, <1>2 DEF IInv, SlotsHoldLivePackets, PipelineNamesLivePackets,
     SavedPacketsHaveASlot, RingOutsidePipeline
<1>7. IdsNameSlots' /\ GrantedIdIsNotNoBuffer'
  BY <1>1, <1>2 DEF IInv, IdsNameSlots, GrantedIdIsNotNoBuffer
<1> QED BY <1>3, <1>4, <1>5, <1>6, <1>7 DEF IInv, FramesAreTyped

\* The buffered packet p goes back into the pipeline.
LEMMA RetrieveKeepsInv ==
  ASSUME IInv, calls = << >>, ~valid, NEW o \in offered, Holds(ring, o.bid),
         NEW p, p = ring[o.bid.slot].pkt, p \in saved, Retrieve(p, o),
         NEW acts \in Seq(Ending), NEW acts2 \in Seq(Ending),
         NEW op \in {"set", "destroy"},
         calls' = << Call("list", p, acts), Call(op, p, acts2) >>
  PROVE  IInv'
<1> DEFINE s == o.bid.slot
<1>1. s \in Slots /\ o.bid \in BufferId
  BY DEF IInv, TypeOK, BufferId
<1>2. /\ p # NoPkt /\ p \in DOMAIN pkts /\ p \in Nat /\ p # FromController
      /\ \A k \in Slots : ring[k].pkt = p => k = s
  <2>1. p # NoPkt
    BY DEF Holds
  <2>2. p \in DOMAIN pkts
    BY <1>1, <2>1 DEF IInv, SlotsHoldLivePackets
  <2>3. \A k \in Slots : ring[k].pkt = p => k = s
    BY <1>1, <2>1, OneSlot DEF IInv
  <2> QED BY <1>1, <2>1, <2>2, <2>3 DEF IInv, TypeOK, RingOutsidePipeline
<1>3. /\ idx' = idx /\ timers' = timers /\ uid' = uid /\ now' = now
      /\ arrivals' = arrivals /\ offered' = offered /\ failed' = failed
      /\ valid' = TRUE /\ ids' = ids \cup {p} /\ saved' = saved \ {p}
      /\ answers' \in Nat
  BY DEF Retrieve, SetPacket, IInv, TypeOK
<1>4. /\ ring' \in [Slots -> Slot]
      /\ ring'[s] = [ring[s] EXCEPT !.pkt = NoPkt]
      /\ \A k \in Slots \ {s} : ring'[k] = ring[k]
      /\ \A k \in Slots : ring'[k].pkt # p
  <2>1. /\ ring' \in [Slots -> Slot]
        /\ ring'[s] = [ring[s] EXCEPT !.pkt = NoPkt]
        /\ \A k \in Slots \ {s} : ring'[k] = ring[k]
    BY <1>1 DEF Retrieve, Release, IInv, TypeOK, Slot
  <2>2. ring'[s].pkt = NoPkt
    BY <1>1, <2>1 DEF IInv, TypeOK, Slot
  <2> QED BY <1>2, <2>1, <2>2
<1>5. /\ DOMAIN pkts' = DOMAIN pkts
      /\ \A q \in DOMAIN pkts : q # p => pkts'[q] = pkts[q]
      /\ pkts'[p].bid = NoBuffer
      /\ pkts' \in [DOMAIN pkts' -> [bid : BufferId, out : BOOLEAN]]
  BY <1>2, Constants DEF Retrieve, IInv, TypeOK
<1>6. /\ calls' \in Seq(Frame)
      /\ NoUseAfterFree'
      /\ OwnersLast'
      /\ \A i \in DOMAIN calls' : calls'[i].pkt = p
  BY <1>2, <1>5, NewStack
<1>7. \A k \in Slots : ring'[k].pkt = NoPkt
                        \/ (k # s /\ ring'[k] = ring[k] /\ ring[k].pkt # p)
  <2>1. ring'[s].pkt = NoPkt
    BY <1>1, <1>4 DEF IInv, TypeOK, Slot
  <2> QED BY <1>4, <2>1
<1>8. FramesAreLive' /\ RingOutsidePipeline'
  <2>1. FramesAreLive'
    BY <1>4, <1>6 DEF FramesAreLive
  <2>2. NoPkt # FromController /\ NoPkt \notin ids
    BY DEF NoPkt, FromController, IInv, TypeOK
  <2>3. NoPkt # p
    BY <1>2
  <2> QED BY <1>3, <1>7, <2>1, <2>2, <2>3 DEF IInv, RingOutsidePipeline
<1>9. SlotsHoldLivePackets'
  BY <1>5, <1>7 DEF IInv, SlotsHoldLivePackets
<1>10. SavedPacketsHaveASlot'
  <2> SUFFICES ASSUME NEW q \in saved, q # p
               PROVE  \E i \in Slots : ring'[i].pkt = q
    BY <1>3 DEF SavedPacketsHaveASlot
  <2>1. PICK i \in Slots : ring[i].pkt = q
    BY DEF IInv, SavedPacketsHaveASlot
  <2> QED BY <1>4, <2>1
<1>11. PipelineNamesLivePackets'
  BY <1>2, <1>3, <1>5 DEF IInv, PipelineNamesLivePackets
<1>12. TypeOK'
  <2>1. ids' \subseteq 1 .. uid' /\ saved' \subseteq 1 .. uid'
    BY <1>3 DEF IInv, TypeOK
  <2> QED BY <1>3, <1>4, <1>5, <1>6, <2>1, TypedStack DEF IInv, TypeOK
<1>13. IdsNameSlots'
  <2> SUFFICES ASSUME NEW q \in DOMAIN pkts', pkts'[q].bid # NoBuffer
               PROVE  ring'[pkts'[q].bid.slot].pkt = q
    BY DEF IdsNameSlots
  <2>1. q \in DOMAIN pkts /\ q # p /\ pkts'[q] = pkts[q]
    BY <1>5
  <2>2. ring[pkts[q].bid.slot].pkt = q /\ pkts[q].bid.slot \in Slots
    BY <2>1 DEF IInv, IdsNameSlots, TypeOK, BufferId
  <2>3. pkts[q].bid.slot # s
    BY <2>1, <2>2
  <2> QED BY <1>4, <2>1, <2>2, <2>3
<1>14. GrantedIdIsNotNoBuffer'
  BY <1>7 DEF IInv, GrantedIdIsNotNoBuffer
<1> QED BY <1>13, <1>14, <1>6, <1>8, <1>9, <1>10, <1>11, <1>12 DEF IInv, FramesAreTyped

LEMMA RetrieveFails ==
  ASSUME IInv, Fail("Another packet in pipeline") \/ Fail("Packet not found in buffer")
  PROVE  IInv'
BY FailKeepsInv DEF Assertions

LEMMA PacketOutBufferStep == IInv /\ PacketOutBuffer => IInv'
<1> SUFFICES ASSUME IInv, PacketOutBuffer PROVE IInv'
  OBVIOUS
<1>1. PICK o \in offered, acts \in OutLists :
        /\ Answers(o)
        /\ LET p == ring[o.bid.slot].pkt IN
           RetrieveChecks(p,
             /\ calls' = << Call("list", p, acts), Call("destroy", p, << >>) >>
             /\ Retrieve(p, o))
  BY DEF PacketOutBuffer
<1>2. acts \in Seq(Ending) /\ << >> \in Seq(Ending)
  BY PacketsAssumption, Acts
<1>3. calls = << >> /\ Holds(ring, o.bid)
  BY <1>1 DEF Answers, Ready
<1> DEFINE p == ring[o.bid.slot].pkt
<1>4. CASE ~valid /\ p \in saved
           /\ calls' = << Call("list", p, acts), Call("destroy", p, << >>) >>
           /\ Retrieve(p, o)
  BY <1>2, <1>3, <1>4, RetrieveKeepsInv
<1> QED BY <1>1, <1>4, RetrieveFails DEF RetrieveChecks

LEMMA FlowModBufferStep == IInv /\ FlowModBuffer => IInv'
<1> SUFFICES ASSUME IInv, FlowModBuffer PROVE IInv'
  OBVIOUS
<1>1. PICK o \in offered, t \in ResumeTreatments :
        /\ Answers(o)
        /\ LET p == ring[o.bid.slot].pkt IN
           RetrieveChecks(p, calls' = Process(p, t) /\ Retrieve(p, o))
  BY DEF FlowModBuffer
<1>2. t.apply \in Seq(Ending) /\ << t.end >> \in Seq(Ending)
  BY PacketsAssumption, TreatmentActs
<1>3. calls = << >> /\ Holds(ring, o.bid)
  BY <1>1 DEF Answers, Ready
<1> DEFINE p == ring[o.bid.slot].pkt
<1>4. CASE ~valid /\ p \in saved /\ calls' = Process(p, t) /\ Retrieve(p, o)
  <2>1. calls' = << Call("list", p, t.apply), Call("set", p, << t.end >>) >>
    BY <1>4 DEF Process
  <2> QED BY <1>2, <1>3, <1>4, <2>1, RetrieveKeepsInv
<1> QED BY <1>1, <1>4, RetrieveFails DEF RetrieveChecks
------------------------------------------------------------------------------
(* Timers and time *)

LEMMA BufferPacketDeleteStep == IInv /\ BufferPacketDelete => IInv'
<1> SUFFICES ASSUME IInv, BufferPacketDelete PROVE IInv'
  OBVIOUS
<1>1. PICK tm \in timers : timers' = timers \ {tm} /\ saved' = saved \ {tm.pkt}
  BY DEF BufferPacketDelete
<1>2. UNCHANGED <<ring, idx, pkts, valid, ids, now, arrivals, answers, uid, calls,
                  offered, failed>>
  BY DEF BufferPacketDelete, lib, pipe, env
<1> QED
  BY <1>1, <1>2 DEF IInv, TypeOK, SlotsHoldLivePackets, SavedPacketsHaveASlot,
     PipelineNamesLivePackets, FramesAreTyped, NoUseAfterFree, OwnersLast,
     FramesAreLive, RingOutsidePipeline, IdsNameSlots, GrantedIdIsNotNoBuffer, Sec

LEMMA TickStep == IInv /\ Tick => IInv'
<1> SUFFICES ASSUME IInv, Tick PROVE IInv'
  OBVIOUS
<1>1. UNCHANGED <<ring, idx, pkts, valid, ids, saved, timers, arrivals, answers,
                  uid, calls, failed>>
  BY DEF Tick, lib, pipe, dev
<1>2. calls = << >> /\ DOMAIN calls = {} /\ now' \in Nat /\ offered' \subseteq offered
  BY DEF Tick, Ready, IInv, TypeOK
<1> QED
  BY <1>1, <1>2 DEF IInv, TypeOK, SlotsHoldLivePackets, SavedPacketsHaveASlot,
     PipelineNamesLivePackets, FramesAreTyped, NoUseAfterFree, OwnersLast,
     FramesAreLive, RingOutsidePipeline, IdsNameSlots, GrantedIdIsNotNoBuffer
------------------------------------------------------------------------------
(* Output to the controller, and packet_destroy *)

\* The running call ends.
LEMMA Popped ==
  ASSUME IInv, calls # << >>, Continue(<< >>),
         \A j \in 2 .. Len(calls) : calls[j].pkt \in DOMAIN pkts'
  PROVE  /\ calls' \in Seq(Frame)
         /\ NoUseAfterFree'
         /\ OwnersLast'
         /\ \A i \in DOMAIN calls' : \E j \in 2 .. Len(calls) : calls'[i] = calls[j]
<1> DEFINE f == << >>
<1>1. f \in Seq(Frame) /\ DOMAIN f = {} /\ Continue(f)
  OBVIOUS
<1> HIDE DEF f
<1> QED BY <1>1, Continued

\* A packet-in may name any id a packet carries.
LEMMA PacketInIsTyped ==
  ASSUME IInv, calls # << >>, NEW bid \in BufferId, PacketIn(bid)
  PROVE  offered' \subseteq [bid : BufferId, pkt : Nat, at : Nat]
BY TopFrame DEF PacketIn, IInv, TypeOK

LEMMA TopBufferId ==
  ASSUME IInv, calls # << >> PROVE pkts[TopPkt].bid \in BufferId
BY TopFrame DEF IInv, TypeOK

LEMMA SendSavedStep == IInv /\ SendSaved => IInv'
<1> SUFFICES ASSUME IInv, SendSaved PROVE IInv'
  OBVIOUS
<1>1. calls # << >> /\ PacketIn(pkts[TopPkt].bid) /\ Continue(<< >>)
      /\ UNCHANGED <<ring, idx, pkts, valid, ids, saved, timers, now, arrivals,
                     answers, uid, failed>>
  BY DEF SendSaved, Running, lib, pipe, dev, env
<1>2. offered' \subseteq [bid : BufferId, pkt : Nat, at : Nat]
  BY <1>1, TopBufferId, PacketInIsTyped
<1>3. /\ calls' \in Seq(Frame)
      /\ NoUseAfterFree'
      /\ OwnersLast'
      /\ \A i \in DOMAIN calls' : \E j \in DOMAIN calls : calls'[i] = calls[j]
  BY <1>1, TopFrame, Popped
<1>4. FramesAreLive'
  BY <1>1, <1>3 DEF IInv, FramesAreLive, Sec
<1>5. TypeOK'
  BY <1>1, <1>2, <1>3, TypedStack DEF IInv, TypeOK
<1> QED
  BY <1>1, <1>3, <1>4, <1>5 DEF IInv, FramesAreTyped, SlotsHoldLivePackets,
     SavedPacketsHaveASlot, PipelineNamesLivePackets, RingOutsidePipeline,
     IdsNameSlots, GrantedIdIsNotNoBuffer

LEMMA SendUnsavedStep == IInv /\ SendUnsaved => IInv'
<1> SUFFICES ASSUME IInv, SendUnsaved PROVE IInv'
  OBVIOUS
<1>1. calls # << >> /\ PacketIn(pkts[TopPkt].bid) /\ Continue(<< >>)
      /\ UNCHANGED <<ring, pkts, valid, ids, saved, timers, now, arrivals,
                     answers, uid, failed>>
  BY DEF SendUnsaved, Running, lib, pipe, dev, env
<1>2. offered' \subseteq [bid : BufferId, pkt : Nat, at : Nat]
  BY <1>1, TopBufferId, PacketInIsTyped
<1>3. /\ calls' \in Seq(Frame)
      /\ NoUseAfterFree'
      /\ OwnersLast'
      /\ \A i \in DOMAIN calls' : \E j \in DOMAIN calls : calls'[i] = calls[j]
  BY <1>1, TopFrame, Popped
<1>4. FramesAreLive'
  BY <1>1, <1>3 DEF IInv, FramesAreLive, Sec
<1>5. idx' \in Slots
  BY Constants DEF SendUnsaved, IInv, TypeOK
<1>6. TypeOK'
  BY <1>1, <1>2, <1>3, <1>5, TypedStack DEF IInv, TypeOK
<1> QED
  BY <1>1, <1>3, <1>4, <1>6 DEF IInv, FramesAreTyped, SlotsHoldLivePackets,
     SavedPacketsHaveASlot, PipelineNamesLivePackets, RingOutsidePipeline,
     IdsNameSlots, GrantedIdIsNotNoBuffer

\* Packet p, held by no C call, is destroyed; the slot that may hold it is
\* released.
LEMMA DestroyedPacket ==
  ASSUME IInv, NEW p \in DOMAIN pkts, Free(p), NotifyPacketDestroyed(p),
         ring' \in [Slots -> Slot],
         \A k \in Slots : \/ ring'[k] = ring[k] /\ ring[k].pkt # p
                          \/ ring'[k].pkt = NoPkt /\ ring[k].pkt \in {p, NoPkt}
  PROVE  /\ DOMAIN pkts' = DOMAIN pkts \ {p}
         /\ pkts' \in [DOMAIN pkts' -> [bid : BufferId, out : BOOLEAN]]
         /\ ids' \subseteq ids /\ saved' \subseteq saved /\ valid' \in BOOLEAN
         /\ SlotsHoldLivePackets'
         /\ SavedPacketsHaveASlot'
         /\ PipelineNamesLivePackets'
         /\ RingOutsidePipeline'
         /\ IdsNameSlots'
         /\ GrantedIdIsNotNoBuffer'
<1>1. p \in Nat /\ p # NoPkt
  BY NoPktIsNoPacket DEF IInv, TypeOK
<1>2. /\ DOMAIN pkts' = DOMAIN pkts \ {p}
      /\ \A q \in DOMAIN pkts \ {p} : pkts'[q] = pkts[q]
  BY DEF Free, Restrict
<1>3. pkts' \in [DOMAIN pkts' -> [bid : BufferId, out : BOOLEAN]]
  <2>1. pkts' = [q \in DOMAIN pkts \ {p} |-> pkts[q]]
    BY DEF Free, Restrict
  <2>2. \A q \in DOMAIN pkts : pkts[q] \in [bid : BufferId, out : BOOLEAN]
    BY DEF IInv, TypeOK
  <2> QED BY <1>2, <2>1, <2>2
<1>4. /\ ids' \subseteq ids /\ saved' \subseteq saved /\ valid' \in BOOLEAN
      /\ valid' <=> ids' # {}
      /\ p \notin ids'
  <2>1. CASE valid /\ p \in ids /\ DelCopy(p) /\ saved' = saved
    BY <2>1 DEF DelCopy
  <2>2. CASE ~(valid /\ p \in ids) /\ UNCHANGED pipe
             /\ (saved' = saved \/ saved' = saved \ {p})
    <3>1. ids' = ids /\ valid' = valid
      BY <2>2 DEF pipe
    <3>2. valid \in BOOLEAN /\ (valid <=> ids # {})
      BY DEF IInv, TypeOK, PipelineNamesLivePackets
    <3>3. p \notin ids
      BY <2>2, <3>2
    <3> QED BY <2>2, <3>1, <3>2, <3>3
  <2> QED BY <2>1, <2>2 DEF NotifyPacketDestroyed, pipe
<1>5. PipelineNamesLivePackets'
  BY <1>2, <1>4 DEF IInv, PipelineNamesLivePackets
<1>6. SlotsHoldLivePackets'
  <2> SUFFICES ASSUME NEW k \in Slots, ring'[k].pkt # NoPkt
               PROVE  /\ ring'[k].pkt \in DOMAIN pkts'
                      /\ pkts'[ring'[k].pkt].bid =
                           [slot |-> k, cookie |-> ring'[k].cookie]
    BY DEF SlotsHoldLivePackets
  <2>1. ring'[k] = ring[k] /\ ring[k].pkt # p
    OBVIOUS
  <2> QED BY <1>2, <2>1 DEF IInv, SlotsHoldLivePackets
<1>7. RingOutsidePipeline'
  <2>1. NoPkt # FromController /\ NoPkt \notin ids
    BY DEF NoPkt, FromController, IInv, TypeOK
  <2> QED BY <1>4, <2>1 DEF IInv, RingOutsidePipeline
<1>8. p \notin saved'
  <2>1. CASE valid /\ p \in ids /\ saved' = saved
    BY <2>1 DEF IInv, SavedPacketsHaveASlot, RingOutsidePipeline
  <2>2. CASE p = FromController
    BY <2>2, <1>4 DEF IInv, TypeOK, FromController
  <2>3. CASE saved' = saved \ {p}
    BY <2>3
  <2> QED BY <2>1, <2>2, <2>3 DEF NotifyPacketDestroyed
<1>9. SavedPacketsHaveASlot'
  <2> SUFFICES ASSUME NEW q \in saved, q # p
               PROVE  \E k \in Slots : ring'[k].pkt = q
    BY <1>4, <1>8 DEF SavedPacketsHaveASlot
  <2>1. PICK k \in Slots : ring[k].pkt = q
    BY DEF IInv, SavedPacketsHaveASlot
  <2>2. q # NoPkt
    BY NoPktIsNoPacket DEF IInv, TypeOK
  <2> QED BY <2>1, <2>2
<1>10. IdsNameSlots'
  <2> SUFFICES ASSUME NEW q \in DOMAIN pkts', pkts'[q].bid # NoBuffer
               PROVE  ring'[pkts'[q].bid.slot].pkt = q
    BY DEF IdsNameSlots
  <2>1. q \in DOMAIN pkts /\ q # p /\ pkts'[q] = pkts[q] /\ q # NoPkt
    BY <1>2, NoPktIsNoPacket DEF IInv, TypeOK
  <2>2. ring[pkts[q].bid.slot].pkt = q /\ pkts[q].bid.slot \in Slots
    BY <2>1 DEF IInv, IdsNameSlots, TypeOK, BufferId
  <2> QED BY <2>1, <2>2
<1>11. GrantedIdIsNotNoBuffer'
  BY DEF IInv, GrantedIdIsNotNoBuffer
<1> QED BY <1>2, <1>3, <1>4, <1>5, <1>6, <1>7, <1>9, <1>10, <1>11

\* dp_buffers_save overwrites: no C call works on the packet that goes.
LEMMA EvictSavedStep == IInv /\ EvictSaved => IInv'
<1> SUFFICES ASSUME IInv, EvictSaved PROVE IInv'
  OBVIOUS
<1> DEFINE i == Advance(idx)
           p == ring[i].pkt
<1>1. /\ i \in Slots /\ p # NoPkt /\ ~Refuses(ring, i, Sec)
      /\ NotifyPacketDestroyed(p) /\ Free(p) /\ ring' = Release(ring, i)
      /\ UNCHANGED <<idx, timers, now, arrivals, answers, uid, calls, offered,
                     failed>>
  BY Constants DEF EvictSaved, IInv, TypeOK, env
<1> HIDE DEF i
<1>2. p \in DOMAIN pkts /\ \A k \in Slots : ring[k].pkt = p => k = i
  BY <1>1, OneSlot DEF IInv, SlotsHoldLivePackets
<1>3. /\ ring' \in [Slots -> Slot]
      /\ ring'[i].pkt = NoPkt
      /\ \A k \in Slots \ {i} : ring'[k] = ring[k]
  BY <1>1 DEF Release, IInv, TypeOK, Slot
<1>4. \A k \in Slots : \/ ring'[k] = ring[k] /\ ring[k].pkt # p
                       \/ ring'[k].pkt = NoPkt /\ ring[k].pkt \in {p, NoPkt}
  BY <1>2, <1>3
<1>5. /\ DOMAIN pkts' = DOMAIN pkts \ {p}
      /\ pkts' \in [DOMAIN pkts' -> [bid : BufferId, out : BOOLEAN]]
      /\ ids' \subseteq ids /\ saved' \subseteq saved /\ valid' \in BOOLEAN
      /\ SlotsHoldLivePackets'
      /\ SavedPacketsHaveASlot'
      /\ PipelineNamesLivePackets'
      /\ RingOutsidePipeline'
      /\ IdsNameSlots'
      /\ GrantedIdIsNotNoBuffer'
  BY <1>1, <1>2, <1>3, <1>4, DestroyedPacket
<1>6. \A j \in DOMAIN calls : calls[j].pkt # p
  BY <1>1 DEF IInv, FramesAreLive, Refuses
<1>7. NoUseAfterFree' /\ OwnersLast'
  BY <1>1, <1>5, <1>6 DEF IInv, NoUseAfterFree, OwnersLast
<1>8. FramesAreLive'
  <2>1. \A j \in DOMAIN calls : calls[j].pkt # NoPkt
    BY NoPktIsNoPacket DEF IInv, NoUseAfterFree, TypeOK
  <2> QED BY <1>1, <1>3, <2>1 DEF IInv, FramesAreLive, Sec
<1>9. TypeOK'
  BY <1>1, <1>3, <1>5 DEF IInv, TypeOK
<1> QED BY <1>1, <1>5, <1>7, <1>8, <1>9 DEF IInv, FramesAreTyped

LEMMA DestroyStep == IInv /\ Destroy => IInv'
<1> SUFFICES ASSUME IInv, Destroy PROVE IInv'
  OBVIOUS
<1> DEFINE p == TopPkt
           bid == pkts[p].bid
<1>1. calls # << >> /\ Top.op = "destroy" /\ Continue(<< >>)
  BY DEF Destroy, Running, Top
<1>2. CASE OnlyCalls
  BY <1>1, <1>2, OnlyCallsPop
<1>3. CASE /\ ~AlreadySaved(p)
           /\ ring' = IF bid # NoBuffer /\ Holds(ring, bid)
                        THEN Release(ring, bid.slot) ELSE ring
           /\ NotifyPacketDestroyed(p)
           /\ Free(p)
           /\ UNCHANGED <<idx, timers, env, uid, offered, failed>>
  <2>1. /\ p \in DOMAIN pkts /\ 1 \in DOMAIN calls /\ calls[1].pkt = p
        /\ bid \in BufferId
        /\ \A j \in 2 .. Len(calls) : calls[j].pkt \in DOMAIN pkts \ {p}
                                     /\ j \in DOMAIN calls
    BY <1>1, TopFrame, TopBufferId DEF Owning, TopPkt
  <2>2. \A k \in Slots : ring[k].pkt # p
    \* otherwise the slot is live and so was the packet
    <3> SUFFICES ASSUME NEW k \in Slots, ring[k].pkt = p PROVE FALSE
      OBVIOUS
    <3>1. p # NoPkt
      BY <2>1, NoPktIsNoPacket DEF IInv, TypeOK
    <3>2. Sec < ring[k].timeout
      BY <2>1 DEF IInv, FramesAreLive
    <3>3. bid = [slot |-> k, cookie |-> ring[k].cookie]
      BY <3>1 DEF IInv, SlotsHoldLivePackets
    <3>4. bid # NoBuffer
      BY <3>1, <3>3 DEF IInv, GrantedIdIsNotNoBuffer
    <3>5. bid.slot = k /\ bid.cookie = ring[k].cookie
      BY <3>3
    <3>6. AlreadySaved(p)
      BY <3>2, <3>4, <3>5 DEF AlreadySaved, IsAlive
    <3> QED BY <1>3, <3>6
  <2>3. ring' = ring
    <3>1. bid # NoBuffer => ring[bid.slot].pkt = p /\ bid.slot \in Slots
      BY <2>1 DEF IInv, IdsNameSlots, BufferId
    <3> QED BY <1>3, <2>2, <3>1
  <2>4. /\ DOMAIN pkts' = DOMAIN pkts \ {p}
        /\ pkts' \in [DOMAIN pkts' -> [bid : BufferId, out : BOOLEAN]]
        /\ ids' \subseteq ids /\ saved' \subseteq saved /\ valid' \in BOOLEAN
        /\ SlotsHoldLivePackets'
        /\ SavedPacketsHaveASlot'
        /\ PipelineNamesLivePackets'
        /\ RingOutsidePipeline'
        /\ IdsNameSlots'
        /\ GrantedIdIsNotNoBuffer'
    <3>1. ring' \in [Slots -> Slot]
      BY <2>3 DEF IInv, TypeOK
    <3>2. \A k \in Slots : ring'[k] = ring[k] /\ ring[k].pkt # p
      BY <2>2, <2>3
    <3> QED BY <1>3, <2>1, <3>1, <3>2, DestroyedPacket
  <2>5. /\ calls' \in Seq(Frame)
        /\ NoUseAfterFree'
        /\ OwnersLast'
        /\ \A i \in DOMAIN calls' : \E j \in 2 .. Len(calls) : calls'[i] = calls[j]
    BY <1>1, <2>1, <2>4, Popped
  <2>6. FramesAreLive'
    BY <1>3, <2>1, <2>3, <2>5 DEF IInv, FramesAreLive, Sec, env
  <2>7. TypeOK'
    BY <1>3, <2>3, <2>4, <2>5, TypedStack DEF IInv, TypeOK, env
  <2> QED BY <2>4, <2>5, <2>6, <2>7 DEF IInv, FramesAreTyped
<1> QED BY <1>2, <1>3 DEF Destroy

\* The saved packet leaves the pipeline; the calls that still hold it find it
\* in a slot that stays its own for the second.
LEMMA SendAndSaveStep == IInv /\ SendAndSave => IInv'
<1> SUFFICES ASSUME IInv, SendAndSave PROVE IInv'
  OBVIOUS
<1> DEFINE p == TopPkt
           i == Advance(idx)
           bid == [slot |-> i, cookie |-> NextCookie(ring[i].cookie)]
<1>0. calls # << >> /\ i \in Slots /\ ring[i].pkt = NoPkt
  BY Constants DEF SendAndSave, Running, IInv, TypeOK
<1>1. CASE \/ Fail("Invalid packet metadata") \/ Fail("Invalid packet ID")
           \/ Fail("Packet copy still in pipeline")
  BY <1>1, FailKeepsInv DEF Assertions
<1>2. CASE /\ valid /\ ids = {p}
           /\ idx' = i
           /\ ring' = Fill(ring, i, p, Sec)
           /\ pkts' = [pkts EXCEPT ![p].bid = bid]
           /\ saved' = saved \cup {p}
           /\ DelCopy(p)
           /\ ScheduleDelete(p)
           /\ PacketIn(bid)
           /\ Continue(<< >>)
           /\ UNCHANGED <<env, uid, failed>>
  <2> HIDE DEF i
  <2>1. /\ valid' = FALSE /\ ids' = {} /\ now' = now /\ arrivals' = arrivals
        /\ answers' = answers /\ uid' = uid /\ failed' = failed /\ Sec' = Sec
    BY <1>2 DEF DelCopy, env, Sec
  <2>2. p \in DOMAIN pkts /\ p \in 1 .. uid /\ p \in Nat /\ p # FromController
        /\ p # NoPkt
    BY <1>0, <1>2, TopFrame, NoPktIsNoPacket DEF IInv, TypeOK, FromController
  <2>3. /\ bid.cookie \in 0 .. MaxCookie /\ bid \in BufferId /\ bid # NoBuffer
        /\ bid.slot = i
    <3>1. NextCookie(ring[i].cookie) \in 0 .. MaxCookie
      BY <1>0, Constants DEF IInv, TypeOK, Slot
    <3>2. NextCookie(ring[i].cookie) # MaxCookie
      BY <1>0, BuffersAssumption DEF NextCookie, IInv, TypeOK, Slot
    <3>3. bid.cookie # NoBuffer.cookie
      BY <3>2 DEF NoBuffer
    <3> QED BY <1>0, <3>1, <3>3 DEF BufferId
  <2>4. /\ ring' \in [Slots -> Slot]
        /\ ring'[i] = [pkt |-> p, cookie |-> bid.cookie, timeout |-> Sec + 1]
        /\ \A k \in Slots \ {i} : ring'[k] = ring[k]
    <3>1. Sec + 1 \in Nat
      BY SecIsNat DEF IInv, TypeOK
    <3>2. [pkt |-> p, cookie |-> bid.cookie, timeout |-> Sec + 1] \in Slot
      BY <2>2, <2>3, <3>1 DEF Slot
    <3>3. ring' = [ring EXCEPT ![i] =
                     [pkt |-> p, cookie |-> bid.cookie, timeout |-> Sec + 1]]
      BY <1>2 DEF Fill, OverwriteSecs
    <3> QED BY <1>0, <3>2, <3>3 DEF IInv, TypeOK
  <2>5. /\ DOMAIN pkts' = DOMAIN pkts
        /\ pkts' \in [DOMAIN pkts' -> [bid : BufferId, out : BOOLEAN]]
        /\ pkts'[p].bid = bid
        /\ \A q \in DOMAIN pkts : q # p => pkts'[q] = pkts[q]
    BY <1>2, <2>2, <2>3 DEF IInv, TypeOK
  <2>6. \A k \in Slots : ring[k].pkt # p
    BY <1>2 DEF IInv, RingOutsidePipeline
  <2>7. /\ calls' \in Seq(Frame)
        /\ NoUseAfterFree'
        /\ OwnersLast'
        /\ \A n \in DOMAIN calls' : \E j \in DOMAIN calls : calls'[n] = calls[j]
    BY <1>0, <1>2, <2>5, TopFrame, Popped
  <2>8. FramesAreLive'
    <3> SUFFICES ASSUME NEW n \in DOMAIN calls', NEW k \in Slots,
                        ring'[k].pkt = calls'[n].pkt
                 PROVE  Sec < ring'[k].timeout
      BY <2>1 DEF FramesAreLive
    <3>1. CASE k = i
      BY <2>4, <3>1, SecIsNat DEF IInv, TypeOK
    <3>2. CASE k # i
      BY <2>4, <2>7, <3>2 DEF IInv, FramesAreLive
    <3> QED BY <3>1, <3>2
  <2>9. SlotsHoldLivePackets'
    <3> SUFFICES ASSUME NEW k \in Slots, ring'[k].pkt # NoPkt
                 PROVE  /\ ring'[k].pkt \in DOMAIN pkts'
                        /\ pkts'[ring'[k].pkt].bid =
                             [slot |-> k, cookie |-> ring'[k].cookie]
      BY DEF SlotsHoldLivePackets
    <3>1. CASE k = i
      BY <2>2, <2>4, <2>5, <3>1
    <3>2. CASE k # i
      BY <2>4, <2>5, <2>6, <3>2 DEF IInv, SlotsHoldLivePackets
    <3> QED BY <3>1, <3>2
  <2>10. SavedPacketsHaveASlot'
    <3> SUFFICES ASSUME NEW q \in saved \cup {p}
                 PROVE  \E k \in Slots : ring'[k].pkt = q
      BY <1>2 DEF SavedPacketsHaveASlot
    <3>1. CASE q = p
      BY <1>0, <2>4, <3>1
    <3>2. CASE q # p
      <4>1. PICK k \in Slots : ring[k].pkt = q
        BY <3>2 DEF IInv, SavedPacketsHaveASlot
      <4>2. q # NoPkt
        BY <3>2, NoPktIsNoPacket DEF IInv, TypeOK
      <4> QED BY <1>0, <2>4, <4>1, <4>2
    <3> QED BY <3>1, <3>2
  <2>11. PipelineNamesLivePackets'
    BY <2>1 DEF PipelineNamesLivePackets
  <2>12. RingOutsidePipeline'
    BY <2>1, <2>2, <2>4 DEF IInv, RingOutsidePipeline
  <2>13. IdsNameSlots'
    <3> SUFFICES ASSUME NEW q \in DOMAIN pkts', pkts'[q].bid # NoBuffer
                 PROVE  ring'[pkts'[q].bid.slot].pkt = q
      BY DEF IdsNameSlots
    <3>1. CASE q = p
      BY <2>3, <2>4, <2>5, <3>1
    <3>2. CASE q # p
      <4>1. q \in DOMAIN pkts /\ pkts'[q] = pkts[q] /\ q # NoPkt
        BY <2>5, <3>2, NoPktIsNoPacket DEF IInv, TypeOK
      <4>2. ring[pkts[q].bid.slot].pkt = q /\ pkts[q].bid.slot \in Slots
        BY <4>1 DEF IInv, IdsNameSlots, TypeOK, BufferId
      <4> QED BY <1>0, <2>4, <4>1, <4>2
    <3> QED BY <3>1, <3>2
  <2>14. GrantedIdIsNotNoBuffer'
    <3> SUFFICES ASSUME NEW k \in Slots, ring'[k].pkt # NoPkt
                 PROVE  [slot |-> k, cookie |-> ring'[k].cookie] # NoBuffer
      BY DEF GrantedIdIsNotNoBuffer
    <3>1. CASE k = i
      BY <2>3, <2>4, <3>1
    <3>2. CASE k # i
      BY <2>4, <3>2 DEF IInv, GrantedIdIsNotNoBuffer
    <3> QED BY <3>1, <3>2
  <2>15. TypeOK'
    <3>1. offered' \subseteq [bid : BufferId, pkt : Nat, at : Nat]
      BY <1>0, <1>2, <2>3, PacketInIsTyped
    <3>2. timers' \subseteq [pkt : 1 .. uid, at : Nat]
      <4>1. now + 2 * OverwriteSecs * TicksPerSec \in Nat
        BY PacketsAssumption DEF IInv, TypeOK, OverwriteSecs
      <4> QED BY <1>2, <2>2, <4>1 DEF ScheduleDelete, IInv, TypeOK
    <3>3. saved' \subseteq 1 .. uid
      BY <1>2, <2>2 DEF IInv, TypeOK
    <3>4. DOMAIN pkts' \subseteq 0 .. uid' /\ idx' \in Slots
      BY <1>0, <1>2, <2>1, <2>5 DEF IInv, TypeOK
    <3> QED
      BY <2>1, <2>4, <2>5, <2>7, <3>1, <3>2, <3>3, <3>4, TypedStack DEF IInv, TypeOK
  <2> QED
    BY <2>7, <2>8, <2>9, <2>10, <2>11, <2>12, <2>13, <2>14, <2>15
       DEF IInv, FramesAreTyped
<1> QED BY <1>1, <1>2 DEF SendAndSave
------------------------------------------------------------------------------
(* The invariant, and what it gives *)

LEMMA InitInv == Init => IInv
<1> SUFFICES ASSUME Init PROVE IInv
  OBVIOUS
<1>1. /\ ring \in [Slots -> Slot] /\ \A i \in Slots : ring[i].pkt = NoPkt
      /\ idx \in Slots
  BY BuffersAssumption DEF Init, EmptyRing, Slot, Slots
<1>2. DOMAIN pkts = {} /\ pkts \in [DOMAIN pkts -> [bid : BufferId, out : BOOLEAN]]
  BY DEF Init
<1>3. calls = << >> /\ DOMAIN calls = {} /\ calls \in Seq(Frame)
  BY DEF Init
<1>4. TypeOK
  BY <1>1, <1>2, <1>3, TypedStack DEF Init, TypeOK, Assertions
<1>5. NoPkt # FromController
  BY DEF NoPkt, FromController
<1> QED
  BY <1>1, <1>2, <1>3, <1>4, <1>5 DEF Init, IInv, SlotsHoldLivePackets,
     SavedPacketsHaveASlot, PipelineNamesLivePackets, FramesAreTyped, NoUseAfterFree,
     OwnersLast, FramesAreLive, RingOutsidePipeline, IdsNameSlots,
     GrantedIdIsNotNoBuffer

LEMMA StepInv == IInv /\ [Next]_vars => IInv'
<1> SUFFICES ASSUME IInv, [Next]_vars PROVE IInv'
  OBVIOUS
<1>1. CASE Event
  BY <1>1, SendToPipelineStep, PacketOutBufferStep, FlowModBufferStep,
     PacketOutDataStep DEF Event
<1>2. CASE CallStep
  BY <1>2, ExecuteActionListStep, ActionSetExecuteStep, GroupExecuteStep,
     ExecuteAllStep, OutputPortStep, OutputTableStep, SendSavedStep, SendUnsavedStep,
     EvictSavedStep, SendAndSaveStep, DestroyStep DEF CallStep
<1>3. CASE BufferPacketDelete \/ Tick
  BY <1>3, BufferPacketDeleteStep, TickStep
<1>4. CASE UNCHANGED vars
  BY <1>4 DEF vars, IInv, TypeOK, SlotsHoldLivePackets, SavedPacketsHaveASlot,
     PipelineNamesLivePackets, FramesAreTyped, NoUseAfterFree, OwnersLast,
     FramesAreLive, RingOutsidePipeline, IdsNameSlots, GrantedIdIsNotNoBuffer, Sec
<1> QED BY <1>1, <1>2, <1>3, <1>4 DEF Next

LEMMA Invariance == Spec => []IInv
BY InitInv, StepInv, PTL DEF Spec

\* The state keeps its types: every timer, frame, buffer id and packet that any
\* handler leaves behind is well formed.
THEOREM TypeCorrect == Spec => []TypeOK
<1>1. IInv => TypeOK
  BY DEF IInv
<1> QED BY <1>1, Invariance, PTL

\* The library's ring, its packets and the ns-3 side's books agree at every moment:
\* no slot keeps a freed packet, no ns-3 packet outlives its slot, m_pipePkt names
\* live packets only.
THEOREM BooksAlwaysAgree == Spec => []BooksAgree
<1>1. IInv => BooksAgree
  BY DEF IInv, BooksAgree
<1> QED BY <1>1, Invariance, PTL

\* No C call works on a freed struct packet: groups, tables, buffering and the
\* final packet_destroy agree on who owns it.
THEOREM NeverUsedAfterFree == Spec => []NoUseAfterFree
<1>1. IInv => NoUseAfterFree
  BY DEF IInv
<1> QED BY <1>1, Invariance, PTL

\* No packet is saved under the id that means "not buffered".
THEOREM NeverNoBuffer == Spec => []GrantedIdIsNotNoBuffer
<1>1. IInv => GrantedIdIsNotNoBuffer
  BY DEF IInv
<1> QED BY <1>1, Invariance, PTL
------------------------------------------------------------------------------
(* SwitchPackets implements PacketCustody *)

\* A packet is not kept for the controller while it is in the pipeline.
LEMMA Disjoint ==
  ASSUME IInv PROVE ids \cap saved = {} /\ ids \subseteq 1 .. uid /\ saved \subseteq 1 .. uid
                    /\ uid \in Nat /\ (valid <=> ids # {})
BY DEF IInv, SavedPacketsHaveASlot, RingOutsidePipeline, TypeOK, PipelineNamesLivePackets

LEMMA Stutters ==
  ASSUME ids' = ids, saved' = saved, uid' = uid
  PROVE  UNCHANGED Custody!custody
BY DEF Custody!custody

\* The packet a move is about is one the counter has given out.
LEMMA Moves ==
  ASSUME NEW p \in 1 .. uid', Custody!Move(p)
  PROVE  Custody!Next
BY DEF Custody!Next

LEMMA FailStutters ==
  ASSUME NEW a, Fail(a) PROVE UNCHANGED Custody!custody
BY Stutters DEF Fail, pipe, dev

LEMMA CloneCopies ==
  ASSUME IInv, NEW out, NEW f, CloneThen(out, f)
  PROVE  Custody!Next \/ UNCHANGED Custody!custody
<1>1. CASE valid /\ uid' = NewId /\ ids' = ids \cup {NewId} /\ UNCHANGED dev
  <2>1. saved' = saved /\ uid' = uid + 1
    BY <1>1 DEF dev, NewId
  <2>2. NewId \in 1 .. uid' /\ NewId \notin 1 .. uid
    BY <2>1, Disjoint DEF NewId
  <2>3. 1 .. uid' = (1 .. uid) \cup {NewId}
    BY <2>1, Disjoint DEF NewId
  <2>4. Custody!Copy(NewId)
    BY <1>1, <2>1, <2>2, <2>3, Disjoint DEF Custody!Copy, Custody!Known
  <2> QED BY <2>2, <2>4, Moves DEF Custody!Move
<1> QED BY <1>1, FailStutters DEF CloneThen

LEMMA RetrieveResumes ==
  ASSUME IInv, ~valid, NEW p \in saved, NEW o, Retrieve(p, o)
  PROVE  Custody!Next
<1>1. ids = {} /\ ids' = {p} /\ saved' = saved \ {p} /\ uid' = uid /\ p \in 1 .. uid
  BY Disjoint DEF Retrieve, SetPacket
<1>2. Custody!Resume(p)
  BY <1>1 DEF Custody!Resume
<1> QED BY <1>1, <1>2, Moves DEF Custody!Move

LEMMA DestroyFinishes ==
  ASSUME IInv, NEW p, NotifyPacketDestroyed(p), uid' = uid
  PROVE  Custody!Next \/ UNCHANGED Custody!custody
<1>1. CASE p \in ids /\ DelCopy(p) /\ saved' = saved
  <2>1. p \in 1 .. uid /\ p \notin saved /\ ids' = ids \ {p}
    BY <1>1, Disjoint DEF DelCopy
  <2>2. Custody!Finish(p)
    BY <1>1, <2>1 DEF Custody!Finish
  <2> QED BY <2>1, <2>2, Moves DEF Custody!Move
<1>2. CASE UNCHANGED <<pipe, saved>>
  BY <1>2, Stutters DEF pipe
<1>3. CASE saved' = saved \ {p} /\ UNCHANGED pipe
  <2>1. CASE p \in saved
    <3>1. p \in 1 .. uid /\ p \notin ids /\ ids' = ids
      BY <1>3, <2>1, Disjoint DEF pipe
    <3>2. Custody!Expire(p)
      BY <1>3, <2>1, <3>1 DEF Custody!Expire
    <3> QED BY <3>1, <3>2, Moves DEF Custody!Move
  <2>2. CASE p \notin saved
    BY <1>3, <2>2, Stutters DEF pipe
  <2> QED BY <2>1, <2>2
<1> QED BY <1>1, <1>2, <1>3 DEF NotifyPacketDestroyed

LEMMA SaveKeeps ==
  ASSUME IInv, NEW p, ids = {p}, saved' = saved \cup {p}, DelCopy(p), uid' = uid
  PROVE  Custody!Next
<1>1. ids' = {} /\ p \in 1 .. uid
  BY Disjoint DEF DelCopy
<1>2. Custody!Keep(p)
  BY <1>1, Disjoint DEF Custody!Keep
<1> QED BY <1>1, <1>2, Moves DEF Custody!Move

LEMMA ArrivalEnters ==
  ASSUME IInv, SendToPipeline
  PROVE  Custody!Next \/ UNCHANGED Custody!custody
<1>1. CASE ~valid /\ uid' = NewId /\ SetPacket(NewId) /\ UNCHANGED dev
  <2>1. saved' = saved /\ uid' = uid + 1 /\ ids = {} /\ ids' = {NewId}
    BY <1>1, Disjoint DEF dev, NewId, SetPacket
  <2>2. NewId \in 1 .. uid' /\ NewId \notin 1 .. uid
    BY <2>1, Disjoint DEF NewId
  <2>3. 1 .. uid' = (1 .. uid) \cup {NewId}
    BY <2>1, Disjoint DEF NewId
  <2>4. Custody!Enter(NewId)
    BY <2>1, <2>2, <2>3, Disjoint DEF Custody!Enter, Custody!Known
  <2> QED BY <2>2, <2>4, Moves DEF Custody!Move
<1> QED BY <1>1, FailStutters DEF SendToPipeline

LEMMA EventMoves ==
  ASSUME IInv, Event
  PROVE  Custody!Next \/ UNCHANGED Custody!custody
<1>1. CASE PacketOutBuffer \/ FlowModBuffer
  BY <1>1, RetrieveResumes, FailStutters DEF PacketOutBuffer, FlowModBuffer, RetrieveChecks
<1>2. CASE PacketOutData
  BY <1>2, Stutters DEF PacketOutData, pipe, dev
<1> QED BY <1>1, <1>2, ArrivalEnters DEF Event

LEMMA CallMoves ==
  ASSUME IInv, CallStep
  PROVE  Custody!Next \/ UNCHANGED Custody!custody
<1>1. ASSUME OnlyCalls PROVE UNCHANGED Custody!custody
  BY <1>1, Stutters DEF OnlyCalls, pipe, dev
<1>2. CASE ExecuteActionList
  BY <1>1, <1>2, CloneCopies DEF ExecuteActionList
<1>3. CASE ActionSetExecute
  BY <1>1, <1>3, FailStutters DEF ActionSetExecute
<1>4. CASE GroupExecute
  BY <1>1, <1>4 DEF GroupExecute
<1>5. CASE ExecuteAll
  BY <1>1, <1>5, CloneCopies DEF ExecuteAll
<1>6. CASE OutputPort
  BY <1>1, <1>6, FailStutters DEF OutputPort
<1>7. CASE OutputTable
  BY <1>1, <1>7, CloneCopies DEF OutputTable
<1>8. CASE SendSaved \/ SendUnsaved
  BY <1>8, Stutters DEF SendSaved, SendUnsaved, pipe, dev
<1>9. CASE EvictSaved
  BY <1>9, DestroyFinishes DEF EvictSaved
<1>10. CASE SendAndSave
  BY <1>10, FailStutters, SaveKeeps DEF SendAndSave
<1>11. CASE Destroy
  BY <1>1, <1>11, DestroyFinishes DEF Destroy
<1> QED
  BY <1>2, <1>3, <1>4, <1>5, <1>6, <1>7, <1>8, <1>9, <1>10, <1>11 DEF CallStep

LEMMA TimerExpires ==
  ASSUME IInv, BufferPacketDelete
  PROVE  Custody!Next \/ UNCHANGED Custody!custody
<1>1. PICK tm \in timers : saved' = saved \ {tm.pkt}
  BY DEF BufferPacketDelete
<1>2. ids' = ids /\ uid' = uid
  BY DEF BufferPacketDelete, pipe
<1>3. CASE tm.pkt \in saved
  <2>1. tm.pkt \in 1 .. uid' /\ tm.pkt \notin ids
    BY <1>2, <1>3, Disjoint
  <2>2. Custody!Expire(tm.pkt)
    BY <1>1, <1>2, <1>3, <2>1 DEF Custody!Expire
  <2> QED BY <2>1, <2>2, Moves DEF Custody!Move
<1>4. CASE tm.pkt \notin saved
  BY <1>1, <1>2, <1>4, Stutters
<1> QED BY <1>3, <1>4

\* The custody of packets: under way, buffered or done with, one at a time, with
\* no copy left behind when a packet is buffered.
THEOREM KeepsCustody == Spec => CustodySpec
<1>1. Init => Custody!Init
  BY DEF Init, Custody!Init
<1>2. IInv /\ [Next]_vars => [Custody!Next]_(Custody!custody)
  <2> SUFFICES ASSUME IInv, [Next]_vars
               PROVE  Custody!Next \/ UNCHANGED Custody!custody
    OBVIOUS
  <2>1. CASE Tick
    BY <2>1, Stutters DEF Tick, pipe, dev
  <2>2. CASE UNCHANGED vars
    BY <2>2, Stutters DEF vars
  <2> QED BY <2>1, <2>2, EventMoves, CallMoves, TimerExpires DEF Next
<1> QED BY <1>1, <1>2, Invariance, PTL DEF Spec, CustodySpec, Custody!Spec
------------------------------------------------------------------------------
(* What is left behind when a handler is over: the library's calls, next to  *)
(* the slots, are all that keeps a packet.                                    *)

\* Every packet is in a slot or owned by a call that is still to be made.
NoPacketLeaks ==
  \A p \in DOMAIN pkts :
    \/ \E k \in Slots : ring[k].pkt = p
    \/ \E i \in DOMAIN calls : calls[i].op \in Owning /\ calls[i].pkt = p

\* The packet a packet-out brings along is alone in the switch, and the only one
\* that may go to the tables.
ControllersPacket ==
  /\ FromController \in DOMAIN pkts => ~valid
  /\ \A p \in DOMAIN pkts : pkts[p].out => p = FromController

\* With IInv this is inductive: a frame that owns a packet destroys it, hands it on or
\* leaves it in its slot.
LeakInv == NoPacketLeaks /\ ControllersPacket

\* The actions a call has still to carry out on its packet.
Says(f) ==
  IF f.op = "destroy" THEN {}
  ELSE IF f.op \in {"list", "all"} THEN Range(f.acts) ELSE {Head(f.acts)}

\* The frame never leads to another packet-in.
Hushed(f) == Says(f) \subseteq Quiet

\* What a frame has still to do when tables, groups and answers are those of
\* OrderlySwitch.
Fine(f) ==
  /\ f.op \in {"list", "out"} => Says(f) \subseteq Quiet \cup {"ctrl"}
  /\ f.op = "list" => CtrlLast(f.acts)
  /\ f.op \in {"set", "group"} => Says(f) \subseteq Last
  /\ f.op = "all" => Hushed(f)

\* A frame that needs no ns-3 packet: it at most sends a saved packet's id.
Settled(f) ==
  \/ f.op = "destroy"
  \/ f.op \in {"list", "out"} /\ Says(f) \subseteq {"ctrl"}
  \/ f.op = "set" /\ Says(f) \subseteq {"ctrl", "none"}

\* A frame of a packet-out that carries the packet to ports.
OfData(f) ==
  /\ f.pkt = FromController
  /\ \/ f.op = "destroy"
     \/ f.op \in {"list", "out"} /\ Says(f) \subseteq {"port"}

\* Quiet is such a set itself.
LEMMA QuietGroups ==
  /\ "ctrl" \notin Quiet
  /\ \A g \in Quiet \cap Groups : Range(GroupTable[g].buckets) \subseteq Quiet
BY DEF Quiet

LEMMA Names ==
  /\ "ctrl" \notin Groups /\ "port" \notin Groups /\ "none" \notin Groups
  /\ Output \cap Groups = {} /\ "port" \in Ending /\ "ctrl" \in Output
BY PacketsAssumption DEF Output, Ending, Action

\* Last is such a set itself, and has all quiet actions.
LEMMA LastGroups ==
  /\ Quiet \subseteq Last
  /\ \A x \in Last : x \in Groups =>
       \/ x \in Quiet
       \/ GroupTable[x].type = "one" /\ Range(GroupTable[x].buckets) \subseteq Last
  /\ \A x \in Last : x \notin Groups => x \in Quiet \cup {"ctrl"}
<1>1. Quiet \subseteq Last
  <2>1. Quiet \in SUBSET Ending
    BY DEF Quiet
  <2> QED BY <2>1 DEF Last
<1>2. ASSUME NEW x \in Last
      PROVE  /\ x \in Groups =>
                  \/ x \in Quiet
                  \/ GroupTable[x].type = "one" /\ Range(GroupTable[x].buckets) \subseteq Last
             /\ x \notin Groups => x \in Quiet \cup {"ctrl"}
  <2>1. PICK L \in SUBSET Ending :
          /\ x \in L
          /\ \A y \in L : \/ y \in Quiet \cup {"ctrl"}
                          \/ /\ y \in Groups /\ GroupTable[y].type = "one"
                             /\ Range(GroupTable[y].buckets) \subseteq L
    BY DEF Last
  <2>2. L \subseteq Last
    BY <2>1 DEF Last
  <2> QED BY <2>1, <2>2, Names
<1> QED BY <1>1, <1>2

LEMMA SaysCall ==
  ASSUME NEW op, NEW p, NEW acts
  PROVE  /\ op = "destroy" => Says(Call(op, p, acts)) = {}
         /\ op \in {"list", "all"} => Says(Call(op, p, acts)) = Range(acts)
         /\ op \in {"set", "group", "out"} => Says(Call(op, p, acts)) = {Head(acts)}
BY DEF Says, Call

LEMMA ListActs ==
  ASSUME NEW S, NEW s \in Seq(S), s # << >>
  PROVE  Head(s) \in Range(s) /\ Range(Tail(s)) \subseteq Range(s)
<1>1. 1 \in DOMAIN s /\ Head(s) = s[1]
  OBVIOUS
<1>2. \A i \in DOMAIN Tail(s) : i + 1 \in DOMAIN s /\ Tail(s)[i] = s[i + 1]
  OBVIOUS
<1> QED BY <1>1, <1>2 DEF Range

\* After the first output to the controller there is nothing else.
LEMMA CtrlTail ==
  ASSUME NEW S, NEW s \in Seq(S), s # << >>, CtrlLast(s)
  PROVE  /\ CtrlLast(Tail(s))
         /\ Head(s) = "ctrl" => Range(Tail(s)) \subseteq {"ctrl"}
<1>1. 1 \in DOMAIN s /\ Head(s) = s[1]
  OBVIOUS
<1>2. \A i \in DOMAIN Tail(s) : i + 1 \in DOMAIN s /\ Tail(s)[i] = s[i + 1] /\ 1 < i + 1
  OBVIOUS
<1>3. CtrlLast(Tail(s))
  <2> SUFFICES ASSUME NEW i \in DOMAIN Tail(s), NEW j \in DOMAIN Tail(s),
                      i < j, Tail(s)[i] = "ctrl"
               PROVE  Tail(s)[j] = "ctrl"
    BY DEF CtrlLast
  <2>1. i + 1 < j + 1
    OBVIOUS
  <2> QED BY <1>2, <2>1 DEF CtrlLast
<1> QED BY <1>1, <1>2, <1>3 DEF CtrlLast, Range

LEMMA OneAct ==
  ASSUME NEW a PROVE Head(<< a >>) = a /\ Range(<< >>) = {}
BY DEF Range

\* The C calls that only move frames and clone packets.
Pure ==
  \/ ExecuteActionList \/ ActionSetExecute \/ GroupExecute \/ ExecuteAll
  \/ OutputPort \/ OutputTable

\* The clone is owned by one of the frames.
Clones(f) ==
  /\ valid
  /\ uid' = NewId /\ ids' = ids \cup {NewId}
  /\ Alloc(NewId, pkts[TopPkt].out)
  /\ \E i \in DOMAIN f : f[i].op \in Owning /\ f[i].pkt = NewId

\* Frames f take the place of the top frame, and its packet is still owned.
Reframes(f) ==
  /\ f \in Seq(Frame) /\ Continue(f)
  /\ UNCHANGED <<ring, idx, valid, saved, timers, now, arrivals, answers, offered, failed>>
  /\ \/ UNCHANGED <<pkts, ids, uid>> /\ \A i \in DOMAIN f : f[i].pkt = TopPkt
     \/ Clones(f) /\ \A i \in DOMAIN f : f[i].pkt \in {TopPkt, NewId}
  /\ Top.op \in Owning => \E i \in DOMAIN f : f[i].op \in Owning /\ f[i].pkt = TopPkt
  /\ Hushed(Top) => \A i \in DOMAIN f : Hushed(f[i])

\* A frame on the top frame's packet that promises no more than the top one.
Follows(g) ==
  /\ Hushed(Top) => Hushed(g)
  /\ Fine(Top) => Fine(g)
  /\ Settled(Top) => Settled(g)
  /\ OfData(Top) => OfData(g)

\* Frames f go on as the top frame promised, those that may reach the controller
\* last.
Ordered(f) ==
  /\ Fine(Top) =>
       /\ \A i \in DOMAIN f : Fine(f[i]) /\ (Hushed(f[i]) \/ f[i].pkt = TopPkt)
       /\ \A i, j \in DOMAIN f :
            i < j /\ ~Hushed(f[i]) => f[j].pkt = TopPkt /\ Settled(f[j])
  /\ Settled(Top) => \A i \in DOMAIN f : Settled(f[i])
  /\ OfData(Top) => \A i \in DOMAIN f : OfData(f[i])

\* What the assertions of the device's callbacks look for.
Unready ==
  \/ valid /\ TopPkt \notin ids
  \/ /\ ~valid
     /\ \/ Top.op = "list" /\ Top.acts # << >> /\ TopAct \in Groups
        \/ Top.op = "all"
        \/ Top.op = "set" /\ TopAct \in {"miss", "drop"}
        \/ Top.op = "out" /\ TopAct = "table"
        \/ Top.op = "out" /\ TopAct = "port" /\ TopPkt # FromController

\* An assertion fails in one of the calls of Pure.
Fails ==
  Unready /\ (Fail("Invalid packet metadata") \/ Fail("Invalid packet ID"))

\* The ways in which these calls replace the running one: by nothing, by one or two
\* frames on the same packet, or by one on a clone and one on the packet.
LEMMA MovesNone ==
  ASSUME IInv, calls # << >>, OnlyCalls, Continue(<< >>), Top.op \notin Owning
  PROVE  \E f : Reframes(f) /\ Ordered(f)
<1> DEFINE f == << >>
<1>1. f \in Seq(Frame) /\ DOMAIN f = {} /\ Continue(f)
  OBVIOUS
<1> HIDE DEF f
<1>2. Reframes(f)
  BY <1>1 DEF Reframes, OnlyCalls, lib, pipe, dev, env
<1>3. Ordered(f)
  BY <1>1 DEF Ordered
<1> QED BY <1>2, <1>3

LEMMA MovesOne ==
  ASSUME IInv, calls # << >>, OnlyCalls,
         NEW op \in Ops \cap Owning, NEW acts \in Seq(Ending),
         op = "group" => Head(acts) \in Groups,
         Continue(<< Call(op, TopPkt, acts) >>),
         Follows(Call(op, TopPkt, acts))
  PROVE  \E f : Reframes(f) /\ Ordered(f)
<1> DEFINE a == Call(op, TopPkt, acts)
<1>1. a \in Frame /\ a.op = op /\ a.pkt = TopPkt
  BY TopFrame, CallIsFrame
<1>2. Follows(a)
  OBVIOUS
<1> HIDE DEF a
<1> DEFINE f == << a >>
<1>3. f \in Seq(Frame) /\ DOMAIN f = {1} /\ f[1] = a
  BY <1>1, OneFrame
<1>4. Continue(f)
  BY DEF a
<1> HIDE DEF f
<1>5. Reframes(f)
  BY <1>1, <1>2, <1>3, <1>4 DEF Reframes, Follows, OnlyCalls, lib, pipe, dev, env
<1>6. Ordered(f)
  BY <1>1, <1>2, <1>3 DEF Ordered, Follows
<1> QED BY <1>5, <1>6

LEMMA MovesTwo ==
  ASSUME IInv, calls # << >>, OnlyCalls,
         NEW op1 \in Ops, NEW acts1 \in Seq(Ending), op1 # "group",
         NEW op2 \in Ops, NEW acts2 \in Seq(Ending), op2 # "group",
         Continue(<< Call(op1, TopPkt, acts1), Call(op2, TopPkt, acts2) >>),
         Top.op \in Owning => op2 \in Owning,
         Follows(Call(op1, TopPkt, acts1)), Follows(Call(op2, TopPkt, acts2)),
         Fine(Top) /\ ~Hushed(Call(op1, TopPkt, acts1)) => Settled(Call(op2, TopPkt, acts2))
  PROVE  \E f : Reframes(f) /\ Ordered(f)
<1> DEFINE a == Call(op1, TopPkt, acts1)
           b == Call(op2, TopPkt, acts2)
<1>1. /\ a \in Frame /\ a.op = op1 /\ a.pkt = TopPkt
      /\ b \in Frame /\ b.op = op2 /\ b.pkt = TopPkt
  BY TopFrame, CallIsFrame
<1>2. Follows(a) /\ Follows(b) /\ (Fine(Top) /\ ~Hushed(a) => Settled(b))
  OBVIOUS
<1> HIDE DEF a, b
<1> DEFINE f == << a, b >>
<1>3. f \in Seq(Frame) /\ DOMAIN f = {1, 2} /\ f[1] = a /\ f[2] = b
  BY <1>1, TwoFrames
<1>4. Continue(f)
  BY DEF a, b
<1> HIDE DEF f
<1>5. Reframes(f)
  BY <1>1, <1>2, <1>3, <1>4 DEF Reframes, Follows, OnlyCalls, lib, pipe, dev, env
<1>6. Ordered(f)
  BY <1>1, <1>2, <1>3 DEF Ordered, Follows
<1> QED BY <1>5, <1>6

LEMMA MovesClone ==
  ASSUME IInv, calls # << >>,
         NEW op1 \in Ops \cap Owning, NEW acts1 \in Seq(Ending),
         op1 = "group" => Head(acts1) \in Groups,
         NEW op2 \in Ops, NEW acts2 \in Seq(Ending), op2 # "group",
         CloneThen(pkts[TopPkt].out,
                   << Call(op1, NewId, acts1), Call(op2, TopPkt, acts2) >>),
         Top.op \in Owning => op2 \in Owning,
         Hushed(Top) \/ Fine(Top) =>
           Fine(Call(op1, NewId, acts1)) /\ Hushed(Call(op1, NewId, acts1)),
         Follows(Call(op2, TopPkt, acts2)), ~Settled(Top), ~OfData(Top)
  PROVE  (~valid /\ Fail("Invalid packet metadata")) \/ \E f : Reframes(f) /\ Ordered(f)
<1> DEFINE a == Call(op1, NewId, acts1)
           b == Call(op2, TopPkt, acts2)
<1>0. NewId \in Nat
  BY DEF IInv, TypeOK, NewId
<1>1. /\ a \in Frame /\ a.op = op1 /\ a.pkt = NewId
      /\ b \in Frame /\ b.op = op2 /\ b.pkt = TopPkt
  BY <1>0, TopFrame, CallIsFrame
<1>2. /\ Hushed(Top) \/ Fine(Top) => Fine(a) /\ Hushed(a)
      /\ Follows(b) /\ ~Settled(Top) /\ ~OfData(Top)
  OBVIOUS
<1> HIDE DEF a, b
<1> DEFINE f == << a, b >>
<1>3. f \in Seq(Frame) /\ DOMAIN f = {1, 2} /\ f[1] = a /\ f[2] = b
  BY <1>1, TwoFrames
<1>4. CloneThen(pkts[TopPkt].out, f)
  BY DEF a, b
<1> HIDE DEF f
<1>5. CASE valid /\ uid' = NewId /\ Alloc(NewId, pkts[TopPkt].out)
           /\ ids' = ids \cup {NewId} /\ Continue(f)
           /\ UNCHANGED <<ring, idx, valid, dev, env, offered, failed>>
  <2>1. Clones(f)
    BY <1>1, <1>3, <1>5 DEF Clones
  <2>2. Reframes(f)
    BY <1>1, <1>2, <1>3, <1>5, <2>1 DEF Reframes, Follows, dev, env
  <2>3. Ordered(f)
    BY <1>1, <1>2, <1>3 DEF Ordered, Follows
  <2> QED BY <2>2, <2>3
<1> QED BY <1>4, <1>5 DEF CloneThen

LEMMA DestroyFollows == Follows(Call("destroy", TopPkt, << >>))
<1>1. /\ Call("destroy", TopPkt, << >>).op = "destroy"
      /\ Call("destroy", TopPkt, << >>).pkt = TopPkt
  BY DEF Call
<1>2. OfData(Top) => TopPkt = FromController
  BY DEF OfData, TopPkt
<1> QED BY <1>1, <1>2, SaysCall DEF Follows, Hushed, Fine, Settled, OfData

LEMMA CallFields ==
  ASSUME NEW op, NEW p, NEW acts
  PROVE  /\ Call(op, p, acts).op = op /\ Call(op, p, acts).pkt = p
         /\ Call(op, p, acts).acts = acts
BY DEF Call

LEMMA ListMoves ==
  ASSUME IInv, ExecuteActionList
  PROVE  Fails \/ \E f : Reframes(f) /\ Ordered(f)
<1>1. calls # << >> /\ Top.op = "list" /\ Says(Top) = Range(Top.acts)
      /\ Top.op \notin Owning
  BY DEF ExecuteActionList, Running, Top, Says, Owning
<1>2. CASE Top.acts = << >> /\ Continue(<< >>) /\ OnlyCalls
  BY <1>1, <1>2, MovesNone
<1> DEFINE rest == Call("list", TopPkt, Tail(Top.acts))
<1>3. ASSUME Top.acts # << >>
      PROVE  /\ Tail(Top.acts) \in Seq(Ending) /\ << TopAct >> \in Seq(Ending)
             /\ Head(<< TopAct >>) = TopAct
             /\ TopAct \in Says(Top) /\ Says(rest) \subseteq Says(Top)
             /\ CtrlLast(Top.acts) => CtrlLast(Tail(Top.acts))
             /\ CtrlLast(Top.acts) /\ TopAct = "ctrl" => Says(rest) \subseteq {"ctrl"}
  <2>1. Top.acts \in Seq(Ending)
    BY <1>1, TopFrame DEF Frame
  <2>2. Says(rest) = Range(Tail(Top.acts))
    BY SaysCall
  <2> QED BY <1>1, <1>3, <2>1, <2>2, FrameActs, ListActs, OneAct, CtrlTail DEF TopAct
<1>4. ASSUME Top.acts # << >> PROVE Follows(rest)
  <2>1. OfData(Top) => TopPkt = FromController
    BY DEF OfData, TopPkt
  <2> QED BY <1>1, <1>3, <1>4, <2>1, CallFields
          DEF Follows, Hushed, Fine, Settled, OfData
<1>5. CASE Top.acts # << >> /\ TopAct \in Groups
           /\ CloneThen(pkts[TopPkt].out, << Call("group", NewId, <<TopAct>>), rest >>)
  <2> DEFINE a == Call("group", NewId, <<TopAct>>)
  <2>1. Says(a) = {TopAct} /\ a.op = "group"
    BY <1>3, <1>5, SaysCall, CallFields
  <2>2. Hushed(Top) \/ Fine(Top) => TopAct \in Quiet
    BY <1>1, <1>3, <1>5, Names DEF Hushed, Fine
  <2>3. Hushed(Top) \/ Fine(Top) => Fine(a) /\ Hushed(a)
    BY <2>1, <2>2, LastGroups DEF Hushed, Fine
  <2>4. ~Settled(Top) /\ ~OfData(Top)
    BY <1>1, <1>3, <1>5, Names DEF Settled, OfData
  <2>5. ~valid => Unready
    BY <1>1, <1>5 DEF Unready
  <2> HIDE DEF rest
  <2>6. \/ ~valid /\ Fail("Invalid packet metadata")
        \/ \E f : Reframes(f) /\ Ordered(f)
    BY <1>1, <1>3, <1>4, <1>5, <2>3, <2>4, MovesClone DEF Ops, Owning, rest
  <2> QED BY <2>5, <2>6 DEF Fails
<1>6. CASE Top.acts # << >>
           /\ Continue(<< Call("out", TopPkt, <<TopAct>>), rest >>)
           /\ OnlyCalls
  <2> DEFINE a == Call("out", TopPkt, <<TopAct>>)
  <2>1. Says(a) = {TopAct} /\ a.op = "out" /\ a.pkt = TopPkt
    BY <1>3, <1>6, SaysCall, CallFields
  <2>2. OfData(Top) => TopPkt = FromController
    BY DEF OfData, TopPkt
  <2>3. Follows(a)
    BY <1>1, <1>3, <1>6, <2>1, <2>2 DEF Follows, Hushed, Fine, Settled, OfData
  <2>4. Fine(Top) /\ ~Hushed(a) => Settled(rest)
    <3>1. Fine(Top) /\ ~Hushed(a) => TopAct = "ctrl" /\ CtrlLast(Top.acts)
      BY <1>1, <1>3, <1>6, <2>1 DEF Hushed, Fine
    <3>2. rest.op = "list"
      BY CallFields
    <3> QED BY <1>3, <1>6, <3>1, <3>2 DEF Settled
  <2> QED BY <1>1, <1>3, <1>4, <1>6, <2>3, <2>4, MovesTwo DEF Ops, Owning
<1> QED BY <1>2, <1>5, <1>6 DEF ExecuteActionList

LEMMA SetMoves ==
  ASSUME IInv, ActionSetExecute
  PROVE  Fails \/ \E f : Reframes(f) /\ Ordered(f)
<1>1. calls # << >> /\ Top.op = "set" /\ Says(Top) = {TopAct} /\ ~OfData(Top)
  BY DEF ActionSetExecute, Running, Top, Says, TopAct, OfData
<1>2. Call("destroy", TopPkt, << >>).op = "destroy"
  BY CallFields
<1>3. CASE OnlyCalls /\ Continue(<< Call("destroy", TopPkt, << >>) >>)
  BY <1>1, <1>3, DestroyFollows, Acts, MovesOne DEF Ops, Owning
<1>4. CASE TopAct \in Groups /\ OnlyCalls
           /\ Continue(<< Call("group", TopPkt, <<TopAct>>) >>)
  <2>1. Says(Call("group", TopPkt, <<TopAct>>)) = {TopAct}
        /\ Call("group", TopPkt, <<TopAct>>).op = "group"
    BY SaysCall, CallFields, OneAct
  <2>2. ~Settled(Top)
    BY <1>1, <1>4, Names DEF Settled
  <2>3. Follows(Call("group", TopPkt, <<TopAct>>))
    BY <1>1, <2>1, <2>2 DEF Follows, Hushed, Fine
  <2> QED BY <1>1, <1>4, <2>3, Acts, MovesOne DEF Ops, Owning
<1>5. CASE TopAct \in Output /\ OnlyCalls
           /\ Continue(<< Call("out", TopPkt, <<TopAct>>),
                          Call("destroy", TopPkt, << >>) >>)
  <2> DEFINE a == Call("out", TopPkt, <<TopAct>>)
  <2>1. Says(a) = {TopAct} /\ a.op = "out"
    BY SaysCall, CallFields, OneAct
  <2>2. Fine(Top) => TopAct \in Quiet \cup {"ctrl"}
    BY <1>1, <1>5, Names, LastGroups DEF Fine
  <2>3. Settled(Top) => TopAct = "ctrl"
    BY <1>1, <1>5 DEF Settled, Output
  <2>4. Follows(a)
    BY <1>1, <2>1, <2>2, <2>3 DEF Follows, Hushed, Fine, Settled
  <2>5. Settled(Call("destroy", TopPkt, << >>))
    BY <1>2 DEF Settled
  <2> QED BY <1>1, <1>5, <2>4, <2>5, DestroyFollows, Acts, MovesTwo DEF Ops, Owning
<1>6. ASSUME TopAct \in {"miss", "drop"},
             \/ ~valid /\ Fail("Invalid packet metadata")
             \/ valid /\ TopPkt \notin ids /\ Fail("Invalid packet ID")
      PROVE  Fails
  BY <1>1, <1>6 DEF Fails, Unready
<1> QED BY <1>3, <1>4, <1>5, <1>6 DEF ActionSetExecute

LEMMA TopGroup ==
  ASSUME IInv, calls # << >>, Top.op = "group"
  PROVE  /\ TopAct \in Groups /\ Says(Top) = {TopAct}
         /\ GroupTable[TopAct].type \in {"all", "one"}
         /\ GroupTable[TopAct].buckets \in Seq(Action \cup {"none"})
         /\ GroupTable[TopAct].buckets \in Seq(Ending)
         /\ \A i \in 1 .. Len(GroupTable[TopAct].buckets) :
              /\ GroupTable[TopAct].buckets[i] \in Ending
              /\ GroupTable[TopAct].buckets[i] \in Range(GroupTable[TopAct].buckets)
         /\ Hushed(Top) => Range(GroupTable[TopAct].buckets) \subseteq Quiet
<1>1. TopAct \in Groups
  BY TopFrame DEF Frame, TopAct
<1>2. Says(Top) = {TopAct}
  BY DEF Says, TopAct
<1>3. Action \cup {"none"} \subseteq Ending
  BY DEF Ending
<1>4. /\ GroupTable[TopAct].type \in {"all", "one"}
      /\ GroupTable[TopAct].buckets \in Seq(Action \cup {"none"})
      /\ GroupTable[TopAct].buckets \in Seq(Ending)
  BY <1>1, <1>3, SeqMonotone, PacketsAssumption
<1>5. \A i \in 1 .. Len(GroupTable[TopAct].buckets) :
        /\ GroupTable[TopAct].buckets[i] \in Ending
        /\ GroupTable[TopAct].buckets[i] \in Range(GroupTable[TopAct].buckets)
  BY <1>4 DEF Range
<1> QED BY <1>1, <1>2, <1>4, <1>5, QuietGroups DEF Hushed

LEMMA GroupMoves ==
  ASSUME IInv, GroupExecute
  PROVE  \E f : Reframes(f) /\ Ordered(f)
<1>1. calls # << >> /\ Top.op = "group" /\ OnlyCalls /\ ~OfData(Top) /\ ~Settled(Top)
  BY DEF GroupExecute, Running, Top, OfData, Settled
<1> DEFINE buckets == GroupTable[TopAct].buckets
<1>2. /\ TopAct \in Groups /\ Says(Top) = {TopAct}
      /\ buckets \in Seq(Ending)
      /\ Hushed(Top) => Range(buckets) \subseteq Quiet
  BY <1>1, TopGroup
<1>3. Fine(Top) => TopAct \in Last
  BY <1>1, <1>2 DEF Fine
<1>4. Fine(Top) /\ TopAct \in Quiet => Hushed(Top)
  BY <1>2 DEF Hushed
<1>5. CASE GroupTable[TopAct].type = "all" /\ Continue(<< Call("all", TopPkt, buckets) >>)
  <2>1. Says(Call("all", TopPkt, buckets)) = Range(buckets)
        /\ Call("all", TopPkt, buckets).op = "all"
    BY SaysCall, CallFields
  <2>2. Fine(Top) => Hushed(Top)
    BY <1>2, <1>3, <1>4, <1>5, LastGroups
  <2>3. Follows(Call("all", TopPkt, buckets))
    <3>1. Hushed(Top) => Hushed(Call("all", TopPkt, buckets))
      BY <1>2, <2>1 DEF Hushed
    <3> QED BY <1>1, <2>1, <2>2, <3>1 DEF Follows, Fine
  <2> QED BY <1>1, <1>2, <1>5, <2>3, MovesOne DEF Ops, Owning
<1>6. CASE Continue(<< Call("destroy", TopPkt, << >>) >>)
  BY <1>1, <1>6, DestroyFollows, Acts, MovesOne DEF Ops, Owning
<1>7. ASSUME NEW i \in 1 .. Len(buckets), GroupTable[TopAct].type = "one",
             Continue(<< Call("set", TopPkt, << buckets[i] >>) >>)
      PROVE  \E f : Reframes(f) /\ Ordered(f)
  <2>1. buckets[i] \in Ending /\ buckets[i] \in Range(buckets)
    BY <1>1, TopGroup
  <2>2. Says(Call("set", TopPkt, << buckets[i] >>)) = {buckets[i]}
        /\ Call("set", TopPkt, << buckets[i] >>).op = "set"
    BY SaysCall, CallFields, OneAct
  <2>3. Fine(Top) => buckets[i] \in Last
    BY <1>2, <1>3, <1>4, <2>1, LastGroups
  <2>4. Follows(Call("set", TopPkt, << buckets[i] >>))
    <3>1. Hushed(Top) => Hushed(Call("set", TopPkt, << buckets[i] >>))
      BY <1>2, <2>1, <2>2 DEF Hushed
    <3> QED BY <1>1, <2>2, <2>3, <3>1 DEF Follows, Fine
  <2> QED BY <1>1, <1>7, <2>1, <2>4, Acts, MovesOne DEF Ops, Owning
<1> QED BY <1>5, <1>6, <1>7 DEF GroupExecute

LEMMA AllMoves ==
  ASSUME IInv, ExecuteAll
  PROVE  Fails \/ \E f : Reframes(f) /\ Ordered(f)
<1>1. calls # << >> /\ Top.op = "all" /\ Says(Top) = Range(Top.acts)
      /\ ~OfData(Top) /\ ~Settled(Top)
  BY DEF ExecuteAll, Running, Top, Says, OfData, Settled
<1>2. CASE Continue(<< Call("destroy", TopPkt, << >>) >>) /\ OnlyCalls
  BY <1>1, <1>2, DestroyFollows, Acts, MovesOne DEF Ops, Owning
<1>3. CASE Top.acts # << >>
           /\ CloneThen(pkts[TopPkt].out,
                << Call("set", NewId, <<TopAct>>),
                   Call("all", TopPkt, Tail(Top.acts)) >>)
  <2> DEFINE a == Call("set", NewId, <<TopAct>>)
             b == Call("all", TopPkt, Tail(Top.acts))
  <2>1. Top.acts \in Seq(Ending)
    BY <1>1, TopFrame DEF Frame
  <2>2. /\ Tail(Top.acts) \in Seq(Ending) /\ << TopAct >> \in Seq(Ending)
        /\ Head(<< TopAct >>) = TopAct
        /\ TopAct \in Says(Top) /\ Range(Tail(Top.acts)) \subseteq Says(Top)
    BY <1>1, <1>3, <2>1, FrameActs, ListActs, OneAct DEF TopAct
  <2>3. Says(a) = {TopAct} /\ Says(b) = Range(Tail(Top.acts)) /\ a.op = "set" /\ b.op = "all"
    BY <2>2, SaysCall, CallFields
  <2>4. Fine(Top) => Hushed(Top)
    BY <1>1 DEF Fine
  <2>5. Hushed(Top) \/ Fine(Top) => Fine(a) /\ Hushed(a)
    BY <2>2, <2>3, <2>4, LastGroups DEF Hushed, Fine
  <2>6. Follows(b)
    BY <1>1, <2>2, <2>3, <2>4 DEF Follows, Hushed, Fine
  <2>7. \/ ~valid /\ Fail("Invalid packet metadata")
        \/ \E f : Reframes(f) /\ Ordered(f)
    BY <1>1, <1>3, <2>2, <2>5, <2>6, MovesClone DEF Ops, Owning
  <2> QED BY <1>1, <2>7 DEF Fails, Unready
<1> QED BY <1>2, <1>3 DEF ExecuteAll

LEMMA PortMoves ==
  ASSUME IInv, OutputPort
  PROVE  Fails \/ \E f : Reframes(f) /\ Ordered(f)
<1>1. calls # << >> /\ Top.op = "out" /\ TopAct = "port" /\ Top.op \notin Owning
  BY DEF OutputPort, Running, Top, Owning
<1>2. CASE Continue(<< >>) /\ OnlyCalls
  BY <1>1, <1>2, MovesNone
<1>3. CASE (IF valid THEN TopPkt \notin ids ELSE TopPkt # FromController)
           /\ Fail("Invalid packet ID")
  BY <1>1, <1>3 DEF Fails, Unready
<1> QED BY <1>2, <1>3 DEF OutputPort

\* The packet of a packet-out cannot be cloned: no ns-3 packet is behind it.
LEMMA TableMoves ==
  ASSUME IInv, ControllersPacket, OutputTable
  PROVE  Fails \/ \E f : Reframes(f) /\ Ordered(f)
<1>1. calls # << >> /\ Top.op = "out" /\ TopAct = "table" /\ Top.op \notin Owning
  BY DEF OutputTable, Running, Top, Owning
<1>2. CASE Continue(<< >>) /\ OnlyCalls
  BY <1>1, <1>2, MovesNone
<1>3. ASSUME pkts[TopPkt].out, NEW t, CloneThen(FALSE, Process(NewId, t))
      PROVE  Fails
  <2>1. ~valid
    BY <1>1, <1>3, TopFrame DEF ControllersPacket
  <2> QED BY <1>1, <1>3, <2>1 DEF CloneThen, Fails, Unready
<1> QED BY <1>2, <1>3 DEF OutputTable

LEMMA PureMoves ==
  ASSUME IInv, ControllersPacket, Pure
  PROVE  calls # << >> /\ (Fails \/ \E f : Reframes(f) /\ Ordered(f))
<1>1. calls # << >>
  BY DEF Pure, ExecuteActionList, ActionSetExecute, GroupExecute, ExecuteAll,
         OutputPort, OutputTable, Running
<1> QED BY <1>1, ListMoves, SetMoves, GroupMoves, AllMoves, PortMoves, TableMoves DEF Pure

\* Where the frames are after frames f took the place of the top one.
LEMMA Restacked ==
  ASSUME IInv, calls # << >>, NEW f \in Seq(Frame), Continue(f)
  PROVE  /\ \A i \in DOMAIN f : i \in DOMAIN calls' /\ calls'[i] = f[i]
         /\ \A j \in 2 .. Len(calls) :
              \E i \in DOMAIN calls' : calls'[i] = calls[j]
         /\ \A i \in DOMAIN calls' :
              \/ i \in DOMAIN f /\ calls'[i] = f[i]
              \/ \E j \in 2 .. Len(calls) :
                   calls'[i] = calls[j] /\ i = Len(f) + j - 1
<1>1. calls \in Seq(Frame)
  BY DEF IInv, FramesAreTyped
<1>2. /\ calls' \in Seq(Frame)
      /\ Len(calls') = Len(f) + Len(calls) - 1
      /\ \A i \in 1 .. Len(f) : calls'[i] = f[i]
      /\ \A i \in Len(f) + 1 .. Len(f) + Len(calls) - 1 :
           calls'[i] = calls[i - Len(f) + 1]
  BY <1>1, Replaced DEF Continue
<1>3. DOMAIN f = 1 .. Len(f) /\ Len(f) \in Nat /\ Len(calls) \in Nat
      /\ DOMAIN calls' = 1 .. Len(f) + Len(calls) - 1
  BY <1>1, <1>2
<1>4. ASSUME NEW j \in 2 .. Len(calls)
      PROVE  Len(f) + j - 1 \in DOMAIN calls' /\ calls'[Len(f) + j - 1] = calls[j]
  BY <1>2, <1>3
<1>5. ASSUME NEW i \in DOMAIN calls', i \notin DOMAIN f
      PROVE  \E j \in 2 .. Len(calls) : calls'[i] = calls[j] /\ i = Len(f) + j - 1
  <2>1. i - Len(f) + 1 \in 2 .. Len(calls)
        /\ calls'[i] = calls[i - Len(f) + 1] /\ i = Len(f) + (i - Len(f) + 1) - 1
    BY <1>2, <1>3, <1>5
  <2> QED BY <2>1
<1>6. \A i \in DOMAIN f : i \in DOMAIN calls'
  <2>1. Len(calls) >= 1
    BY <1>1
  <2> QED BY <1>3, <2>1
<1> QED BY <1>2, <1>3, <1>4, <1>5, <1>6

\* Who is owned in the new stack.
LEMMA StillOwned ==
  ASSUME IInv, NoPacketLeaks, calls # << >>, NEW f \in Seq(Frame), Continue(f),
         \A q \in DOMAIN pkts' :
           \/ \E k \in Slots : ring'[k].pkt = q
           \/ \E i \in DOMAIN f : f[i].op \in Owning /\ f[i].pkt = q
           \/ \E j \in 2 .. Len(calls) : calls[j].op \in Owning /\ calls[j].pkt = q
  PROVE  NoPacketLeaks'
<1> SUFFICES ASSUME NEW q \in DOMAIN pkts', ~ \E k \in Slots : ring'[k].pkt = q
             PROVE  \E i \in DOMAIN calls' : calls'[i].op \in Owning /\ calls'[i].pkt = q
  BY DEF NoPacketLeaks
<1> QED BY Restacked

\* An owner is the running call or one further out.
LEMMA Owner ==
  ASSUME IInv, NoPacketLeaks, calls # << >>, NEW q \in DOMAIN pkts
  PROVE  \/ \E k \in Slots : ring[k].pkt = q
         \/ Top.op \in Owning /\ TopPkt = q
         \/ \E j \in 2 .. Len(calls) : calls[j].op \in Owning /\ calls[j].pkt = q
<1>1. Top = calls[1] /\ calls \in Seq(Frame)
  BY TopFrame
<1>2. ASSUME NEW i \in DOMAIN calls PROVE i = 1 \/ i \in 2 .. Len(calls)
  BY <1>1
<1> QED BY <1>1, <1>2 DEF NoPacketLeaks, TopPkt

LEMMA FailLeaks ==
  ASSUME LeakInv, NEW a, Fail(a) PROVE LeakInv'
BY DEF Fail, LeakInv, NoPacketLeaks, ControllersPacket, lib, pipe, dev

LEMMA PureLeaks == IInv /\ LeakInv /\ Pure => LeakInv'
<1> SUFFICES ASSUME IInv, LeakInv, Pure PROVE LeakInv'
  OBVIOUS
<1>1. ASSUME calls # << >>, NEW f, Reframes(f) PROVE LeakInv'
  <2>1. f \in Seq(Frame) /\ Continue(f) /\ ring' = ring /\ valid' = valid
        /\ (Top.op \in Owning => \E i \in DOMAIN f : f[i].op \in Owning /\ f[i].pkt = TopPkt)
    BY <1>1 DEF Reframes
  <2>2. ASSUME NEW q \in DOMAIN pkts
        PROVE  \/ \E k \in Slots : ring'[k].pkt = q
               \/ \E i \in DOMAIN f : f[i].op \in Owning /\ f[i].pkt = q
               \/ \E j \in 2 .. Len(calls) : calls[j].op \in Owning /\ calls[j].pkt = q
    BY <1>1, <2>1, Owner DEF LeakInv
  <2>3. CASE pkts' = pkts
    <3>1. NoPacketLeaks'
      BY <1>1, <2>1, <2>2, <2>3, StillOwned DEF LeakInv
    <3> QED BY <2>1, <2>3, <3>1 DEF LeakInv, ControllersPacket
  <2>4. CASE Clones(f)
    <3>1. uid \in Nat /\ NewId \notin DOMAIN pkts /\ NewId # FromController
      BY DEF IInv, TypeOK, NewId, FromController
    <3>2. /\ DOMAIN pkts' = DOMAIN pkts \cup {NewId}
          /\ \A q \in DOMAIN pkts : pkts'[q] = pkts[q]
          /\ pkts'[NewId].out = pkts[TopPkt].out
      BY <2>4, <3>1 DEF Clones, Alloc
    <3>3. NoPacketLeaks'
      BY <1>1, <2>1, <2>2, <2>4, <3>2, StillOwned DEF LeakInv, Clones
    <3>4. ~pkts[TopPkt].out /\ FromController \notin DOMAIN pkts
      BY <1>1, <2>4, TopFrame DEF LeakInv, ControllersPacket, Clones
    <3> QED BY <3>1, <3>2, <3>3, <3>4 DEF LeakInv, ControllersPacket
  <2> QED BY <1>1, <2>3, <2>4 DEF Reframes
<1> QED BY <1>1, PureMoves, FailLeaks DEF LeakInv, Fails

\* Between events all packets are in slots, and none is in the pipeline.
LEMMA Tidy ==
  ASSUME IInv, LeakInv, calls = << >>
  PROVE  /\ ~valid
         /\ \A q \in DOMAIN pkts : \E k \in Slots : ring[k].pkt = q
         /\ FromController \notin DOMAIN pkts
<1>1. \A q \in DOMAIN pkts : \E k \in Slots : ring[k].pkt = q
  BY DEF LeakInv, NoPacketLeaks
<1>2. ids = {}
  BY <1>1 DEF IInv, PipelineNamesLivePackets, RingOutsidePipeline
<1> QED BY <1>1, <1>2 DEF IInv, PipelineNamesLivePackets, RingOutsidePipeline

LEMMA OwnedAtStart ==
  ASSUME NEW op \in {"set", "destroy"}, NEW p, NEW acts, NEW acts2,
         calls' = << Call("list", p, acts), Call(op, p, acts2) >>,
         \A q \in DOMAIN pkts' : q = p \/ \E k \in Slots : ring'[k].pkt = q
  PROVE  NoPacketLeaks'
<1>1. 2 \in DOMAIN calls' /\ calls'[2] = Call(op, p, acts2)
  OBVIOUS
<1>2. calls'[2].op \in Owning /\ calls'[2].pkt = p
  BY <1>1 DEF Call, Owning
<1> QED BY <1>1, <1>2 DEF NoPacketLeaks

LEMMA SendToPipelineLeaks == IInv /\ LeakInv /\ SendToPipeline => LeakInv'
<1> SUFFICES ASSUME IInv, LeakInv, SendToPipeline PROVE LeakInv'
  OBVIOUS
<1>1. ASSUME uid' = NewId, Alloc(NewId, FALSE),
             NEW t \in Treatments, calls' = Process(NewId, t), ring' = ring
      PROVE  LeakInv'
  <2>0. calls = << >>
    BY DEF SendToPipeline, Ready
  <2>1. uid \in Nat /\ NewId \notin DOMAIN pkts /\ NewId # FromController
    BY DEF IInv, TypeOK, NewId, FromController
  <2>2. /\ DOMAIN pkts' = DOMAIN pkts \cup {NewId}
        /\ \A q \in DOMAIN pkts : pkts'[q] = pkts[q]
        /\ ~pkts'[NewId].out
    BY <1>1, <2>1 DEF Alloc
  <2>3. NoPacketLeaks'
    BY <1>1, <2>0, <2>2, Tidy, OwnedAtStart DEF Process
  <2>4. ControllersPacket'
    BY <2>0, <2>1, <2>2, Tidy DEF LeakInv, ControllersPacket
  <2> QED BY <2>3, <2>4 DEF LeakInv
<1> QED BY <1>1, FailLeaks DEF SendToPipeline

LEMMA RetrieveLeaks ==
  ASSUME IInv, LeakInv, calls = << >>, NEW o \in offered, Holds(ring, o.bid),
         NEW p, p = ring[o.bid.slot].pkt, Retrieve(p, o),
         NEW acts, NEW acts2, NEW op \in {"set", "destroy"},
         calls' = << Call("list", p, acts), Call(op, p, acts2) >>
  PROVE  LeakInv'
<1> DEFINE s == o.bid.slot
<1>1. s \in Slots /\ p \in DOMAIN pkts /\ p # FromController
  <2>1. s \in Slots /\ p # NoPkt
    BY DEF IInv, TypeOK, BufferId, Holds
  <2> QED BY <2>1 DEF IInv, SlotsHoldLivePackets, RingOutsidePipeline
<1>2. \A k \in Slots : k # s => ring'[k] = ring[k]
  BY <1>1 DEF Retrieve, Release, IInv, TypeOK
<1>3. /\ DOMAIN pkts' = DOMAIN pkts
      /\ \A q \in DOMAIN pkts : q # p => pkts'[q] = pkts[q]
      /\ ~pkts'[p].out
  BY <1>1 DEF Retrieve
<1>4. NoPacketLeaks'
  <2>1. \A q \in DOMAIN pkts' : q = p \/ \E k \in Slots : ring'[k].pkt = q
    BY <1>2, <1>3, Tidy
  <2> QED BY <2>1, OwnedAtStart
<1>5. ControllersPacket'
  BY <1>1, <1>3, Tidy DEF LeakInv, ControllersPacket
<1> QED BY <1>4, <1>5 DEF LeakInv

LEMMA AnswerLeaks == IInv /\ LeakInv /\ (PacketOutBuffer \/ FlowModBuffer) => LeakInv'
<1> SUFFICES ASSUME IInv, LeakInv, PacketOutBuffer \/ FlowModBuffer PROVE LeakInv'
  OBVIOUS
<1>1. ASSUME NEW o \in offered, Answers(o), NEW acts,
             RetrieveChecks(ring[o.bid.slot].pkt,
               /\ calls' = << Call("list", ring[o.bid.slot].pkt, acts),
                              Call("destroy", ring[o.bid.slot].pkt, << >>) >>
               /\ Retrieve(ring[o.bid.slot].pkt, o))
      PROVE  LeakInv'
  <2>1. calls = << >> /\ Holds(ring, o.bid)
    BY <1>1 DEF Answers, Ready
  <2> QED BY <1>1, <2>1, RetrieveLeaks, FailLeaks DEF RetrieveChecks
<1>2. ASSUME NEW o \in offered, Answers(o), NEW t,
             RetrieveChecks(ring[o.bid.slot].pkt,
               /\ calls' = Process(ring[o.bid.slot].pkt, t)
               /\ Retrieve(ring[o.bid.slot].pkt, o))
      PROVE  LeakInv'
  <2>1. calls = << >> /\ Holds(ring, o.bid)
    BY <1>2 DEF Answers, Ready
  <2> QED BY <1>2, <2>1, RetrieveLeaks, FailLeaks DEF RetrieveChecks, Process
<1> QED BY <1>1, <1>2 DEF PacketOutBuffer, FlowModBuffer

LEMMA PacketOutDataLeaks == IInv /\ LeakInv /\ PacketOutData => LeakInv'
<1> SUFFICES ASSUME IInv, LeakInv, PacketOutData PROVE LeakInv'
  OBVIOUS
<1>1. PICK acts \in DataLists :
        calls' = << Call("list", FromController, acts),
                    Call("destroy", FromController, << >>) >>
  BY DEF PacketOutData
<1>2. calls = << >> /\ ring' = ring /\ valid' = valid
  BY DEF PacketOutData, Ready, pipe
<1>3. /\ DOMAIN pkts' = DOMAIN pkts \cup {FromController}
      /\ \A q \in DOMAIN pkts : q # FromController => pkts'[q] = pkts[q]
  BY DEF PacketOutData, Alloc
<1>4. NoPacketLeaks'
  BY <1>1, <1>2, <1>3, Tidy, OwnedAtStart
<1> QED BY <1>2, <1>3, <1>4, Tidy DEF LeakInv, ControllersPacket

LEMMA OutLeaks ==
  ASSUME IInv, LeakInv, calls # << >>, Top.op = "out", Continue(<< >>),
         ring' = ring, pkts' = pkts, valid' = valid
  PROVE  LeakInv'
<1> DEFINE f == << >>
<1>1. f \in Seq(Frame) /\ Continue(f) /\ Top.op \notin Owning
  BY DEF Owning
<1> HIDE DEF f
<1>2. NoPacketLeaks'
  BY <1>1, Owner, StillOwned DEF LeakInv
<1> QED BY <1>2 DEF LeakInv, ControllersPacket

LEMMA EvictSavedLeaks == IInv /\ LeakInv /\ EvictSaved => LeakInv'
<1> SUFFICES ASSUME IInv, LeakInv, EvictSaved PROVE LeakInv'
  OBVIOUS
<1> DEFINE i == Advance(idx)
           p == ring[i].pkt
<1>1. /\ i \in Slots /\ p # NoPkt /\ p \notin ids
      /\ NotifyPacketDestroyed(p) /\ Free(p) /\ ring' = Release(ring, i)
      /\ calls' = calls
  BY Constants DEF EvictSaved, IInv, TypeOK, RingOutsidePipeline
<1> HIDE DEF i
<1>2. \A k \in Slots : k # i => ring'[k] = ring[k]
  BY <1>1 DEF Release, IInv, TypeOK
<1>3. /\ DOMAIN pkts' = DOMAIN pkts \ {p}
      /\ \A q \in DOMAIN pkts \ {p} : pkts'[q] = pkts[q]
  BY <1>1 DEF Free, Restrict
<1>4. NoPacketLeaks'
  BY <1>1, <1>2, <1>3 DEF LeakInv, NoPacketLeaks
<1>5. valid' = valid
  BY <1>1 DEF NotifyPacketDestroyed, pipe
<1> QED BY <1>3, <1>4, <1>5 DEF LeakInv, ControllersPacket

LEMMA SendAndSaveLeaks == IInv /\ LeakInv /\ SendAndSave => LeakInv'
<1> SUFFICES ASSUME IInv, LeakInv, SendAndSave PROVE LeakInv'
  OBVIOUS
<1> DEFINE p == TopPkt
           i == Advance(idx)
           bid == [slot |-> i, cookie |-> NextCookie(ring[i].cookie)]
<1>1. calls # << >> /\ i \in Slots /\ ring[i].pkt = NoPkt /\ Top.op \notin Owning
  BY Constants DEF SendAndSave, Running, Top, IInv, TypeOK, Owning
<1>2. CASE /\ valid /\ ids = {p}
           /\ ring' = Fill(ring, i, p, Sec)
           /\ pkts' = [pkts EXCEPT ![p].bid = bid]
           /\ DelCopy(p)
           /\ Continue(<< >>)
  <2> HIDE DEF i
  <2>1. p \in DOMAIN pkts
    BY <1>1, TopFrame
  <2>2. /\ ring'[i].pkt = p
        /\ \A k \in Slots \ {i} : ring'[k] = ring[k]
    BY <1>1, <1>2 DEF Fill, IInv, TypeOK
  <2>3. /\ DOMAIN pkts' = DOMAIN pkts
        /\ \A q \in DOMAIN pkts : pkts'[q].out = pkts[q].out
    BY <1>2, <2>1 DEF IInv, TypeOK
  <2> DEFINE f == << >>
  <2>4. f \in Seq(Frame) /\ Continue(f)
    BY <1>2
  <2> HIDE DEF f
  <2>5. NoPkt \notin DOMAIN pkts
    BY NoPktIsNoPacket DEF IInv, TypeOK
  <2>6. NoPacketLeaks'
    <3>1. ASSUME NEW q \in DOMAIN pkts', NEW k \in Slots, ring[k].pkt = q
          PROVE  \E m \in Slots : ring'[m].pkt = q
      BY <1>1, <2>2, <2>3, <2>5, <3>1
    <3> QED BY <1>1, <2>3, <2>4, <3>1, Owner, StillOwned DEF LeakInv
  <2>7. FromController \notin DOMAIN pkts
    BY <1>2 DEF LeakInv, ControllersPacket
  <2> QED BY <2>3, <2>6, <2>7 DEF LeakInv, ControllersPacket
<1> QED BY <1>2, FailLeaks DEF SendAndSave

LEMMA DestroyLeaks == IInv /\ LeakInv /\ Destroy => LeakInv'
<1> SUFFICES ASSUME IInv, LeakInv, Destroy PROVE LeakInv'
  OBVIOUS
<1> DEFINE p == TopPkt
           bid == pkts[p].bid
           f == << >>
<1>1. calls # << >> /\ Top.op = "destroy" /\ p \in DOMAIN pkts /\ bid \in BufferId
      /\ Continue(f) /\ f \in Seq(Frame)
  BY TopFrame, TopBufferId DEF Destroy, Running, Top
<1>0. bid # NoBuffer => ring[bid.slot].pkt = p /\ bid.slot \in Slots
  BY <1>1 DEF IInv, IdsNameSlots, BufferId
<1> HIDE DEF f
<1>2. CASE AlreadySaved(p) /\ OnlyCalls
  <2>1. \E k \in Slots : ring[k].pkt = p
    BY <1>0, <1>2 DEF AlreadySaved
  <2>2. ring' = ring /\ pkts' = pkts /\ valid' = valid
    BY <1>2 DEF OnlyCalls, lib, pipe
  <2>3. NoPacketLeaks'
    BY <1>1, <2>1, <2>2, Owner, StillOwned DEF LeakInv
  <2> QED BY <2>2, <2>3 DEF LeakInv, ControllersPacket
<1>3. CASE /\ ring' = IF bid # NoBuffer /\ Holds(ring, bid)
                        THEN Release(ring, bid.slot) ELSE ring
           /\ NotifyPacketDestroyed(p)
           /\ Free(p)
  <2>1. /\ DOMAIN pkts' = DOMAIN pkts \ {p}
        /\ \A q \in DOMAIN pkts \ {p} : pkts'[q] = pkts[q]
    BY <1>3 DEF Free, Restrict
  <2>2. \A k \in Slots : ring[k].pkt # p => ring'[k] = ring[k]
    <3>1. CASE ring' = ring
      BY <3>1
    <3>2. CASE bid # NoBuffer /\ ring' = Release(ring, bid.slot)
      BY <1>0, <3>2 DEF Release, IInv, TypeOK
    <3> QED BY <1>3, <3>1, <3>2
  <2>3. NoPacketLeaks'
    BY <1>1, <2>1, <2>2, Owner, StillOwned DEF LeakInv
  <2>4. ~valid => ~valid'
    BY <1>3 DEF NotifyPacketDestroyed, pipe
  <2> QED BY <2>1, <2>3, <2>4 DEF LeakInv, ControllersPacket
<1> QED BY <1>2, <1>3 DEF Destroy

LEMMA StepLeaks == IInv /\ LeakInv /\ [Next]_vars => LeakInv'
<1> SUFFICES ASSUME IInv, LeakInv, [Next]_vars PROVE LeakInv'
  OBVIOUS
<1>1. CASE Event
  BY <1>1, SendToPipelineLeaks, AnswerLeaks, PacketOutDataLeaks DEF Event
<1>2. CASE Pure
  BY <1>2, PureLeaks
<1>3. CASE SendSaved \/ SendUnsaved
  BY <1>3, OutLeaks DEF SendSaved, SendUnsaved, Running, Top, lib, pipe
<1>4. CASE EvictSaved \/ SendAndSave \/ Destroy
  BY <1>4, EvictSavedLeaks, SendAndSaveLeaks, DestroyLeaks
<1>5. CASE BufferPacketDelete \/ Tick \/ UNCHANGED vars
  BY <1>5 DEF BufferPacketDelete, Tick, vars, lib, pipe, LeakInv, NoPacketLeaks,
     ControllersPacket
<1> QED BY <1>1, <1>2, <1>3, <1>4, <1>5 DEF Next, CallStep, Pure

LEMMA LeakInvariance == Spec => [](IInv /\ LeakInv)
<1>1. Init => LeakInv
  BY DEF Init, LeakInv, NoPacketLeaks, ControllersPacket
<1> QED BY <1>1, StepLeaks, Invariance, PTL DEF Spec

\* When a handler is over nothing is left behind: m_pipePkt is invalid and each packet that
\* was not destroyed is in a slot, whatever tables, groups and controller do (packet_clone and
\* packet_destroy in udatapath, NotifyPacketCloned and NotifyPacketDestroyed in the device).
THEOREM NothingStaysBehind == Spec => []NothingLeftBehind
<1>1. IInv /\ LeakInv => NothingLeftBehind
  <2> SUFFICES ASSUME IInv, LeakInv, calls = << >>
               PROVE  ~valid /\ DOMAIN pkts = {ring[i].pkt : i \in Slots} \ {NoPkt}
    BY DEF NothingLeftBehind, Ready
  <2>1. NoPkt \notin DOMAIN pkts
    BY NoPktIsNoPacket DEF IInv, TypeOK
  <2>2. \A k \in Slots : ring[k].pkt # NoPkt => ring[k].pkt \in DOMAIN pkts
    BY DEF IInv, SlotsHoldLivePackets
  <2> QED BY <2>1, <2>2, Tidy
<1> QED BY <1>1, LeakInvariance, PTL
------------------------------------------------------------------------------
(* One packet at a time, and ids that bring back their packet *)

\* "Another packet in pipeline", the assertion of SendToPipeline and of
\* BufferPacketRetrieve, does not fail.
PipelineIsFree == failed # "Another packet in pipeline"

LEMMA StepPipelineIsFree ==
  IInv /\ LeakInv /\ PipelineIsFree /\ [Next]_vars => PipelineIsFree'
<1> SUFFICES ASSUME IInv, LeakInv, PipelineIsFree, [Next]_vars PROVE PipelineIsFree'
  OBVIOUS
<1>1. CASE SendToPipeline
  <2>1. ~valid
    BY <1>1, Tidy DEF SendToPipeline, Ready
  <2> QED BY <1>1, <2>1 DEF SendToPipeline, PipelineIsFree
<1>2. CASE PacketOutBuffer \/ FlowModBuffer
  <2>1. calls = << >> => ~valid
    BY Tidy
  <2> QED BY <1>2, <2>1 DEF PacketOutBuffer, FlowModBuffer, Answers, Ready,
             RetrieveChecks, Retrieve, Fail, PipelineIsFree
<1>3. CASE Pure
  BY <1>3, PureMoves DEF LeakInv, Fails, Fail, Reframes, PipelineIsFree
<1>4. CASE SendAndSave
  BY <1>4 DEF SendAndSave, Fail, PipelineIsFree
<1>5. CASE SendSaved \/ SendUnsaved \/ EvictSaved \/ Destroy
  BY <1>5 DEF SendSaved, SendUnsaved, EvictSaved, Destroy, OnlyCalls, PipelineIsFree
<1>6. CASE PacketOutData \/ BufferPacketDelete \/ Tick \/ UNCHANGED vars
  BY <1>6 DEF PacketOutData, BufferPacketDelete, Tick, vars, PipelineIsFree
<1> QED BY <1>1, <1>2, <1>3, <1>4, <1>5, <1>6 DEF Next, Event, CallStep, Pure

\* The device works on one packet at a time: the assertion that m_pipePkt is free (SendToPipeline,
\* BufferPacketRetrieve) never fails, since each handler leaves it so.
THEOREM OnePacketAtATime == Spec => []PipelineIsFree
<1>1. Init => PipelineIsFree
  BY DEF Init, PipelineIsFree
<1> QED BY <1>1, StepPipelineIsFree, LeakInvariance, PTL DEF Spec
------------------------------------------------------------------------------
\* A packet-in's id is not ahead of its slot, and when it is the slot's own then the
\* slot has the packet that was offered.
OffersAreCurrent ==
  \A o \in offered : o.bid # NoBuffer =>
    /\ o.bid.cookie <= ring[o.bid.slot].cookie
    /\ Holds(ring, o.bid) => ring[o.bid.slot].pkt = o.pkt

\* Slots at most lose their packets.
LEMMA OffersStay ==
  ASSUME IInv, OffersAreCurrent, offered' \subseteq offered,
         \A k \in Slots : /\ ring'[k].cookie = ring[k].cookie
                          /\ ring'[k].pkt \in {ring[k].pkt, NoPkt}
  PROVE  OffersAreCurrent'
<1> SUFFICES ASSUME NEW o \in offered, o.bid # NoBuffer
             PROVE  /\ o.bid.cookie <= ring'[o.bid.slot].cookie
                    /\ Holds(ring', o.bid) => ring'[o.bid.slot].pkt = o.pkt
  BY DEF OffersAreCurrent
<1>1. o.bid.slot \in Slots
  BY DEF IInv, TypeOK, BufferId
<1> QED BY <1>1 DEF OffersAreCurrent, Holds

LEMMA FailOffers ==
  ASSUME OffersAreCurrent, NEW a, Fail(a) PROVE OffersAreCurrent'
BY DEF Fail, OffersAreCurrent, lib

LEMMA ReleasedSlots ==
  ASSUME IInv, NEW s \in Slots, ring' = Release(ring, s)
  PROVE  \A k \in Slots : /\ ring'[k].cookie = ring[k].cookie
                          /\ ring'[k].pkt \in {ring[k].pkt, NoPkt}
BY DEF Release, IInv, TypeOK, Slot

LEMMA PureOffers == IInv /\ LeakInv /\ OffersAreCurrent /\ Pure => OffersAreCurrent'
BY PureMoves, FailOffers DEF LeakInv, Fails, Reframes, OffersAreCurrent

LEMMA RetrieveOffers ==
  ASSUME IInv, OffersAreCurrent, NEW o \in offered, NEW p, Retrieve(p, o)
  PROVE  OffersAreCurrent'
<1>1. o.bid.slot \in Slots
  BY DEF IInv, TypeOK, BufferId
<1> QED BY <1>1, ReleasedSlots, OffersStay DEF Retrieve

LEMMA EventOffers == IInv /\ OffersAreCurrent /\ Event => OffersAreCurrent'
<1> SUFFICES ASSUME IInv, OffersAreCurrent, Event PROVE OffersAreCurrent'
  OBVIOUS
<1>1. CASE PacketOutBuffer \/ FlowModBuffer
  BY <1>1, RetrieveOffers, FailOffers DEF PacketOutBuffer, FlowModBuffer, RetrieveChecks
<1>2. CASE SendToPipeline \/ PacketOutData
  BY <1>2, FailOffers DEF SendToPipeline, PacketOutData, OffersAreCurrent
<1> QED BY <1>1, <1>2 DEF Event

\* A packet-in without buffering carries no id: an id that a packet in the
\* pipeline carries is alive.
LEMMA UnsavedHasNoId ==
  ASSUME IInv, calls # << >>, ~AlreadySaved(TopPkt) PROVE pkts[TopPkt].bid = NoBuffer
<1> SUFFICES ASSUME pkts[TopPkt].bid # NoBuffer PROVE FALSE
  OBVIOUS
<1> DEFINE bid == pkts[TopPkt].bid
<1>1. bid.slot \in Slots /\ ring[bid.slot].pkt = TopPkt /\ TopPkt # NoPkt
      /\ 1 \in DOMAIN calls /\ calls[1].pkt = TopPkt
  BY TopFrame, TopBufferId, NoPktIsNoPacket DEF IInv, IdsNameSlots, BufferId, TopPkt
<1>2. Sec < ring[bid.slot].timeout
  BY <1>1 DEF IInv, FramesAreLive
<1>3. bid = [slot |-> bid.slot, cookie |-> ring[bid.slot].cookie]
  BY <1>1 DEF IInv, SlotsHoldLivePackets
<1>4. bid.cookie = ring[bid.slot].cookie
  BY <1>3
<1> QED BY <1>2, <1>4 DEF AlreadySaved, IsAlive

\* The id that a packet carries is that of its slot.
LEMMA CarriedId ==
  ASSUME IInv, calls # << >>, pkts[TopPkt].bid # NoBuffer
  PROVE  /\ pkts[TopPkt].bid.slot \in Slots
         /\ ring[pkts[TopPkt].bid.slot].pkt = TopPkt
         /\ ring[pkts[TopPkt].bid.slot].cookie = pkts[TopPkt].bid.cookie
         /\ pkts[TopPkt].bid.cookie \in 0 .. MaxCookie
<1> DEFINE bid == pkts[TopPkt].bid
<1>1. bid.slot \in Slots /\ ring[bid.slot].pkt = TopPkt /\ TopPkt # NoPkt
      /\ bid.cookie \in 0 .. MaxCookie
  BY TopFrame, TopBufferId, NoPktIsNoPacket DEF IInv, IdsNameSlots, BufferId
<1>2. bid = [slot |-> bid.slot, cookie |-> ring[bid.slot].cookie]
  BY <1>1 DEF IInv, SlotsHoldLivePackets
<1> QED BY <1>1, <1>2

LEMMA PacketInOffers ==
  IInv /\ OffersAreCurrent /\ (SendSaved \/ SendUnsaved) => OffersAreCurrent'
<1> SUFFICES ASSUME IInv, OffersAreCurrent, SendSaved \/ SendUnsaved
             PROVE  OffersAreCurrent'
  OBVIOUS
<1> DEFINE bid == pkts[TopPkt].bid
<1>1. calls # << >> /\ ring' = ring /\ PacketIn(bid)
  BY DEF SendSaved, SendUnsaved, Running, lib
<1> SUFFICES ASSUME bid # NoBuffer
             PROVE  bid.cookie <= ring[bid.slot].cookie /\ ring[bid.slot].pkt = TopPkt
  BY <1>1 DEF PacketIn, OffersAreCurrent
<1> QED BY <1>1, CarriedId, BuffersAssumption

LEMMA SendAndSaveOffers ==
  IInv /\ OffersAreCurrent /\ SendAndSave /\ [CookiesLast]_ring => OffersAreCurrent'
<1> SUFFICES ASSUME IInv, OffersAreCurrent, SendAndSave, [CookiesLast]_ring
             PROVE  OffersAreCurrent'
  OBVIOUS
<1> DEFINE p == TopPkt
           i == Advance(idx)
           bid == [slot |-> i, cookie |-> NextCookie(ring[i].cookie)]
<1>1. calls # << >> /\ i \in Slots /\ ring[i].pkt = NoPkt
  BY Constants DEF SendAndSave, Running, IInv, TypeOK
<1>2. CASE ring' = Fill(ring, i, p, Sec) /\ PacketIn(bid)
  <2>0. bid.slot = i /\ bid.cookie = NextCookie(ring[i].cookie)
    OBVIOUS
  <2>1. bid.cookie \in 0 .. MaxCookie
    BY <1>1, Constants DEF IInv, TypeOK, Slot
  <2> HIDE DEF i, bid
  <2>2. /\ ring'[i].pkt = p /\ ring'[i].cookie = bid.cookie
        /\ \A k \in Slots \ {i} : ring'[k] = ring[k]
    BY <1>1, <1>2, <2>0 DEF Fill, IInv, TypeOK
  <2>3. p # NoPkt
    BY <1>1, TopFrame, NoPktIsNoPacket
  <2>4. \/ ring[i].cookie < bid.cookie
        \/ \A o \in offered : o.bid # NoBuffer => o.bid.slot # i
    BY <1>1, <2>2, <2>3 DEF CookiesLast
  <2> SUFFICES ASSUME NEW o \in offered', o.bid # NoBuffer
               PROVE  /\ o.bid.cookie <= ring'[o.bid.slot].cookie
                      /\ Holds(ring', o.bid) => ring'[o.bid.slot].pkt = o.pkt
    BY DEF OffersAreCurrent
  <2>5. CASE o = [bid |-> bid, pkt |-> p, at |-> now]
    BY <2>0, <2>1, <2>2, <2>5
  <2>6. CASE o \in offered
    <3>1. o.bid.slot \in Slots /\ o.bid.cookie \in 0 .. MaxCookie
          /\ ring[o.bid.slot].cookie \in -1 .. MaxCookie
      BY <2>6 DEF IInv, TypeOK, BufferId, Slot
    <3>2. CASE o.bid.slot = i
      <4>1. o.bid.cookie <= ring[i].cookie /\ ring[i].cookie < bid.cookie
        BY <2>4, <2>6, <3>2 DEF OffersAreCurrent
      <4>2. o.bid.cookie < bid.cookie
        BY <2>1, <3>1, <3>2, <4>1
      <4> QED BY <2>1, <2>2, <3>1, <3>2, <4>2 DEF Holds
    <3>3. CASE o.bid.slot # i
      BY <2>2, <2>6, <3>1, <3>3 DEF OffersAreCurrent, Holds
    <3> QED BY <3>2, <3>3
  <2> QED BY <1>2, <2>5, <2>6 DEF PacketIn
<1> QED BY <1>2, FailOffers DEF SendAndSave

LEMMA LeaveOffers ==
  IInv /\ OffersAreCurrent /\ (EvictSaved \/ Destroy) => OffersAreCurrent'
<1> SUFFICES ASSUME IInv, OffersAreCurrent, EvictSaved \/ Destroy
             PROVE  OffersAreCurrent'
  OBVIOUS
<1>1. offered' = offered
  BY DEF EvictSaved, Destroy, OnlyCalls
<1>2. CASE ring' = ring
  BY <1>1, <1>2 DEF OffersAreCurrent
<1>3. ASSUME NEW s \in Slots, ring' = Release(ring, s) PROVE OffersAreCurrent'
  BY <1>1, <1>3, ReleasedSlots, OffersStay
<1>4. CASE EvictSaved
  BY <1>3, <1>4, Constants DEF EvictSaved, IInv, TypeOK
<1>5. CASE Destroy
  <2>1. pkts[TopPkt].bid.slot \in Slots
    BY <1>5, TopBufferId DEF Destroy, Running, BufferId
  <2> QED BY <1>2, <1>3, <1>5, <2>1 DEF Destroy, OnlyCalls, lib
<1> QED BY <1>4, <1>5

LEMMA StepOffers ==
  IInv /\ LeakInv /\ OffersAreCurrent /\ [Next]_vars /\ [CookiesLast]_ring
    => OffersAreCurrent'
<1> SUFFICES ASSUME IInv, LeakInv, OffersAreCurrent, [Next]_vars, [CookiesLast]_ring
             PROVE  OffersAreCurrent'
  OBVIOUS
<1>1. CASE CallStep
  BY <1>1, PureOffers, PacketInOffers, SendAndSaveOffers, LeaveOffers DEF CallStep, Pure
<1>2. CASE BufferPacketDelete \/ Tick \/ UNCHANGED vars
  BY <1>2 DEF BufferPacketDelete, Tick, vars, lib, OffersAreCurrent
<1> QED BY <1>1, <1>2, EventOffers DEF Next

\* The id in a packet-in brings back the packet it was sent for (dp_buffers_save and
\* dp_buffers_retrieve), however many slots and cookies there are, as long as no answer comes
\* when the slot's cookies have all been used since.
THEOREM AnswersFindTheirPackets ==
  Spec /\ [][CookiesLast]_ring => []AnswerFindsItsPacket
<1>1. Init => OffersAreCurrent
  BY DEF Init, OffersAreCurrent
<1>2. OffersAreCurrent => AnswerFindsItsPacket
  BY DEF OffersAreCurrent, AnswerFindsItsPacket
<1> QED BY <1>1, <1>2, StepOffers, LeakInvariance, PTL DEF Spec
------------------------------------------------------------------------------
(* How long slots and ns-3 packets stay *)

\* How long m_bufferPkts keeps a packet.
SavedFor == 2 * OverwriteSecs * TicksPerSec

\* A packet that was buffered before is in the pipeline for the last time.
SavedOnce ==
  \A tm \in timers, i \in DOMAIN calls :
    tm.pkt \in ids /\ calls[i].pkt = tm.pkt => Hushed(calls[i])

\* A timer does not take an ns-3 packet away while its slot cannot be overwritten: it runs for
\* two whole seconds, the slot until the next second begins.
TimersAreLate ==
  \A tm \in timers, k \in Slots :
    ring[k].pkt = tm.pkt => ring[k].timeout <= tm.at \div TicksPerSec

\* For SavedFor ticks from packet-in o the ns-3 packet it can bring back is kept.
OutlivedBy(o) ==
  /\ o.at <= now
  /\ Holds(ring, o.bid) =>
     /\ \A tm \in timers : tm.pkt = ring[o.bid.slot].pkt => o.at + SavedFor <= tm.at
     /\ ring[o.bid.slot].pkt \notin saved => o.at + SavedFor <= now

OffersOutlived == \A o \in offered : OutlivedBy(o)

\* A packet in a slot that a frame still works on was saved in this very tick.
FramesJustSaved ==
  \A i \in DOMAIN calls, k \in Slots : ring[k].pkt = calls[i].pkt =>
    /\ calls[i].pkt \in saved
    /\ \A tm \in timers : tm.pkt = calls[i].pkt => now + SavedFor <= tm.at

\* Timers, slots and packet-ins: inductive with IInv and LeakInv.
TimelyInv ==
  /\ SavedOnce /\ TimersAreLate /\ OffersOutlived /\ FramesJustSaved
  /\ LiveSlotIsSaved

\* Whole seconds grow with the ticks, and SavedFor is more than one of them.
LEMMA Division ==
  /\ \A a, b \in Nat : a <= b => a \div TicksPerSec <= b \div TicksPerSec
  /\ \A a \in Nat : (a \div TicksPerSec) + 1 <= (a + SavedFor) \div TicksPerSec
  /\ SavedFor \in Nat
<1> DEFINE t == TicksPerSec
<1>1. t \in Nat \ {0}
  BY PacketsAssumption
<1> HIDE DEF t
<1>2. \A a, b \in Nat : a <= b => a \div t <= b \div t
  BY <1>1, Z3
<1>3. \A a \in Nat : (a \div t) + 1 <= (a + 2 * 1 * t) \div t
  BY <1>1, Z3
<1>4. 2 * 1 * t \in Nat
  BY <1>1
<1> QED BY <1>2, <1>3, <1>4 DEF t, SavedFor, OverwriteSecs

LEMMA FailTimely ==
  ASSUME TimelyInv, NEW a, Fail(a) PROVE TimelyInv'
BY DEF Fail, TimelyInv, SavedOnce, TimersAreLate, OffersOutlived, OutlivedBy,
       FramesJustSaved, LiveSlotIsSaved, Sec, lib, pipe, dev, env

\* Where a frame of the new stack comes from: its packet is new to the timers and
\* the slots, or just left its slot and is never saved again, or has a frame
\* that was there.
Descends(f) ==
  \/ /\ \A tm \in timers : tm.pkt # f.pkt
     /\ \A k \in Slots : ring'[k].pkt # f.pkt
  \/ Hushed(f) /\ \A k \in Slots : ring'[k].pkt # f.pkt
  \/ \E j \in DOMAIN calls :
       /\ f.pkt = calls[j].pkt
       /\ Hushed(calls[j]) => Hushed(f)
       /\ f.pkt \in ids' => f.pkt \in ids

\* A step that at most takes packets out of slots keeps the invariant.
LEMMA TimelyStays ==
  ASSUME IInv, TimelyInv, now' = now, timers' = timers,
         \A o \in offered' : o \in offered \/ OutlivedBy(o),
         \A k \in Slots : \/ ring'[k] = ring[k]
                          \/ ring'[k].pkt = NoPkt,
         \A q \in saved : (\E k \in Slots : ring'[k].pkt = q) => q \in saved',
         \A i \in DOMAIN calls' : Descends(calls'[i]),
         offered' \subseteq [bid : BufferId, pkt : Nat, at : Nat],
         NoPkt \notin {tm.pkt : tm \in timers},
         \A i \in DOMAIN calls' : calls'[i].pkt # NoPkt
  PROVE  TimelyInv'
<1>1. \A k \in Slots : ring'[k].pkt # NoPkt => ring'[k] = ring[k]
  OBVIOUS
<1>2. SavedOnce'
  BY DEF TimelyInv, SavedOnce, Descends
<1>3. TimersAreLate'
  BY <1>1 DEF TimelyInv, TimersAreLate
<1>4. OffersOutlived'
  <2> SUFFICES ASSUME NEW o \in offered'
               PROVE  /\ o.at <= now
                      /\ Holds(ring', o.bid) =>
                         /\ \A tm \in timers : tm.pkt = ring'[o.bid.slot].pkt =>
                              o.at + SavedFor <= tm.at
                         /\ ring'[o.bid.slot].pkt \notin saved' =>
                              o.at + SavedFor <= now
    BY DEF OffersOutlived, OutlivedBy
  <2>1. OutlivedBy(o) /\ o.bid.slot \in Slots
    BY DEF TimelyInv, OffersOutlived, BufferId
  <2>2. CASE Holds(ring', o.bid)
    <3>1. ring'[o.bid.slot] = ring[o.bid.slot] /\ Holds(ring, o.bid)
      BY <1>1, <2>1, <2>2 DEF Holds
    <3> QED BY <2>1, <3>1 DEF OutlivedBy
  <2> QED BY <2>1, <2>2 DEF OutlivedBy
<1>5. FramesJustSaved'
  <2> SUFFICES ASSUME NEW i \in DOMAIN calls', NEW k \in Slots,
                      ring'[k].pkt = calls'[i].pkt
               PROVE  /\ calls'[i].pkt \in saved'
                      /\ \A tm \in timers : tm.pkt = calls'[i].pkt =>
                           now + SavedFor <= tm.at
    BY DEF FramesJustSaved
  <2>1. PICK j \in DOMAIN calls : calls'[i].pkt = calls[j].pkt
    BY DEF Descends
  <2>2. ring[k].pkt = calls[j].pkt
    BY <1>1, <2>1
  <2> QED BY <2>1, <2>2 DEF TimelyInv, FramesJustSaved
<1>6. LiveSlotIsSaved'
  BY <1>1 DEF TimelyInv, LiveSlotIsSaved, Sec
<1> QED BY <1>2, <1>3, <1>4, <1>5, <1>6 DEF TimelyInv

\* New packets and the controller's are in no slot and no timer is set for them.
LEMMA NumbersOfPackets ==
  ASSUME IInv
  PROVE  /\ NoPkt \notin {tm.pkt : tm \in timers}
         /\ \A tm \in timers : tm.pkt \in 1 .. uid /\ tm.pkt # FromController
                               /\ tm.pkt # NewId /\ tm.at \in Nat
         /\ \A k \in Slots : ring[k].pkt # NewId /\ ring[k].pkt # FromController
                             /\ ring[k].timeout \in Nat
         /\ NewId # NoPkt /\ FromController # NoPkt
         /\ now \in Nat
<1>1. \A tm \in timers : tm.pkt \in 1 .. uid /\ tm.at \in Nat
  BY DEF IInv, TypeOK
<1>2. uid \in Nat /\ NewId = uid + 1 /\ DOMAIN pkts \subseteq 0 .. uid /\ now \in Nat
  BY DEF IInv, TypeOK, NewId
<1>3. \A k \in Slots : ring[k].timeout \in Nat
                       /\ (ring[k].pkt = NoPkt \/ ring[k].pkt \in DOMAIN pkts)
  BY DEF IInv, TypeOK, Slot, SlotsHoldLivePackets
<1> QED BY <1>1, <1>2, <1>3 DEF NoPkt, FromController, IInv, RingOutsidePipeline

LEMMA PureTimely == IInv /\ LeakInv /\ TimelyInv /\ Pure => TimelyInv'
<1> SUFFICES ASSUME IInv, LeakInv, TimelyInv, Pure PROVE TimelyInv'
  OBVIOUS
<1>1. ASSUME calls # << >>, NEW f, Reframes(f) PROVE TimelyInv'
  <2>1. f \in Seq(Frame) /\ Continue(f) /\ ring' = ring /\ now' = now
        /\ timers' = timers /\ saved' = saved /\ offered' = offered
    BY <1>1 DEF Reframes
  <2>2. ASSUME NEW i \in DOMAIN calls'
        PROVE  Descends(calls'[i]) /\ calls'[i].pkt # NoPkt
    <3>1. Top = calls[1] /\ 1 \in DOMAIN calls /\ TopPkt \in Nat /\ TopPkt # NewId
      BY <1>1, TopFrame DEF IInv, TypeOK, NewId
    <3>2. ids' \subseteq ids \cup {NewId}
      BY <1>1 DEF Reframes, Clones
    <3>3. CASE i \in DOMAIN f /\ calls'[i] = f[i]
      <4>1. f[i].pkt = TopPkt \/ f[i].pkt = NewId
        BY <1>1, <3>3 DEF Reframes
      <4>2. CASE f[i].pkt = TopPkt
        <5>1. Hushed(Top) => Hushed(f[i])
          BY <1>1, <3>3 DEF Reframes
        <5>2. Top.pkt = TopPkt
          BY DEF TopPkt
        <5> QED BY <3>1, <3>2, <3>3, <4>2, <5>1, <5>2, NoPktIsNoPacket DEF Descends
      <4>3. CASE f[i].pkt = NewId
        BY <2>1, <3>3, <4>3, NumbersOfPackets DEF Descends
      <4> QED BY <4>1, <4>2, <4>3
    <3>4. ASSUME NEW j \in 2 .. Len(calls), calls'[i] = calls[j]
          PROVE  Descends(calls'[i]) /\ calls'[i].pkt # NoPkt
      <4>1. j \in DOMAIN calls /\ calls[j].pkt \in DOMAIN pkts
        BY <1>1, TopFrame
      <4>2. calls[j].pkt \in Nat /\ calls[j].pkt # NewId
        BY <4>1 DEF IInv, TypeOK, NewId
      <4> QED BY <3>2, <3>4, <4>1, <4>2, NoPktIsNoPacket DEF Descends
    <3> QED BY <1>1, <2>1, <3>3, <3>4, Restacked
  <2>3. offered' \subseteq [bid : BufferId, pkt : Nat, at : Nat]
    BY <2>1 DEF IInv, TypeOK
  <2> QED BY <2>1, <2>2, <2>3, NumbersOfPackets, TimelyStays
<1> QED BY <1>1, PureMoves, FailTimely DEF LeakInv, Fails

\* The two frames with which an event starts.
LEMMA StartStack ==
  ASSUME NEW op \in {"set", "destroy"}, NEW p, NEW acts, NEW acts2,
         calls' = << Call("list", p, acts), Call(op, p, acts2) >>
  PROVE  /\ \A i \in DOMAIN calls' : calls'[i].pkt = p
         /\ Range(acts) \subseteq Quiet /\ (op = "set" => Head(acts2) \in Quiet) =>
              \A i \in DOMAIN calls' : Hushed(calls'[i])
<1> DEFINE a == Call("list", p, acts)
           b == Call(op, p, acts2)
<1>1. a.pkt = p /\ b.pkt = p
  BY DEF Call
<1>2. Range(acts) \subseteq Quiet /\ (op = "set" => Head(acts2) \in Quiet) =>
        Hushed(a) /\ Hushed(b)
  BY SaysCall DEF Hushed
<1> HIDE DEF a, b
<1>3. DOMAIN calls' = {1, 2} /\ calls'[1] = a /\ calls'[2] = b
  BY DEF a, b
<1> QED BY <1>1, <1>2, <1>3

LEMMA SendToPipelineTimely == IInv /\ TimelyInv /\ SendToPipeline => TimelyInv'
<1> SUFFICES ASSUME IInv, TimelyInv, SendToPipeline PROVE TimelyInv'
  OBVIOUS
<1>1. ASSUME NEW t \in Treatments, calls' = Process(NewId, t),
             UNCHANGED <<ring, idx, dev, now, answers, offered, failed>>
      PROVE  TimelyInv'
  <2>1. ring' = ring /\ timers' = timers /\ saved' = saved /\ now' = now
        /\ offered' = offered
    BY <1>1 DEF dev
  <2>2. \A i \in DOMAIN calls' : calls'[i].pkt = NewId
    BY <1>1, StartStack DEF Process
  <2>3. \A i \in DOMAIN calls' : Descends(calls'[i]) /\ calls'[i].pkt # NoPkt
    BY <2>1, <2>2, NumbersOfPackets DEF Descends
  <2>4. offered' \subseteq [bid : BufferId, pkt : Nat, at : Nat]
    BY <2>1 DEF IInv, TypeOK
  <2> QED BY <2>1, <2>3, <2>4, NumbersOfPackets, TimelyStays
<1> QED BY <1>1, FailTimely DEF SendToPipeline

LEMMA PacketOutDataTimely == IInv /\ TimelyInv /\ PacketOutData => TimelyInv'
<1> SUFFICES ASSUME IInv, TimelyInv, PacketOutData PROVE TimelyInv'
  OBVIOUS
<1>1. ring' = ring /\ timers' = timers /\ saved' = saved /\ now' = now
      /\ offered' = offered
  BY DEF PacketOutData, dev
<1>2. \A i \in DOMAIN calls' : calls'[i].pkt = FromController
  BY StartStack DEF PacketOutData
<1>3. \A i \in DOMAIN calls' : Descends(calls'[i]) /\ calls'[i].pkt # NoPkt
  BY <1>1, <1>2, NumbersOfPackets DEF Descends
<1>4. offered' \subseteq [bid : BufferId, pkt : Nat, at : Nat]
  BY <1>1 DEF IInv, TypeOK
<1> QED BY <1>1, <1>3, <1>4, NumbersOfPackets, TimelyStays

LEMMA RetrieveTimely ==
  ASSUME IInv, TimelyInv, NEW o \in offered, Holds(ring, o.bid),
         NEW p, p = ring[o.bid.slot].pkt, Retrieve(p, o),
         NEW acts, NEW acts2, NEW op \in {"set", "destroy"},
         Range(acts) \subseteq Quiet, op = "set" => Head(acts2) \in Quiet,
         calls' = << Call("list", p, acts), Call(op, p, acts2) >>
  PROVE  TimelyInv'
<1> DEFINE s == o.bid.slot
<1>1. s \in Slots /\ p # NoPkt
  BY DEF IInv, TypeOK, BufferId, Holds
<1>2. now' = now /\ timers' = timers /\ offered' = offered /\ saved' = saved \ {p}
  BY DEF Retrieve
<1>3. /\ ring'[s].pkt = NoPkt
      /\ \A k \in Slots : k # s => ring'[k] = ring[k]
  BY <1>1 DEF Retrieve, Release, IInv, TypeOK, Slot
<1>4. \A k \in Slots : ring'[k].pkt # p
  BY <1>1, <1>3, OneSlot DEF IInv
<1>5. \A i \in DOMAIN calls' : calls'[i].pkt = p /\ Hushed(calls'[i])
  BY StartStack
<1>6. \A i \in DOMAIN calls' : Descends(calls'[i]) /\ calls'[i].pkt # NoPkt
  BY <1>1, <1>4, <1>5 DEF Descends
<1>7. offered' \subseteq [bid : BufferId, pkt : Nat, at : Nat]
  BY <1>2 DEF IInv, TypeOK
<1> QED BY <1>2, <1>3, <1>4, <1>6, <1>7, NumbersOfPackets, TimelyStays

LEMMA AnswerTimely ==
  ASSUME QuietAnswers
  PROVE  IInv /\ TimelyInv /\ (PacketOutBuffer \/ FlowModBuffer) => TimelyInv'
<1> SUFFICES ASSUME IInv, TimelyInv, PacketOutBuffer \/ FlowModBuffer PROVE TimelyInv'
  OBVIOUS
<1>1. ASSUME NEW o \in offered, Answers(o), NEW acts \in OutLists,
             RetrieveChecks(ring[o.bid.slot].pkt,
               /\ calls' = << Call("list", ring[o.bid.slot].pkt, acts),
                              Call("destroy", ring[o.bid.slot].pkt, << >>) >>
               /\ Retrieve(ring[o.bid.slot].pkt, o))
      PROVE  TimelyInv'
  <2>1. Holds(ring, o.bid) /\ Range(acts) \subseteq Quiet
    BY <1>1 DEF Answers, QuietAnswers
  <2> QED BY <1>1, <2>1, RetrieveTimely, FailTimely DEF RetrieveChecks
<1>2. ASSUME NEW o \in offered, Answers(o), NEW t \in ResumeTreatments,
             RetrieveChecks(ring[o.bid.slot].pkt,
               /\ calls' = Process(ring[o.bid.slot].pkt, t)
               /\ Retrieve(ring[o.bid.slot].pkt, o))
      PROVE  TimelyInv'
  <2>1. Holds(ring, o.bid) /\ Range(t.apply) \subseteq Quiet /\ Head(<< t.end >>) \in Quiet
    BY <1>2, OneAct DEF Answers, QuietAnswers
  <2> QED BY <1>2, <2>1, RetrieveTimely, FailTimely DEF RetrieveChecks, Process
<1> QED BY <1>1, <1>2 DEF PacketOutBuffer, FlowModBuffer

LEMMA TimerTimely == IInv /\ TimelyInv /\ BufferPacketDelete => TimelyInv'
<1> SUFFICES ASSUME IInv, TimelyInv, BufferPacketDelete PROVE TimelyInv'
  OBVIOUS
<1>1. PICK tm \in timers : tm.at <= now /\ timers' = timers \ {tm}
                           /\ saved' = saved \ {tm.pkt}
  BY DEF BufferPacketDelete
<1>2. /\ ring' = ring /\ ids' = ids /\ now' = now /\ calls' = calls
      /\ offered' = offered /\ calls = << >> /\ DOMAIN calls = {}
  BY DEF BufferPacketDelete, Ready, lib, pipe, env
<1>3. SavedOnce' /\ FramesJustSaved' /\ TimersAreLate'
  BY <1>1, <1>2 DEF TimelyInv, SavedOnce, FramesJustSaved, TimersAreLate
<1>4. LiveSlotIsSaved'
  <2> SUFFICES ASSUME NEW k \in Slots, ring[k].pkt = tm.pkt PROVE ring[k].timeout <= Sec
    BY <1>1, <1>2, SecIsNat, NumbersOfPackets DEF TimelyInv, LiveSlotIsSaved, Sec
  <2>1. ring[k].timeout <= tm.at \div TicksPerSec
    BY DEF TimelyInv, TimersAreLate
  <2>2. tm.at \div TicksPerSec <= Sec
    BY <1>1, NumbersOfPackets, Division DEF Sec
  <2>3. tm.at \div TicksPerSec \in Int /\ Sec \in Nat
    BY NumbersOfPackets, SecIsNat, PacketsAssumption
  <2> QED BY <2>1, <2>2, <2>3, NumbersOfPackets
<1>5. OffersOutlived'
  <2> SUFFICES ASSUME NEW o \in offered, Holds(ring, o.bid),
                      ring[o.bid.slot].pkt = tm.pkt
               PROVE  o.at + SavedFor <= now
    BY <1>1, <1>2 DEF TimelyInv, OffersOutlived, OutlivedBy
  <2>1. o.at + SavedFor <= tm.at /\ o.at \in Nat
    BY DEF TimelyInv, OffersOutlived, OutlivedBy, IInv, TypeOK
  <2> QED BY <1>1, <2>1, NumbersOfPackets, Division
<1> QED BY <1>3, <1>4, <1>5 DEF TimelyInv

LEMMA TickTimely == IInv /\ TimelyInv /\ Tick => TimelyInv'
<1> SUFFICES ASSUME IInv, TimelyInv, Tick PROVE TimelyInv'
  OBVIOUS
<1>1. /\ ring' = ring /\ ids' = ids /\ now' = now + 1 /\ calls' = calls
      /\ saved' = saved /\ timers' = timers /\ offered' \subseteq offered
      /\ calls = << >> /\ DOMAIN calls = {} /\ now \in Nat
  BY DEF Tick, Ready, lib, pipe, dev, IInv, TypeOK
<1>2. SavedOnce' /\ FramesJustSaved' /\ TimersAreLate'
  BY <1>1 DEF TimelyInv, SavedOnce, FramesJustSaved, TimersAreLate
<1>3. LiveSlotIsSaved'
  <2>1. Sec <= Sec' /\ Sec \in Int /\ Sec' \in Int
    BY <1>1, Division, PacketsAssumption DEF Sec
  <2> QED BY <1>1, <2>1, NumbersOfPackets DEF TimelyInv, LiveSlotIsSaved
<1>4. OffersOutlived'
  <2>1. \A o \in offered : o.at \in Nat
    BY DEF IInv, TypeOK
  <2> QED BY <1>1, <2>1, Division DEF TimelyInv, OffersOutlived, OutlivedBy
<1> QED BY <1>2, <1>3, <1>4 DEF TimelyInv

\* The frames that are left when the top one ends.
LEMMA PoppedDescend ==
  ASSUME IInv, calls # << >>, Continue(<< >>), ids' \subseteq ids
  PROVE  \A i \in DOMAIN calls' : /\ \E j \in 2 .. Len(calls) : calls'[i] = calls[j]
                                  /\ Descends(calls'[i]) /\ calls'[i].pkt # NoPkt
<1> DEFINE f == << >>
<1>1. f \in Seq(Frame) /\ DOMAIN f = {} /\ Continue(f)
  OBVIOUS
<1> HIDE DEF f
<1> SUFFICES ASSUME NEW i \in DOMAIN calls'
             PROVE  /\ \E j \in 2 .. Len(calls) : calls'[i] = calls[j]
                    /\ Descends(calls'[i]) /\ calls'[i].pkt # NoPkt
  OBVIOUS
<1>2. PICK j \in 2 .. Len(calls) : calls'[i] = calls[j]
  BY <1>1, Restacked
<1>3. j \in DOMAIN calls /\ calls[j].pkt \in DOMAIN pkts
  BY TopFrame
<1>4. calls[j].pkt # NoPkt
  BY <1>3, NoPktIsNoPacket DEF IInv, TypeOK
<1> QED BY <1>2, <1>3, <1>4 DEF Descends

LEMMA PacketInTimely ==
  IInv /\ TimelyInv /\ (SendSaved \/ SendUnsaved) => TimelyInv'
<1> SUFFICES ASSUME IInv, TimelyInv, SendSaved \/ SendUnsaved PROVE TimelyInv'
  OBVIOUS
<1> DEFINE bid == pkts[TopPkt].bid
<1>1. /\ calls # << >> /\ PacketIn(bid) /\ Continue(<< >>)
      /\ ring' = ring /\ ids' = ids /\ saved' = saved /\ timers' = timers /\ now' = now
  BY DEF SendSaved, SendUnsaved, Running, lib, pipe, dev, env
<1>2. OutlivedBy([bid |-> bid, pkt |-> TopPkt, at |-> now])
  <2> SUFFICES ASSUME Holds(ring, bid)
               PROVE  /\ \A tm \in timers : tm.pkt = ring[bid.slot].pkt =>
                           now + SavedFor <= tm.at
                      /\ ring[bid.slot].pkt \in saved
    BY NumbersOfPackets DEF OutlivedBy
  <2>1. bid \in BufferId /\ bid.slot \in Slots
    BY <1>1, TopBufferId DEF BufferId
  <2>2. bid # NoBuffer
    <3> SUFFICES ASSUME bid = NoBuffer PROVE FALSE
      OBVIOUS
    <3>1. [slot |-> bid.slot, cookie |-> ring[bid.slot].cookie] = NoBuffer
      BY DEF Holds, NoBuffer
    <3> QED BY <2>1, <3>1 DEF Holds, IInv, GrantedIdIsNotNoBuffer
  <2>3. ring[bid.slot].pkt = TopPkt /\ 1 \in DOMAIN calls /\ calls[1].pkt = TopPkt
    BY <1>1, <2>2, CarriedId, TopFrame DEF TopPkt
  <2> QED BY <2>1, <2>3 DEF TimelyInv, FramesJustSaved
<1>3. \A o \in offered' : o \in offered \/ OutlivedBy(o)
  BY <1>1, <1>2 DEF PacketIn
<1>4. offered' \subseteq [bid : BufferId, pkt : Nat, at : Nat]
  BY <1>1, TopBufferId, PacketInIsTyped
<1> QED BY <1>1, <1>3, <1>4, PoppedDescend, NumbersOfPackets, TimelyStays

LEMMA EvictSavedTimely == IInv /\ TimelyInv /\ EvictSaved => TimelyInv'
<1> SUFFICES ASSUME IInv, TimelyInv, EvictSaved PROVE TimelyInv'
  OBVIOUS
<1> DEFINE i == Advance(idx)
           p == ring[i].pkt
<1>1. /\ i \in Slots /\ p # NoPkt /\ p \notin ids /\ calls # << >>
      /\ NotifyPacketDestroyed(p) /\ ring' = Release(ring, i)
      /\ calls' = calls /\ now' = now /\ timers' = timers /\ offered' = offered
  BY Constants DEF EvictSaved, IInv, TypeOK, RingOutsidePipeline, Running, env
<1> HIDE DEF i
<1>2. /\ ring'[i].pkt = NoPkt
      /\ \A k \in Slots : k # i => ring'[k] = ring[k]
  BY <1>1 DEF Release, IInv, TypeOK, Slot
<1>3. \A k \in Slots : ring'[k].pkt # p
  BY <1>1, <1>2, OneSlot DEF IInv
<1>4. ids' = ids /\ saved \ {p} \subseteq saved'
  BY <1>1 DEF NotifyPacketDestroyed, pipe
<1>5. \A j \in DOMAIN calls' : Descends(calls'[j]) /\ calls'[j].pkt # NoPkt
  BY <1>1, <1>4, NoPktIsNoPacket DEF Descends, IInv, NoUseAfterFree, TypeOK
<1>6. offered' \subseteq [bid : BufferId, pkt : Nat, at : Nat]
  BY <1>1 DEF IInv, TypeOK
<1> QED BY <1>1, <1>2, <1>3, <1>4, <1>5, <1>6, NumbersOfPackets, TimelyStays

LEMMA DestroyTimely == IInv /\ TimelyInv /\ Destroy => TimelyInv'
<1> SUFFICES ASSUME IInv, TimelyInv, Destroy PROVE TimelyInv'
  OBVIOUS
<1> DEFINE p == TopPkt
<1>1. calls # << >> /\ Continue(<< >>) /\ now' = now /\ timers' = timers
      /\ offered' = offered
  BY DEF Destroy, Running, OnlyCalls, dev, env
<1>2. offered' \subseteq [bid : BufferId, pkt : Nat, at : Nat]
  BY <1>1 DEF IInv, TypeOK
<1>3. CASE OnlyCalls
  <2>1. ring' = ring /\ saved' = saved /\ ids' = ids
    BY <1>3 DEF OnlyCalls, lib, dev, pipe
  <2> QED BY <1>1, <1>2, <2>1, PoppedDescend, NumbersOfPackets, TimelyStays
<1>4. CASE ~AlreadySaved(p) /\ NotifyPacketDestroyed(p)
           /\ ring' = IF pkts[p].bid # NoBuffer /\ Holds(ring, pkts[p].bid)
                        THEN Release(ring, pkts[p].bid.slot) ELSE ring
  <2>1. pkts[p].bid = NoBuffer
    BY <1>1, <1>4, UnsavedHasNoId
  <2>2. ring' = ring /\ ids' \subseteq ids /\ saved \ {p} \subseteq saved'
    BY <1>4, <2>1 DEF NotifyPacketDestroyed, DelCopy, pipe
  <2>3. \A k \in Slots : ring[k].pkt # p
    <3> SUFFICES ASSUME NEW k \in Slots, ring[k].pkt = p PROVE FALSE
      OBVIOUS
    <3>1. p # NoPkt
      BY <1>1, TopFrame, NoPktIsNoPacket
    <3> QED BY <2>1, <3>1 DEF IInv, SlotsHoldLivePackets, GrantedIdIsNotNoBuffer
  <2> QED BY <1>1, <1>2, <2>2, <2>3, PoppedDescend, NumbersOfPackets, TimelyStays
<1> QED BY <1>3, <1>4 DEF Destroy

LEMMA SendAndSaveTimely == IInv /\ TimelyInv /\ SendAndSave => TimelyInv'
<1> SUFFICES ASSUME IInv, TimelyInv, SendAndSave PROVE TimelyInv'
  OBVIOUS
<1> DEFINE p == TopPkt
           i == Advance(idx)
           bid == [slot |-> i, cookie |-> NextCookie(ring[i].cookie)]
           new == [pkt |-> p, at |-> now + 2 * OverwriteSecs * TicksPerSec]
<1>1. /\ calls # << >> /\ i \in Slots /\ ring[i].pkt = NoPkt
      /\ Top.op = "out" /\ TopAct = "ctrl"
  BY Constants DEF SendAndSave, Running, Top, IInv, TypeOK
<1>2. CASE /\ valid /\ ids = {p}
           /\ ring' = Fill(ring, i, p, Sec)
           /\ saved' = saved \cup {p}
           /\ DelCopy(p)
           /\ ScheduleDelete(p)
           /\ PacketIn(bid)
           /\ Continue(<< >>)
           /\ UNCHANGED <<env, uid, failed>>
  <2>1. bid.slot = i /\ ids' = {} /\ now' = now
    BY <1>2 DEF DelCopy, env
  <2>2. new.pkt = p /\ new.at = now + SavedFor /\ timers' = timers \cup {new}
    BY <1>2 DEF ScheduleDelete, SavedFor
  <2>3. offered' = offered \cup {[bid |-> bid, pkt |-> p, at |-> now]}
    BY <1>2 DEF PacketIn
  <2> HIDE DEF i, bid, new
  <2>4. p # NoPkt /\ 1 \in DOMAIN calls /\ calls[1].pkt = p /\ Top = calls[1]
    BY <1>1, TopFrame, NoPktIsNoPacket DEF TopPkt
  <2>5. /\ ring'[i].pkt = p /\ ring'[i].timeout = Sec + 1
        /\ \A k \in Slots : k # i => ring'[k] = ring[k]
    BY <1>1, <1>2 DEF Fill, OverwriteSecs, IInv, TypeOK
  <2>6. \A k \in Slots : ring[k].pkt # p
    BY <1>2 DEF IInv, RingOutsidePipeline
  <2>7. \A tm \in timers : tm.pkt # p
    \* the packet asks for the controller: it was never saved before
    <3>1. ~Hushed(Top)
      BY <1>1, QuietGroups DEF Hushed, Says, TopAct
    <3> QED BY <1>2, <2>4, <3>1 DEF TimelyInv, SavedOnce
  <2>8. now \in Nat /\ SavedFor \in Nat /\ \A o \in offered : o.at \in Nat /\ o.bid.slot \in Slots
    BY Division DEF IInv, TypeOK, BufferId
  <2>9. SavedOnce'
    BY <2>1 DEF SavedOnce
  <2>10. TimersAreLate'
    <3>1. Sec + 1 <= new.at \div TicksPerSec
      BY <2>2, <2>8, Division DEF Sec
    <3> QED BY <2>2, <2>4, <2>5, <2>6, <2>7, <3>1 DEF TimelyInv, TimersAreLate
  <2>11. OffersOutlived'
    <3> SUFFICES ASSUME NEW o \in offered'
                 PROVE  /\ o.at <= now
                        /\ Holds(ring', o.bid) =>
                           /\ \A tm \in timers' : tm.pkt = ring'[o.bid.slot].pkt =>
                                o.at + SavedFor <= tm.at
                           /\ ring'[o.bid.slot].pkt \notin saved' =>
                                o.at + SavedFor <= now
      BY <2>1 DEF OffersOutlived, OutlivedBy
    <3>1. o.at \in Nat /\ o.bid.slot \in Slots /\ o.at <= now
      BY <1>1, <2>1, <2>3, <2>8 DEF TimelyInv, OffersOutlived, OutlivedBy
    <3>2. CASE o.bid.slot = i
      BY <1>2, <2>2, <2>5, <2>7, <2>8, <3>1, <3>2
    <3>3. CASE o.bid.slot # i
      <4>1. o \in offered /\ ring'[o.bid.slot] = ring[o.bid.slot]
        BY <2>1, <2>3, <2>5, <3>1, <3>3
      <4>2. ring[o.bid.slot].pkt # p
        BY <2>6, <3>1
      <4> QED BY <1>2, <2>2, <3>1, <4>1, <4>2 DEF TimelyInv, OffersOutlived, OutlivedBy, Holds
    <3> QED BY <3>2, <3>3
  <2>12. FramesJustSaved'
    <3> SUFFICES ASSUME NEW j \in DOMAIN calls', NEW k \in Slots,
                        ring'[k].pkt = calls'[j].pkt
                 PROVE  /\ calls'[j].pkt \in saved'
                        /\ \A tm \in timers' : tm.pkt = calls'[j].pkt =>
                             now + SavedFor <= tm.at
      BY <2>1 DEF FramesJustSaved
    <3>1. CASE k = i
      BY <1>2, <2>2, <2>5, <2>7, <2>8, <3>1
    <3>2. CASE k # i
      <4>1. PICK m \in 2 .. Len(calls) : calls'[j] = calls[m]
        BY <1>1, <1>2, <2>1, PoppedDescend
      <4>2. m \in DOMAIN calls /\ ring[k].pkt = calls[m].pkt /\ calls[m].pkt # p
        BY <1>1, <2>5, <2>6, <3>2, <4>1, TopFrame
      <4> QED BY <1>2, <2>2, <4>1, <4>2 DEF TimelyInv, FramesJustSaved
    <3> QED BY <3>1, <3>2
  <2>13. LiveSlotIsSaved'
    BY <1>2, <2>1, <2>5 DEF TimelyInv, LiveSlotIsSaved, Sec
  <2> QED BY <2>9, <2>10, <2>11, <2>12, <2>13 DEF TimelyInv
<1> QED BY <1>2, FailTimely DEF SendAndSave

LEMMA StepTimely ==
  ASSUME QuietAnswers
  PROVE  IInv /\ LeakInv /\ TimelyInv /\ [Next]_vars => TimelyInv'
<1> SUFFICES ASSUME IInv, LeakInv, TimelyInv, [Next]_vars PROVE TimelyInv'
  OBVIOUS
<1>1. CASE Event
  BY <1>1, SendToPipelineTimely, AnswerTimely, PacketOutDataTimely DEF Event
<1>2. CASE CallStep
  BY <1>2, PureTimely, PacketInTimely, EvictSavedTimely, SendAndSaveTimely,
     DestroyTimely DEF CallStep, Pure
<1>3. CASE UNCHANGED vars
  BY <1>3 DEF vars, TimelyInv, SavedOnce, TimersAreLate, OffersOutlived, OutlivedBy,
     FramesJustSaved, LiveSlotIsSaved, Sec
<1> QED BY <1>1, <1>2, <1>3, TimerTimely, TickTimely DEF Next

LEMMA InitTimely == Init => TimelyInv
<1> SUFFICES ASSUME Init PROVE TimelyInv
  OBVIOUS
<1>1. \A k \in Slots : ring[k].pkt = NoPkt
  BY DEF Init, EmptyRing
<1> QED BY <1>1 DEF Init, TimelyInv, SavedOnce, TimersAreLate, OffersOutlived,
     FramesJustSaved, LiveSlotIsSaved

LEMMA TimelyInvariance ==
  ASSUME QuietAnswers PROVE Spec => [](IInv /\ LeakInv /\ TimelyInv)
BY InitTimely, StepTimely, LeakInvariance, PTL DEF Spec

\* While dp_buffers cannot overwrite a slot, m_bufferPkts has the ns-3 packet: the comment of
\* BufferPacketSave about doubling the timeout is right, for any number of ticks per second.
THEOREM LiveSlotsAreSaved ==
  ASSUME QuietAnswers PROVE Spec => []LiveSlotIsSaved
<1>1. TimelyInv => LiveSlotIsSaved
  BY DEF TimelyInv
<1> QED BY <1>1, TimelyInvariance, PTL
------------------------------------------------------------------------------
(* Answers in time find their packet; and no assertion fails *)

\* An answer that comes in time finds the ns-3 packet.
LEMMA AnswerInTime ==
  ASSUME TimelyAnswers, IInv, TimelyInv, NEW o \in offered, Answers(o)
  PROVE  ring[o.bid.slot].pkt \in saved
<1>1. /\ o.at \in Nat /\ now \in Nat /\ ReplyWithin \in Nat /\ SavedFor \in Nat
      /\ Holds(ring, o.bid) /\ now <= o.at + ReplyWithin /\ ReplyWithin < SavedFor
  BY Division, PacketsAssumption DEF IInv, TypeOK, Answers, TimelyAnswers, SavedFor
<1>2. ring[o.bid.slot].pkt \notin saved => o.at + SavedFor <= now
  BY <1>1 DEF TimelyInv, OffersOutlived, OutlivedBy
<1> QED BY <1>1, <1>2

LEMMA StepFound ==
  ASSUME TimelyAnswers
  PROVE  IInv /\ LeakInv /\ TimelyInv /\ BufferedPacketIsFound /\ [Next]_vars
           => BufferedPacketIsFound'
<1> SUFFICES ASSUME IInv, LeakInv, TimelyInv, BufferedPacketIsFound, [Next]_vars
             PROVE  BufferedPacketIsFound'
  OBVIOUS
<1>1. CASE SendToPipeline
  BY <1>1 DEF SendToPipeline, Fail, BufferedPacketIsFound
<1>2. CASE PacketOutBuffer \/ FlowModBuffer
  BY <1>2, AnswerInTime DEF PacketOutBuffer, FlowModBuffer, RetrieveChecks, Retrieve,
     Fail, BufferedPacketIsFound
<1>3. CASE Pure
  BY <1>3, PureMoves DEF LeakInv, Fails, Fail, Reframes, BufferedPacketIsFound
<1>4. CASE SendAndSave
  BY <1>4 DEF SendAndSave, Fail, BufferedPacketIsFound
<1>5. CASE SendSaved \/ SendUnsaved \/ EvictSaved \/ Destroy
  BY <1>5 DEF SendSaved, SendUnsaved, EvictSaved, Destroy, OnlyCalls,
     BufferedPacketIsFound
<1>6. CASE PacketOutData \/ BufferPacketDelete \/ Tick \/ UNCHANGED vars
  BY <1>6 DEF PacketOutData, BufferPacketDelete, Tick, vars, BufferedPacketIsFound
<1> QED BY <1>1, <1>2, <1>3, <1>4, <1>5, <1>6 DEF Next, Event, CallStep, Pure

\* An answer in time finds the ns-3 packet ("Packet not found in buffer" in BufferPacketRetrieve):
\* from the packet-in on the timer leaves 2 s, also when a later handler saves other packets.
THEOREM BufferedPacketsAreFound ==
  ASSUME QuietAnswers, TimelyAnswers PROVE Spec => []BufferedPacketIsFound
<1>1. Init => BufferedPacketIsFound
  BY DEF Init, BufferedPacketIsFound
<1> QED BY <1>1, StepFound, TimelyInvariance, PTL DEF Spec
------------------------------------------------------------------------------
\* All frames keep to what OrderlyTables and QuietAnswers say.
FramesAreFine == \A i \in DOMAIN calls : Fine(calls[i])

\* When a frame may still ask the controller, the frames after it are about the same packet and
\* need no ns-3 packet: no copy is under way at a save.
LoudFramesLast ==
  \A i, j \in DOMAIN calls :
    i < j /\ ~Hushed(calls[i]) => calls[j].pkt = calls[i].pkt /\ Settled(calls[j])

\* While m_pipePkt is valid it has all packets that calls work on.
FramesInPipeline == valid => \A i \in DOMAIN calls : calls[i].pkt \in ids

\* When it is not, the calls carry a packet-out's data to ports, or are about a packet that has been
\* saved, of which only the id is sent again.
FramesOutside ==
  ~valid =>
    \/ \A i \in DOMAIN calls : OfData(calls[i])
    \/ \A i \in DOMAIN calls : Settled(calls[i]) /\ pkts[calls[i].pkt].bid # NoBuffer

\* Why no assertion fails: inductive with IInv, LeakInv and TimelyInv.
OrderInv ==
  FramesAreFine /\ LoudFramesLast /\ FramesInPipeline /\ FramesOutside /\ NoAssertFails

LEMMA TopSays ==
  ASSUME IInv, calls # << >>, Top.acts # << >>
  PROVE  Top.op # "destroy" => TopAct \in Says(Top)
<1>1. Top.acts \in Seq(Ending)
  BY TopFrame DEF Frame
<1> QED BY <1>1, ListActs DEF Says, TopAct

\* No callback of the running call finds its packet missing.
LEMMA NeverUnready ==
  ASSUME IInv, OrderInv, calls # << >> PROVE ~Unready
<1>1. Top = calls[1] /\ 1 \in DOMAIN calls
  BY TopFrame
<1>2. valid => TopPkt \in ids
  BY <1>1 DEF OrderInv, FramesInPipeline, TopPkt
<1>3. ~valid => OfData(Top) \/ Settled(Top)
  BY <1>1 DEF OrderInv, FramesOutside
<1>4. Top.op = "list" /\ Top.acts # << >> => TopAct \in Says(Top)
  BY TopSays
<1>5. Top.op \in {"set", "out"} => Says(Top) = {TopAct}
  BY DEF Says, TopAct
<1>6. CASE valid
  BY <1>2, <1>6 DEF Unready
<1>7. CASE OfData(Top)
  BY <1>2, <1>4, <1>5, <1>7, Names DEF OfData, Unready, TopPkt
<1>8. CASE Settled(Top)
  BY <1>2, <1>4, <1>5, <1>8, Names DEF Settled, Unready
<1> QED BY <1>3, <1>6, <1>7, <1>8

\* Frames that are Ordered may take the place of the top one.
LEMMA OrderKept ==
  ASSUME IInv, OrderInv, calls # << >>, NEW f \in Seq(Frame), Continue(f), Ordered(f),
         Hushed(Top) => \A i \in DOMAIN f : Hushed(f[i])
  PROVE  FramesAreFine' /\ LoudFramesLast'
<1>1. Top = calls[1] /\ 1 \in DOMAIN calls /\ Fine(Top) /\ Top.pkt = TopPkt
      /\ DOMAIN calls = 1 .. Len(calls) /\ Len(calls) \in Nat
  BY TopFrame DEF OrderInv, FramesAreFine, TopPkt, IInv, FramesAreTyped
<1>2. \A i \in DOMAIN calls' :
        \/ i \in DOMAIN f /\ calls'[i] = f[i]
        \/ \E j \in 2 .. Len(calls) : calls'[i] = calls[j] /\ i = Len(f) + j - 1
  BY Restacked
<1>3. DOMAIN f = 1 .. Len(f) /\ Len(f) \in Nat
  OBVIOUS
<1>4. \A j \in 2 .. Len(calls) : j \in DOMAIN calls /\ 1 < j
  BY <1>1
<1>5. FramesAreFine'
  BY <1>1, <1>2, <1>4 DEF OrderInv, FramesAreFine, Ordered
<1>6. LoudFramesLast'
  <2> SUFFICES ASSUME NEW i \in DOMAIN calls', NEW j \in DOMAIN calls',
                      i < j, ~Hushed(calls'[i])
               PROVE  calls'[j].pkt = calls'[i].pkt /\ Settled(calls'[j])
    BY DEF LoudFramesLast
  <2>1. CASE i \in DOMAIN f /\ calls'[i] = f[i]
    <3>1. f[i].pkt = TopPkt /\ ~Hushed(Top)
      BY <1>1, <2>1 DEF Ordered
    <3>2. CASE j \in DOMAIN f /\ calls'[j] = f[j]
      BY <1>1, <2>1, <3>1, <3>2 DEF Ordered
    <3>3. ASSUME NEW m \in 2 .. Len(calls), calls'[j] = calls[m]
          PROVE  calls'[j].pkt = calls'[i].pkt /\ Settled(calls'[j])
      BY <1>1, <1>4, <2>1, <3>1, <3>3 DEF OrderInv, LoudFramesLast
    <3> QED BY <1>2, <3>2, <3>3
  <2>2. ASSUME NEW k \in 2 .. Len(calls), calls'[i] = calls[k], i = Len(f) + k - 1
        PROVE  calls'[j].pkt = calls'[i].pkt /\ Settled(calls'[j])
    <3>1. j \notin DOMAIN f
      BY <1>3, <2>2
    <3>2. PICK m \in 2 .. Len(calls) : calls'[j] = calls[m] /\ j = Len(f) + m - 1
      BY <1>2, <3>1
    <3>3. k < m
      BY <1>1, <1>3, <2>2, <3>2
    <3> QED BY <1>4, <2>2, <3>2, <3>3 DEF OrderInv, LoudFramesLast
  <2> QED BY <1>2, <2>1, <2>2
<1> QED BY <1>5, <1>6

LEMMA PureOrder == IInv /\ LeakInv /\ OrderInv /\ Pure => OrderInv'
<1> SUFFICES ASSUME IInv, LeakInv, OrderInv, Pure PROVE OrderInv'
  OBVIOUS
<1>1. PICK f : Reframes(f) /\ Ordered(f)
  BY PureMoves, NeverUnready DEF LeakInv, Fails
<1>2. calls # << >> /\ f \in Seq(Frame) /\ Continue(f) /\ valid' = valid /\ failed' = failed
      /\ (Hushed(Top) => \A i \in DOMAIN f : Hushed(f[i]))
  BY <1>1, PureMoves DEF LeakInv, Reframes
<1>3. FramesAreFine' /\ LoudFramesLast'
  BY <1>1, <1>2, OrderKept
<1>4. Top = calls[1] /\ 1 \in DOMAIN calls /\ Top.pkt = TopPkt
      /\ \A j \in 2 .. Len(calls) : j \in DOMAIN calls
  BY <1>2, TopFrame DEF TopPkt
<1>5. \A i \in DOMAIN calls' :
        \/ i \in DOMAIN f /\ calls'[i] = f[i]
        \/ \E j \in DOMAIN calls : calls'[i] = calls[j]
  BY <1>2, <1>4, Restacked
<1>6. FramesInPipeline'
  <2> SUFFICES ASSUME valid, NEW i \in DOMAIN calls' PROVE calls'[i].pkt \in ids'
    BY <1>2 DEF FramesInPipeline
  <2>1. \A j \in DOMAIN calls : calls[j].pkt \in ids
    BY DEF OrderInv, FramesInPipeline
  <2>2. ids \subseteq ids' /\ \A j \in DOMAIN f : f[j].pkt = TopPkt \/ f[j].pkt \in ids'
    BY <1>1 DEF Reframes, Clones
  <2> QED BY <1>4, <1>5, <2>1, <2>2
<1>7. FramesOutside'
  <2> SUFFICES ASSUME ~valid
               PROVE  \/ \A i \in DOMAIN calls' : OfData(calls'[i])
                      \/ \A i \in DOMAIN calls' :
                           Settled(calls'[i]) /\ pkts'[calls'[i].pkt].bid # NoBuffer
    BY <1>2 DEF FramesOutside
  <2>1. pkts' = pkts /\ \A i \in DOMAIN f : f[i].pkt = TopPkt
    BY <1>1 DEF Reframes, Clones
  <2>2. CASE \A i \in DOMAIN calls : OfData(calls[i])
    BY <1>1, <1>4, <1>5, <2>2 DEF Ordered
  <2>3. CASE \A i \in DOMAIN calls :
               Settled(calls[i]) /\ pkts[calls[i].pkt].bid # NoBuffer
    BY <1>1, <1>4, <1>5, <2>1, <2>3 DEF Ordered
  <2> QED BY <2>2, <2>3 DEF OrderInv, FramesOutside
<1> QED BY <1>2, <1>3, <1>6, <1>7 DEF OrderInv, NoAssertFails

\* The frames that are left when the top one ends keep their order.
LEMMA PoppedOrder ==
  ASSUME IInv, OrderInv, calls # << >>, Continue(<< >>)
  PROVE  /\ FramesAreFine' /\ LoudFramesLast'
         /\ \A i \in DOMAIN calls' :
              \E j \in 2 .. Len(calls) :
                calls'[i] = calls[j] /\ j \in DOMAIN calls /\ 1 < j
         /\ 1 \in DOMAIN calls /\ Top = calls[1]
<1> DEFINE f == << >>
<1>1. f \in Seq(Frame) /\ DOMAIN f = {} /\ Continue(f)
  OBVIOUS
<1> HIDE DEF f
<1>2. Ordered(f) /\ \A i \in DOMAIN f : Hushed(f[i])
  BY <1>1 DEF Ordered
<1>3. \A j \in 2 .. Len(calls) : j \in DOMAIN calls /\ 1 < j
  BY TopFrame
<1> QED BY <1>1, <1>2, <1>3, OrderKept, Restacked, TopFrame

LEMMA PacketInOrder == IInv /\ OrderInv /\ (SendSaved \/ SendUnsaved) => OrderInv'
<1> SUFFICES ASSUME IInv, OrderInv, SendSaved \/ SendUnsaved PROVE OrderInv'
  OBVIOUS
<1>1. /\ calls # << >> /\ Continue(<< >>) /\ pkts' = pkts /\ valid' = valid
      /\ ids' = ids /\ failed' = failed
  BY DEF SendSaved, SendUnsaved, Running, lib, pipe
<1> QED BY <1>1, PoppedOrder DEF OrderInv, FramesInPipeline, FramesOutside, NoAssertFails

LEMMA EvictSavedOrder == IInv /\ OrderInv /\ EvictSaved => OrderInv'
<1> SUFFICES ASSUME IInv, OrderInv, EvictSaved PROVE OrderInv'
  OBVIOUS
<1> DEFINE i == Advance(idx)
           p == ring[i].pkt
<1>1. /\ i \in Slots /\ p # NoPkt /\ p \notin ids /\ ~Refuses(ring, i, Sec)
      /\ NotifyPacketDestroyed(p) /\ Free(p) /\ calls' = calls /\ failed' = failed
  BY Constants DEF EvictSaved, IInv, TypeOK, RingOutsidePipeline
<1> HIDE DEF i
<1>2. valid' = valid /\ ids' = ids
  BY <1>1 DEF NotifyPacketDestroyed, pipe
<1>3. \A j \in DOMAIN calls : pkts'[calls[j].pkt] = pkts[calls[j].pkt]
  <2>1. \A j \in DOMAIN calls : calls[j].pkt \in DOMAIN pkts /\ calls[j].pkt # p
    BY <1>1 DEF IInv, NoUseAfterFree, FramesAreLive, Refuses
  <2> QED BY <1>1, <2>1 DEF Free, Restrict
<1> QED BY <1>1, <1>2, <1>3 DEF OrderInv, FramesAreFine, LoudFramesLast,
       FramesInPipeline, FramesOutside, NoAssertFails

LEMMA SendAndSaveOrder == IInv /\ LeakInv /\ OrderInv /\ SendAndSave => OrderInv'
<1> SUFFICES ASSUME IInv, LeakInv, OrderInv, SendAndSave PROVE OrderInv'
  OBVIOUS
<1> DEFINE p == TopPkt
           i == Advance(idx)
<1>1. /\ calls # << >> /\ i \in Slots /\ Top.op = "out" /\ TopAct = "ctrl"
      /\ ~AlreadySaved(p)
  BY Constants DEF SendAndSave, Running, Top, IInv, TypeOK
<1>2. Says(Top) = {"ctrl"} /\ ~Hushed(Top) /\ Top.op \notin Owning
  BY <1>1, QuietGroups DEF Says, TopAct, Hushed, Owning
<1>3. 1 \in DOMAIN calls /\ Top = calls[1] /\ p = calls[1].pkt
      /\ \A j \in 2 .. Len(calls) : j \in DOMAIN calls /\ 1 < j
  BY <1>1, TopFrame DEF TopPkt
<1>4. valid
  <2>1. pkts[p].bid = NoBuffer
    BY <1>1, UnsavedHasNoId
  <2>2. ~OfData(Top)
    BY <1>1, <1>2 DEF OfData
  <2> QED BY <1>3, <2>1, <2>2 DEF OrderInv, FramesOutside
<1>5. p \in ids
  BY <1>3, <1>4 DEF OrderInv, FramesInPipeline
<1>6. \A j \in 2 .. Len(calls) : calls[j].pkt = p /\ Settled(calls[j])
  BY <1>2, <1>3 DEF OrderInv, LoudFramesLast
<1>7. ids = {p}
  <2> SUFFICES ASSUME NEW q \in ids PROVE q = p
    BY <1>5
  <2>1. q \in DOMAIN pkts /\ \A k \in Slots : ring[k].pkt # q
    BY DEF IInv, PipelineNamesLivePackets, RingOutsidePipeline
  <2> QED BY <1>1, <1>2, <1>6, <2>1, Owner DEF LeakInv
<1>8. /\ ring' = Fill(ring, i, p, Sec) /\ DelCopy(p) /\ Continue(<< >>)
      /\ failed' = failed
  BY <1>4, <1>5, <1>7 DEF SendAndSave
<1>9. ~valid'
  BY <1>7, <1>8 DEF DelCopy
<1>10. pkts'[p].bid # NoBuffer
  <2>1. IInv'
    BY SendAndSaveStep
  <2> HIDE DEF i
  <2>2. ring'[i].pkt = p /\ p # NoPkt
    BY <1>1, <1>8, TopFrame, NoPktIsNoPacket DEF Fill, IInv, TypeOK
  <2> QED BY <1>1, <2>1, <2>2 DEF IInv, SlotsHoldLivePackets, GrantedIdIsNotNoBuffer
<1> QED BY <1>1, <1>6, <1>8, <1>9, <1>10, PoppedOrder
       DEF OrderInv, FramesInPipeline, FramesOutside, NoAssertFails

LEMMA DestroyOrder == IInv /\ OrderInv /\ Destroy => OrderInv'
<1> SUFFICES ASSUME IInv, OrderInv, Destroy PROVE OrderInv'
  OBVIOUS
<1> DEFINE p == TopPkt
<1>1. /\ calls # << >> /\ Continue(<< >>) /\ Top.op = "destroy" /\ failed' = failed
  BY DEF Destroy, Running, Top, OnlyCalls
<1>2. CASE OnlyCalls
  <2>1. pkts' = pkts /\ valid' = valid /\ ids' = ids
    BY <1>2 DEF OnlyCalls, lib, pipe
  <2> QED BY <1>1, <2>1, PoppedOrder
         DEF OrderInv, FramesInPipeline, FramesOutside, NoAssertFails
<1>3. CASE NotifyPacketDestroyed(p) /\ Free(p)
  <2>1. ASSUME NEW i \in DOMAIN calls'
        PROVE  /\ \E j \in DOMAIN calls : calls'[i] = calls[j]
               /\ calls'[i].pkt # p /\ pkts'[calls'[i].pkt] = pkts[calls'[i].pkt]
    <3>1. PICK j \in DOMAIN calls : calls'[i] = calls[j] /\ 1 < j
      BY <1>1, PoppedOrder
    <3>2. calls[j].pkt \in DOMAIN pkts /\ calls[j].pkt # p
      BY <1>1, <3>1, PoppedOrder DEF IInv, NoUseAfterFree, OwnersLast, Owning, TopPkt
    <3> QED BY <1>3, <3>1, <3>2 DEF Free, Restrict
  <2>2. valid => p \in ids
    BY <1>1, PoppedOrder DEF OrderInv, FramesInPipeline, TopPkt
  <2>3. CASE valid
    <3>1. ids' = ids \ {p} /\ valid' = (ids' # {})
      BY <1>3, <2>2, <2>3 DEF NotifyPacketDestroyed, DelCopy
    <3>2. \A i \in DOMAIN calls' : calls'[i].pkt \in ids'
      BY <2>1, <2>3, <3>1 DEF OrderInv, FramesInPipeline
    <3> QED BY <1>1, <3>1, <3>2, PoppedOrder
           DEF OrderInv, FramesInPipeline, FramesOutside, NoAssertFails
  <2>4. CASE ~valid
    <3>1. ~valid'
      BY <1>3, <2>4 DEF NotifyPacketDestroyed, pipe
    <3> QED BY <1>1, <2>1, <2>4, <3>1, PoppedOrder
           DEF OrderInv, FramesInPipeline, FramesOutside, NoAssertFails
  <2> QED BY <2>3, <2>4
<1> QED BY <1>2, <1>3 DEF Destroy

\* How an event starts.
LEMMA StartOrder ==
  ASSUME NEW op \in {"set", "destroy"}, NEW p, NEW acts, NEW acts2,
         calls' = << Call("list", p, acts), Call(op, p, acts2) >>,
         Range(acts) \subseteq Quiet \cup {"ctrl"}, CtrlLast(acts),
         op = "set" => Head(acts2) \in Last,
         "ctrl" \in Range(acts) => op = "destroy" \/ Head(acts2) \in {"ctrl", "none"}
  PROVE  FramesAreFine' /\ LoudFramesLast'
<1> DEFINE a == Call("list", p, acts)
           b == Call(op, p, acts2)
<1>1. /\ a.op = "list" /\ a.acts = acts /\ a.pkt = p /\ Says(a) = Range(acts)
      /\ b.op = op /\ b.pkt = p /\ (op = "set" => Says(b) = {Head(acts2)})
  BY SaysCall, CallFields
<1> HIDE DEF a, b
<1>2. Fine(a) /\ Fine(b)
  BY <1>1 DEF Fine
<1>3. ~Hushed(a) => Settled(b)
  BY <1>1 DEF Hushed, Settled
<1>4. DOMAIN calls' = {1, 2} /\ calls'[1] = a /\ calls'[2] = b
  BY DEF a, b
<1>5. FramesAreFine'
  BY <1>2, <1>4 DEF FramesAreFine
<1>6. LoudFramesLast'
  BY <1>1, <1>3, <1>4 DEF LoudFramesLast
<1> QED BY <1>5, <1>6

\* Quiet lists never name the controller.
LEMMA QuietLists ==
  ASSUME NEW acts, Range(acts) \subseteq Quiet
  PROVE  "ctrl" \notin Range(acts) /\ CtrlLast(acts)
<1>1. "ctrl" \notin Range(acts)
  BY QuietGroups
<1> QED BY <1>1 DEF CtrlLast, Range

LEMMA PortIsQuiet == "port" \in Quiet
<1>1. {"port"} \in SUBSET Ending /\ "ctrl" \notin {"port"} /\ {"port"} \cap Groups = {}
  BY Names
<1> QED BY <1>1 DEF Quiet

LEMMA SendToPipelineOrder ==
  ASSUME OrderlyTables PROVE IInv /\ LeakInv /\ OrderInv /\ SendToPipeline => OrderInv'
<1> SUFFICES ASSUME IInv, LeakInv, OrderInv, SendToPipeline PROVE OrderInv'
  OBVIOUS
<1>1. calls = << >> /\ ~valid
  BY Tidy DEF SendToPipeline, Ready
<1>2. /\ valid' = TRUE /\ NewId \in ids' /\ failed' = failed
  BY <1>1 DEF SendToPipeline, SetPacket
<1>3. PICK t \in Treatments : calls' = Process(NewId, t)
  BY <1>1 DEF SendToPipeline
<1>4. Head(<< t.end >>) = t.end
  BY OneAct
<1>5. FramesAreFine' /\ LoudFramesLast'
  BY <1>3, <1>4, StartOrder DEF Process, OrderlyTables
<1>6. \A i \in DOMAIN calls' : calls'[i].pkt = NewId
  BY <1>3, StartStack DEF Process
<1> QED BY <1>2, <1>5, <1>6 DEF OrderInv, FramesInPipeline, FramesOutside, NoAssertFails

LEMMA PacketOutDataOrder ==
  ASSUME OrderlyTables PROVE IInv /\ LeakInv /\ OrderInv /\ PacketOutData => OrderInv'
<1> SUFFICES ASSUME IInv, LeakInv, OrderInv, PacketOutData PROVE OrderInv'
  OBVIOUS
<1>1. calls = << >> /\ ~valid'/\ failed' = failed
  BY Tidy DEF PacketOutData, Ready, pipe
<1>2. PICK acts \in DataLists :
        calls' = << Call("list", FromController, acts),
                    Call("destroy", FromController, << >>) >>
  BY DEF PacketOutData
<1>3. Range(acts) \subseteq {"port"} /\ Range(acts) \subseteq Quiet
  BY PortIsQuiet DEF OrderlyTables
<1>4. FramesAreFine' /\ LoudFramesLast'
  BY <1>2, <1>3, QuietLists, StartOrder
<1>5. \A i \in DOMAIN calls' : OfData(calls'[i])
  <2> DEFINE a == Call("list", FromController, acts)
             b == Call("destroy", FromController, << >>)
  <2>1. OfData(a) /\ OfData(b)
    BY <1>3, SaysCall, CallFields DEF OfData
  <2> HIDE DEF a, b
  <2>2. DOMAIN calls' = {1, 2} /\ calls'[1] = a /\ calls'[2] = b
    BY <1>2 DEF a, b
  <2> QED BY <2>1, <2>2
<1> QED BY <1>1, <1>4, <1>5 DEF OrderInv, FramesInPipeline, FramesOutside, NoAssertFails

LEMMA AnswerOrder ==
  ASSUME QuietAnswers, TimelyAnswers
  PROVE  IInv /\ LeakInv /\ TimelyInv /\ OrderInv /\ (PacketOutBuffer \/ FlowModBuffer)
           => OrderInv'
<1> SUFFICES ASSUME IInv, LeakInv, TimelyInv, OrderInv, PacketOutBuffer \/ FlowModBuffer
             PROVE  OrderInv'
  OBVIOUS
<1>1. ASSUME NEW p, NEW o, Retrieve(p, o),
             NEW op \in {"set", "destroy"}, NEW acts, NEW acts2,
             calls' = << Call("list", p, acts), Call(op, p, acts2) >>,
             Range(acts) \subseteq Quiet, op = "set" => Head(acts2) \in Quiet
      PROVE  OrderInv'
  <2>1. valid' = TRUE /\ p \in ids' /\ failed' = failed
    BY <1>1 DEF Retrieve, SetPacket
  <2>2. FramesAreFine' /\ LoudFramesLast'
    BY <1>1, QuietLists, LastGroups, StartOrder
  <2>3. \A i \in DOMAIN calls' : calls'[i].pkt = p
    BY <1>1, StartStack
  <2> QED BY <2>1, <2>2, <2>3 DEF OrderInv, FramesInPipeline, FramesOutside, NoAssertFails
<1>2. ASSUME NEW o \in offered, Answers(o)
      PROVE  ~valid /\ ring[o.bid.slot].pkt \in saved
  BY <1>2, Tidy, AnswerInTime DEF Answers, Ready
<1>3. ASSUME NEW o \in offered, Answers(o), NEW acts \in OutLists,
             RetrieveChecks(ring[o.bid.slot].pkt,
               /\ calls' = << Call("list", ring[o.bid.slot].pkt, acts),
                              Call("destroy", ring[o.bid.slot].pkt, << >>) >>
               /\ Retrieve(ring[o.bid.slot].pkt, o))
      PROVE  OrderInv'
  BY <1>1, <1>2, <1>3 DEF RetrieveChecks, QuietAnswers
<1>4. ASSUME NEW o \in offered, Answers(o), NEW t \in ResumeTreatments,
             RetrieveChecks(ring[o.bid.slot].pkt,
               /\ calls' = Process(ring[o.bid.slot].pkt, t)
               /\ Retrieve(ring[o.bid.slot].pkt, o))
      PROVE  OrderInv'
  <2>1. Head(<< t.end >>) \in Quiet /\ Range(t.apply) \subseteq Quiet
    BY OneAct DEF QuietAnswers
  <2> QED BY <1>1, <1>2, <1>4, <2>1 DEF RetrieveChecks, Process
<1> QED BY <1>3, <1>4 DEF PacketOutBuffer, FlowModBuffer

LEMMA StepOrder ==
  ASSUME QuietAnswers, TimelyAnswers, OrderlyTables
  PROVE  IInv /\ LeakInv /\ TimelyInv /\ OrderInv /\ [Next]_vars => OrderInv'
<1> SUFFICES ASSUME IInv, LeakInv, TimelyInv, OrderInv, [Next]_vars PROVE OrderInv'
  OBVIOUS
<1>1. CASE Event
  BY <1>1, SendToPipelineOrder, AnswerOrder, PacketOutDataOrder DEF Event
<1>2. CASE CallStep
  BY <1>2, PureOrder, PacketInOrder, EvictSavedOrder, SendAndSaveOrder, DestroyOrder
     DEF CallStep, Pure
<1>3. CASE BufferPacketDelete \/ Tick \/ UNCHANGED vars
  BY <1>3 DEF BufferPacketDelete, Tick, vars, lib, pipe, OrderInv, FramesAreFine,
     LoudFramesLast, FramesInPipeline, FramesOutside, NoAssertFails
<1> QED BY <1>1, <1>2, <1>3 DEF Next

LEMMA InitOrder == Init => OrderInv
BY DEF Init, OrderInv, FramesAreFine, LoudFramesLast, FramesInPipeline, FramesOutside,
   NoAssertFails

\* No NS_ASSERT about packets stops the program (SendToPipeline, BufferPacketSave,
\* BufferPacketRetrieve, NotifyPacketCloned, NotifyPacketDroppedByTable and ByMeter,
\* SendToSwitchPort of OFSwitch13Device), for any switch whose tables, groups and controller
\* keep to OrderlySwitch.
THEOREM NoAssertionFails ==
  ASSUME QuietAnswers, TimelyAnswers, OrderlyTables PROVE Spec => []NoAssertFails
<1>1. OrderInv => NoAssertFails
  BY DEF OrderInv
<1> QED BY <1>1, InitOrder, StepOrder, TimelyInvariance, PTL DEF Spec
==============================================================================
