------------------------- MODULE SocketHandlerProofs -------------------------
(* Theorems about SocketHandler, for messages that the length field and the *)
(* send buffer can hold.                                                    *)
EXTENDS SocketHandler, TLAPS

\* Messages follow each other in the stream without gaps.
Stream ==
  /\ ends[0] = 0
  /\ \A i \in 1 .. given : ends[i] - ends[i - 1] \in Sizes
  /\ \A i, j \in 0 .. given : i < j => ends[i] < ends[j]

\* Nothing is skipped while the socket takes messages.
NoneSkipped == connected => accepted = popped

\* What was handed over are the first messages, and m_pendingPacket is the
\* beginning of the next one.
Position ==
  LET n == Len(delivered) IN
  /\ n <= accepted
  /\ \A i \in 1 .. n : delivered[i] = <<ends[i - 1], ends[i]>>
  /\ pending = 0 => consumed = ends[n]
  /\ pending # 0 => /\ n < accepted /\ start = ends[n]
                    /\ consumed + pending = ends[n + 1]

\* Recv leaves less than a header, or an unfinished message.
ReadOut ==
  running # "Recv" =>
    \/ pending = 0 /\ arrived - consumed < HeaderSize
    \/ pending # 0 /\ arrived = consumed

IInv == TypeOK /\ Stream /\ NoneSkipped /\ Position /\ ReadOut

\* The least of two numbers.
LEMMA MinOfTwo ==
  ASSUME NEW a \in Int, NEW b \in Int
  PROVE  Min({a, b}) = IF a <= b THEN a ELSE b
BY DEF Min

\* The facts about numbers that the steps use.
LEMMA Numbers ==
  ASSUME IInv
  PROVE  /\ given \in Nat /\ popped \in Nat /\ accepted \in Nat
         /\ accepted <= popped /\ popped <= given
         /\ Len(delivered) \in Nat /\ Len(delivered) <= accepted
         /\ \A i \in 0 .. given : ends[i] \in Nat
         /\ \A i \in 1 .. given : HeaderSize <= ends[i] - ends[i - 1]
         /\ \A i, j \in 0 .. given : i < j => ends[i] < ends[j]
         /\ acked \in Nat /\ arrived \in Nat /\ consumed \in Nat /\ pending \in Nat
         /\ acked <= arrived /\ arrived <= ends[accepted] /\ consumed <= arrived
<1>1. TypeOK /\ Stream /\ Position BY DEF IInv
<1>2. /\ given \in Nat /\ popped \in Nat /\ accepted \in Nat
      /\ accepted <= popped /\ popped <= given
      /\ Len(delivered) \in Nat
      /\ \A i \in 0 .. given : ends[i] \in Nat
      /\ acked \in Nat /\ arrived \in Nat /\ consumed \in Nat
      /\ acked <= arrived /\ arrived <= ends[accepted]
  BY <1>1, SocketAssumption DEF TypeOK
<1>3. pending \in Nat /\ consumed <= arrived
  BY <1>1, <1>2, SocketAssumption DEF TypeOK
<1>4. Len(delivered) <= accepted BY <1>1 DEF Position
<1>5. \A i, j \in 0 .. given : i < j => ends[i] < ends[j] BY <1>1 DEF Stream
<1>6. \A i \in 1 .. given : HeaderSize <= ends[i] - ends[i - 1]
  BY <1>1, SocketAssumption DEF Stream
<1> QED BY <1>2, <1>3, <1>4, <1>5, <1>6

LEMMA InitInv == Init => IInv
<1> SUFFICES ASSUME Init PROVE IInv
  OBVIOUS
<1>1. TypeOK BY SocketAssumption DEF Init, TypeOK
<1>2. Stream BY DEF Init, Stream
<1>3. NoneSkipped BY DEF Init, NoneSkipped
<1>4. Position BY DEF Init, Position
<1>5. ReadOut BY SocketAssumption DEF Init, ReadOut
<1> QED BY <1>1, <1>2, <1>3, <1>4, <1>5 DEF IInv

LEMMA SendMessageInv ==
  ASSUME IInv, NEW s \in Sizes, SendMessage(s)
  PROVE  IInv'
<1>t. TypeOK /\ Stream /\ NoneSkipped /\ Position /\ ReadOut BY DEF IInv
<1>u. /\ given' = given + 1 /\ running' = "Send" /\ running = "none"
      /\ given < MaxMessages
      /\ ends' = [i \in 0 .. given + 1 |-> IF i <= given THEN ends[i] ELSE ends[given] + s]
      /\ UNCHANGED <<popped, accepted, acked, arrived, connected,
                     consumed, start, pending, delivered>>
  BY DEF SendMessage, tcp, receiver, Idle
<1>0. s \in Nat /\ HeaderSize <= s /\ HeaderSize \in Nat \ {0} /\ given \in Nat
  BY Numbers, SocketAssumption
<1>1. \A i \in 0 .. given : ends'[i] = ends[i] /\ ends[i] \in Nat
  BY <1>0, <1>u, Numbers
<1>2. ends'[given + 1] = ends[given] + s
  BY <1>0, <1>u
<1>3. TypeOK'
  <2>1. ends' \in [0 .. given' -> Nat]
    <3>1. \A i \in 0 .. given + 1 :
            (IF i <= given THEN ends[i] ELSE ends[given] + s) \in Nat
      <4>1. given \in 0 .. given BY <1>0
      <4>2. \A i \in 0 .. given + 1 : i <= given => i \in 0 .. given BY <1>0
      <4> QED BY <4>1, <4>2, <1>0, <1>1
    <3> QED BY <3>1, <1>u
  <2>2. ends'[accepted'] = ends[accepted]
    BY <1>1, <1>u, Numbers
  <2> QED BY <2>1, <2>2, <1>0, <1>t, <1>u, SocketAssumption DEF TypeOK
<1>4. Stream'
  <2>1. \A i \in 1 .. given + 1 : ends'[i] - ends'[i - 1] \in Sizes
    <3> SUFFICES ASSUME NEW i \in 1 .. given + 1
                 PROVE  ends'[i] - ends'[i - 1] \in Sizes
      OBVIOUS
    <3>1. CASE i <= given
      <4>1. i \in 1 .. given /\ i \in 0 .. given /\ i - 1 \in 0 .. given
        BY <3>1, <1>0
      <4>2. ends[i] - ends[i - 1] \in Sizes
        BY <4>1, <1>t DEF Stream
      <4> QED BY <4>1, <4>2, <1>1
    <3>2. CASE i = given + 1
      <4>1. i - 1 = given /\ given \in 0 .. given
        BY <3>2, <1>0
      <4>2. ends'[i - 1] = ends[given] /\ ends[given] \in Nat
        BY <4>1, <1>1
      <4>3. ends'[i] - ends'[i - 1] = s
        BY <3>2, <4>2, <1>2, <1>0
      <4> QED BY <4>3
    <3> QED BY <3>1, <3>2, <1>0
  <2>2. \A i, j \in 0 .. given + 1 : i < j => ends'[i] < ends'[j]
    <3> SUFFICES ASSUME NEW i \in 0 .. given + 1, NEW j \in 0 .. given + 1, i < j
                 PROVE  ends'[i] < ends'[j]
      OBVIOUS
    <3>0. i \in 0 .. given
      BY <1>0
    <3>1. CASE j <= given
      <4>1. j \in 0 .. given
        BY <3>1, <1>0
      <4> QED BY <3>0, <4>1, <1>1, Numbers
    <3>2. CASE j = given + 1
      <4>1. ends'[i] = ends[i] /\ ends'[j] = ends[given] + s
        BY <3>0, <3>2, <1>1, <1>2
      <4>2. ends[i] \in Nat /\ ends[given] \in Nat /\ ends[i] <= ends[given]
        <5>1. CASE i = given
          BY <5>1, <3>0, <1>1
        <5>2. CASE i < given
          <6>1. given \in 0 .. given BY <1>0
          <6>2. ends[i] < ends[given] BY <5>2, <6>1, <3>0, Numbers
          <6> QED BY <6>1, <6>2, <3>0, <1>1
        <5> QED BY <5>1, <5>2, <3>0, <1>0
      <4> QED BY <4>1, <4>2, <1>0
    <3> QED BY <3>1, <3>2, <1>0
  <2>3. ends'[0] = 0
    BY <1>0, <1>1, <1>t DEF Stream
  <2> QED BY <2>1, <2>2, <2>3, <1>u DEF Stream
<1>5. NoneSkipped' BY <1>t, <1>u DEF NoneSkipped
<1>6. Position'
  <2>1. \A i \in 0 .. accepted : ends'[i] = ends[i]
    BY <1>1, Numbers
  <2> DEFINE n == Len(delivered)
  <2>2. n \in 0 .. accepted /\ \A i \in 1 .. n : i \in 0 .. accepted /\ i - 1 \in 0 .. accepted
    BY Numbers
  <2>3. n < accepted => n + 1 \in 0 .. accepted
    BY <2>2, Numbers
  <2>4. /\ \A i \in 1 .. n : delivered[i] = <<ends'[i - 1], ends'[i]>>
        /\ pending = 0 => consumed = ends'[n]
        /\ pending # 0 => /\ n < accepted /\ start = ends'[n]
                          /\ consumed + pending = ends'[n + 1]
    BY <2>1, <2>2, <2>3, <1>t DEF Position
  <2> QED BY <2>2, <2>4, <1>u, Numbers DEF Position
<1>7. ReadOut' BY <1>t, <1>u DEF ReadOut
<1> QED BY <1>3, <1>4, <1>5, <1>6, <1>7 DEF IInv

LEMMA SendNextInv ==
  ASSUME IInv, SendNext PROVE IInv'
<1>t. TypeOK /\ Stream /\ NoneSkipped /\ Position /\ ReadOut BY DEF IInv
<1>u. /\ running = "Send" /\ popped < given
      /\ ends[popped + 1] - ends[popped] <= SndBuf - (ends[accepted] - acked)
      /\ popped' = popped + 1
      /\ accepted' = IF connected THEN popped + 1 ELSE accepted
      /\ UNCHANGED <<given, ends, acked, arrived, connected,
                     consumed, start, pending, delivered, running>>
  BY DEF SendNext, Fits, Available, tcp, receiver
<1>1. /\ popped \in 0 .. given /\ popped + 1 \in 0 .. given /\ accepted \in 0 .. given
      /\ ends[popped] \in Nat /\ ends[popped + 1] \in Nat /\ ends[accepted] \in Nat
      /\ SndBuf \in Nat
  <2>1. popped \in 0 .. given /\ popped + 1 \in 0 .. given /\ accepted \in 0 .. given
    BY <1>u, Numbers
  <2> QED BY <2>1, Numbers, SocketAssumption
<1>2. ends[popped] < ends[popped + 1]
  BY <1>1, Numbers
<1>3. accepted <= accepted' /\ accepted' \in 0 .. popped' /\ popped' \in 0 .. given
  BY <1>1, <1>u, Numbers
<1>4. TypeOK'
  <2>1. ends[accepted'] - acked <= SndBuf /\ arrived <= ends[accepted']
    <3>1. CASE connected
      <4>1. accepted = popped /\ accepted' = popped + 1
        BY <3>1, <1>t, <1>u DEF NoneSkipped
      <4>2. arrived <= ends[popped] /\ arrived \in Nat /\ acked \in Nat
        BY <4>1, Numbers
      <4> QED BY <4>1, <4>2, <1>1, <1>2, <1>u
    <3>2. CASE ~connected
      BY <3>2, <1>t, <1>u DEF TypeOK
    <3> QED BY <3>1, <3>2
  <2> QED BY <2>1, <1>3, <1>t, <1>u DEF TypeOK
<1>5. Stream' BY <1>t, <1>u DEF Stream
<1>6. NoneSkipped' BY <1>t, <1>u DEF NoneSkipped
<1>7. Position'
  <2>1. /\ Len(delivered) \in Nat /\ accepted \in Nat /\ accepted' \in Nat
        /\ Len(delivered) <= accepted
    BY <1>3, <1>u, Numbers
  <2>2. Len(delivered) <= accepted' /\ (Len(delivered) < accepted => Len(delivered) < accepted')
    BY <2>1, <1>3
  <2> QED BY <2>2, <1>t, <1>u DEF Position
<1>8. ReadOut' BY <1>t, <1>u DEF ReadOut
<1> QED BY <1>4, <1>5, <1>6, <1>7, <1>8 DEF IInv

\* Steps that change neither the stream nor what was read of it.
LEMMA TcpInv ==
  ASSUME IInv, SendReturns \/ Arrive \/ Acknowledge \/ Break
  PROVE  IInv'
<1>t. TypeOK /\ Stream /\ NoneSkipped /\ Position /\ ReadOut BY DEF IInv
<1>u. UNCHANGED <<given, ends, popped, accepted, consumed, start, pending, delivered>>
  BY DEF SendReturns, Arrive, Acknowledge, Break, sender, tcp, receiver
<1>n. /\ ends[accepted] \in Nat /\ acked \in Nat /\ arrived \in Nat /\ consumed \in Nat
      /\ acked <= arrived /\ arrived <= ends[accepted] /\ consumed <= arrived
      /\ arrived - consumed <= RcvBuf /\ ends[accepted] - acked <= SndBuf
      /\ SndBuf \in Nat /\ RcvBuf \in Nat
  <2>1. accepted \in 0 .. given BY Numbers
  <2> QED BY <2>1, <1>t, Numbers, SocketAssumption DEF TypeOK
<1>1. /\ acked' \in Nat /\ arrived' \in Nat /\ acked' <= arrived'
      /\ arrived' <= ends[accepted] /\ ends[accepted] - acked' <= SndBuf
      /\ consumed <= arrived' /\ arrived' - consumed <= RcvBuf
  <2>1. CASE SendReturns
    BY <2>1, <1>n DEF SendReturns, tcp
  <2>2. CASE Arrive
    BY <2>2, <1>n DEF Arrive
  <2>3. CASE Acknowledge
    BY <2>3, <1>n DEF Acknowledge
  <2>4. CASE Break
    BY <2>4, <1>n DEF Break
  <2> QED BY <2>1, <2>2, <2>3, <2>4
<1>2. /\ connected' \in BOOLEAN /\ (connected' => connected)
      /\ running' \in {"none", "Send", "Recv"}
  <2>0. connected \in BOOLEAN BY <1>t DEF TypeOK
  <2>1. CASE SendReturns BY <2>0, <2>1, Zenon DEF SendReturns, tcp
  <2>2. CASE Arrive BY <2>0, <2>2, Zenon DEF Arrive
  <2>3. CASE Acknowledge BY <2>0, <2>3, Zenon DEF Acknowledge
  <2>4. CASE Break BY <2>4, Zenon DEF Break, Idle
  <2> QED BY <2>1, <2>2, <2>3, <2>4
<1>3. TypeOK'
  <2>1. arrived' - consumed \in 0 .. RcvBuf
    <3>1. PICK k \in Nat : k = arrived'
      BY <1>1
    <3>2. k \in Nat /\ consumed \in Nat /\ RcvBuf \in Nat
      BY <1>n
    <3>3. consumed <= k /\ k - consumed <= RcvBuf
      BY <3>1, <1>1
    <3>4. k - consumed \in 0 .. RcvBuf
      BY ONLY <3>2, <3>3
    <3> QED BY <3>1, <3>4
  <2> QED BY <2>1, <1>1, <1>2, <1>u, <1>t DEF TypeOK
<1>4. Stream' BY <1>t, <1>u DEF Stream
<1>5. NoneSkipped' BY <1>2, <1>t, <1>u DEF NoneSkipped
<1>6. Position' BY <1>t, <1>u DEF Position
<1>7. ReadOut'
  BY <1>t DEF ReadOut, SendReturns, Arrive, Acknowledge, Break, Idle, tcp, receiver
<1> QED BY <1>3, <1>4, <1>5, <1>6, <1>7 DEF IInv

\* An iteration of Recv that has taken the header of the next message, or goes
\* on with it: need bytes of it are missing after position p.
LEMMA ReadRestInv ==
  ASSUME IInv, NEW p \in Nat, NEW need \in Nat,
         p <= arrived, consumed <= p, Len(delivered) < accepted,
         p + need = ends[Len(delivered) + 1],
         need < Word,
         ReadRest(ends[Len(delivered)], p, need),
         UNCHANGED <<sender, tcp, running>>, running = "Recv"
  PROVE  IInv'
<1> DEFINE n == Len(delivered)
           read == Min({need, arrived - p})
<1>t. TypeOK /\ Stream /\ NoneSkipped /\ Position /\ ReadOut BY DEF IInv
<1>0. /\ n \in Nat /\ n + 1 \in 1 .. given /\ n + 1 <= accepted
      /\ ends[n] \in Nat /\ ends[n + 1] \in Nat /\ arrived \in Nat
  <2>1. /\ given \in Nat /\ popped \in Nat /\ accepted \in Nat /\ arrived \in Nat
        /\ accepted <= popped /\ popped <= given /\ n \in Nat
    BY Numbers
  <2>2. n + 1 <= accepted
    BY <2>1
  <2>3. n \in 0 .. given /\ n + 1 \in 0 .. given /\ n + 1 \in 1 .. given
    BY <2>1, <2>2
  <2>4. \A i \in 0 .. given : ends[i] \in Nat
    BY Numbers
  <2>5. ends[n] \in Nat /\ ends[n + 1] \in Nat
    BY <2>3, <2>4
  <2> QED BY <2>1, <2>2, <2>3, <2>5
<1> USE DEF ReadRest, sender, tcp
<1>1. read \in 0 .. need /\ read <= arrived - p /\ (read # need => read = arrived - p)
  BY <1>0, MinOfTwo
<1>2. consumed' = p + read /\ pending' = need - read /\ start' = ends[n]
  OBVIOUS
<1>3. delivered' \in Seq(Nat \X Nat)
  <2>1. <<ends[n], p + read>> \in Nat \X Nat
    BY <1>0, <1>1
  <2>2. delivered \in Seq(Nat \X Nat)
    BY <1>t DEF TypeOK
  <2> QED BY <2>1, <2>2
<1>4. TypeOK'
  <2>1. arrived' - consumed' \in 0 .. RcvBuf
    <3>1. arrived - consumed <= RcvBuf /\ RcvBuf \in Nat /\ consumed \in Nat
      BY <1>t, SocketAssumption DEF TypeOK
    <3>2. arrived' - consumed' = arrived - (p + read)
      BY <1>2
    <3>3. read \in Nat /\ p \in Nat /\ consumed <= p + read /\ p + read <= arrived
      BY <3>1, <1>0, <1>1
    <3> HIDE DEF read
    <3> QED BY <3>1, <3>2, <3>3, <1>0
  <2>2. pending' \in 0 .. Word - 1 /\ consumed' \in Nat /\ start' \in Nat
    BY <1>0, <1>1, <1>2, SocketAssumption
  <2> QED BY <2>1, <2>2, <1>3, <1>t DEF TypeOK
<1>5. Stream' BY <1>t DEF Stream
<1>6. NoneSkipped' BY <1>t DEF NoneSkipped
<1>7. Position'
  <2>1. CASE read = need
    <3>1. delivered' = Append(delivered, <<ends[n], ends[n + 1]>>)
      BY <2>1, <1>0, <1>1
    <3>0. delivered \in Seq(Nat \X Nat) /\ <<ends[n], ends[n + 1]>> \in Nat \X Nat
      BY <1>0, <1>t DEF TypeOK
    <3> DEFINE e == <<ends[n], ends[n + 1]>>
    <3> HIDE DEF e
    <3>e. delivered' = Append(delivered, e) /\ e \in Nat \X Nat
      BY <3>0, <3>1 DEF e
    <3>2. Len(delivered') = n + 1
      BY <3>0, <3>e
    <3>3. \A i \in 1 .. n + 1 : delivered'[i] = <<ends[i - 1], ends[i]>>
      <4> SUFFICES ASSUME NEW i \in 1 .. n + 1
                   PROVE  delivered'[i] = <<ends[i - 1], ends[i]>>
        OBVIOUS
      <4>1. CASE i = n + 1
        <5>1. delivered'[n + 1] = e
          BY <3>0, <3>e
        <5>2. i - 1 = n
          BY <4>1, <1>0
        <5> QED BY <5>1, <5>2, <4>1 DEF e
      <4>2. CASE i <= n
        <5>1. i \in 1 .. n
          BY <4>2, <1>0
        <5>2. delivered'[i] = delivered[i]
          BY <5>1, <3>0, <3>e
        <5>3. delivered[i] = <<ends[i - 1], ends[i]>>
          BY <5>1, <1>t DEF Position
        <5> QED BY <5>2, <5>3
      <4>3. i = n + 1 \/ i <= n
        <5>1. n \in Nat BY <1>0
        <5> HIDE DEF n
        <5> QED BY <5>1
      <4> QED BY <4>1, <4>2, <4>3
    <3>4. pending' = 0 /\ consumed' = ends[n + 1]
      BY <2>1, <1>0, <1>1, <1>2
    <3> QED BY <3>2, <3>3, <3>4, <1>0 DEF Position
  <2>2. CASE read # need
    <3>1. delivered' = delivered
      BY <2>2
    <3>2. pending' # 0 /\ consumed' + pending' = ends[n + 1]
      BY <2>2, <1>0, <1>1, <1>2
    <3> QED BY <3>1, <3>2, <1>0, <1>2, <1>t DEF Position
  <2> QED BY <2>1, <2>2
<1>8. ReadOut' BY DEF ReadOut
<1> QED BY <1>4, <1>5, <1>6, <1>7, <1>8 DEF IInv

\* Where Recv looks for a header, the next message starts, and its length field
\* says its size.
LEMMA HeaderFound ==
  ASSUME IInv, SizesFit, pending = 0, arrived - consumed >= HeaderSize
  PROVE  LET n == Len(delivered) IN
         /\ n < accepted /\ consumed = ends[n]
         /\ ends[n + 1] - ends[n] \in Sizes
         /\ LengthsAt(consumed) = {ends[n + 1] - ends[n]}
<1> DEFINE n == Len(delivered)
<1> USE DEF IInv
<1>1. /\ n \in Nat /\ n <= accepted /\ accepted \in Nat /\ accepted <= given
      /\ given \in Nat /\ \A i \in 0 .. given : ends[i] \in Nat
      /\ arrived \in Nat /\ consumed \in Nat
  BY SocketAssumption DEF TypeOK, Position
<1>2. consumed = ends[n]
  BY DEF Position
<1>3. n < accepted
  <2> SUFFICES ASSUME n = accepted PROVE FALSE
    BY <1>1
  <2>1. arrived <= ends[n] BY DEF TypeOK
  <2> QED BY <2>1, <1>1, <1>2, SocketAssumption
<1>4. ends[n + 1] - ends[n] \in Sizes
  <2>1. n + 1 \in 1 .. given BY <1>1, <1>3
  <2>2. ends[n + 1] - ends[n + 1 - 1] \in Sizes BY <2>1 DEF Stream
  <2> QED BY <2>2, <1>1
<1>5. (ends[n + 1] - ends[n]) % LengthMod = ends[n + 1] - ends[n]
  <2>1. /\ ends[n + 1] - ends[n] \in Nat /\ ends[n + 1] - ends[n] < LengthMod
        /\ LengthMod \in Nat \ {0}
    BY <1>4, SocketAssumption DEF SizesFit
  <2> QED BY <2>1
<1>6. {i \in 1 .. accepted : ends[i - 1] = consumed} = {n + 1}
  <2>1. n + 1 \in 1 .. accepted /\ ends[n + 1 - 1] = consumed
    BY <1>1, <1>2, <1>3
  <2>2. ASSUME NEW i \in 1 .. accepted, ends[i - 1] = ends[n] PROVE i = n + 1
    <3>1. i - 1 \in 0 .. given /\ n \in 0 .. given
      BY <1>1
    <3>2. ~(i - 1 < n) /\ ~(n < i - 1)
      BY <3>1, <2>2, <1>1 DEF Stream
    <3> QED BY <3>2, <1>1
  <2> QED BY <2>1, <2>2, <1>2
<1>7. LengthsAt(consumed) = {(ends[n + 1] - ends[n]) % LengthMod}
  BY <1>2, <1>6 DEF LengthsAt
<1> QED BY <1>2, <1>3, <1>4, <1>5, <1>7

LEMMA RecvInv ==
  ASSUME IInv, SizesFit, RecvNew \/ RecvMore \/ RecvReturns
  PROVE  IInv'
<1> DEFINE n == Len(delivered)
<1> USE DEF IInv
<1>0. /\ n \in Nat /\ n <= accepted /\ accepted \in Nat /\ accepted <= given
      /\ given \in Nat /\ \A i \in 0 .. given : ends[i] \in Nat
      /\ arrived \in Nat /\ consumed \in Nat /\ pending \in Nat /\ consumed <= arrived
  BY SocketAssumption, Numbers
<1>1. CASE RecvNew
  <2>1. n < accepted /\ consumed = ends[n] /\ ends[n + 1] - ends[n] \in Sizes
        /\ LengthsAt(consumed) = {ends[n + 1] - ends[n]}
    BY <1>1, HeaderFound DEF RecvNew
  <2> DEFINE need == ends[n + 1] - ends[n] - HeaderSize
  <2>2. need \in Nat /\ need < Word /\ need % Word = need
    <3> DEFINE size == ends[n + 1] - ends[n]
    <3>0. size \in Sizes BY <2>1
    <3> HIDE DEF size
    <3>1. /\ size \in Nat /\ HeaderSize <= size /\ size < Word
          /\ Word \in Nat \ {0} /\ HeaderSize \in Nat
      BY <3>0, SocketAssumption DEF SizesFit
    <3> USE DEF size
    <3>2. need \in Nat /\ need < Word
      BY <3>1
    <3> QED BY <3>1, <3>2
  <2>3. ReadRest(ends[n], consumed + HeaderSize, need)
    BY <1>1, <2>1, <2>2 DEF RecvNew, Rest
  <2>4. consumed + HeaderSize \in Nat /\ consumed <= consumed + HeaderSize
        /\ consumed + HeaderSize <= arrived /\ consumed + HeaderSize + need = ends[n + 1]
    <3>1. n \in 0 .. given /\ n + 1 \in 0 .. given
      BY <2>1, <1>0
    <3>2. ends[n] \in Nat /\ ends[n + 1] \in Nat
      BY <3>1, <1>0
    <3>3. consumed = ends[n] /\ arrived - consumed >= HeaderSize
      BY <1>1, <2>1 DEF RecvNew
    <3>4. HeaderSize \in Nat /\ arrived \in Nat
      BY <1>0, SocketAssumption
    <3> HIDE DEF IInv, n
    <3> QED BY <3>2, <3>3, <3>4
  <2> QED BY <1>1, <2>1, <2>2, <2>3, <2>4, ReadRestInv DEF RecvNew
<1>2. CASE RecvMore
  <2>1. n < accepted /\ start = ends[n] /\ consumed + pending = ends[n + 1]
    BY <1>2 DEF RecvMore, Position
  <2>2. pending < Word BY SocketAssumption DEF TypeOK
  <2>3. ReadRest(ends[n], consumed, pending)
    BY <1>2, <2>1 DEF RecvMore
  <2> QED BY <1>0, <1>2, <2>1, <2>2, <2>3, ReadRestInv DEF RecvMore
<1>3. CASE RecvReturns
  <2> USE <1>3 DEF RecvReturns, sender, tcp, receiver
  <2>1. TypeOK' BY DEF TypeOK
  <2>2. Stream' BY DEF Stream
  <2>3. NoneSkipped' BY DEF NoneSkipped
  <2>4. Position' BY DEF Position
  <2>5. ReadOut' BY <1>0, SocketAssumption DEF ReadOut, NothingToRead
  <2> QED BY <2>1, <2>2, <2>3, <2>4, <2>5
<1> QED BY <1>1, <1>2, <1>3

LEMMA Inductive == ASSUME SizesFit PROVE Spec => []IInv
<1>1. IInv /\ [Next]_vars => IInv'
  <2> SUFFICES ASSUME IInv, [Next]_vars PROVE IInv'
    OBVIOUS
  <2>1. ASSUME NEW s \in Sizes, SendMessage(s) PROVE IInv'
    BY <2>1, SendMessageInv
  <2>2. CASE SendNext BY <2>2, SendNextInv
  <2>3. CASE SendReturns \/ Arrive \/ Acknowledge \/ Break BY <2>3, TcpInv
  <2>4. CASE RecvNew \/ RecvMore \/ RecvReturns BY <2>4, RecvInv
  <2>5. CASE UNCHANGED vars
    BY <2>5 DEF vars, sender, tcp, receiver, IInv, TypeOK, Stream, NoneSkipped,
       Position, ReadOut
  <2> QED BY <2>1, <2>2, <2>3, <2>4, <2>5 DEF Next
<1> QED BY <1>1, InitInv, PTL DEF Spec

\* The books of both handlers stay well formed: the send buffer never overflows,
\* so no message is discarded for lack of room.
THEOREM TypeCorrect == ASSUME SizesFit PROVE Spec => []TypeOK
<1>1. IInv => TypeOK BY DEF IInv
<1> QED BY <1>1, Inductive, PTL

\* However TCP cuts the stream, between events each message that arrived whole
\* has been handed over.
THEOREM WholeMessagesLeave == ASSUME SizesFit PROVE Spec => []NothingWholeIsLeft
<1>1. IInv => NothingWholeIsLeft
  <2> SUFFICES ASSUME IInv, Idle, NEW i \in 1 .. accepted, ends[i] <= arrived,
                      i > Len(delivered)
               PROVE  FALSE
    BY DEF NothingWholeIsLeft, IInv, TypeOK
  <2> DEFINE n == Len(delivered)
  <2> USE DEF IInv
  <2>1. /\ n \in Nat /\ accepted \in Nat /\ accepted <= given /\ given \in Nat
        /\ \A k \in 0 .. given : ends[k] \in Nat
        /\ arrived \in Nat /\ consumed \in Nat /\ pending \in Nat
        /\ HeaderSize \in Nat
    BY Numbers, SocketAssumption
  <2>2. n + 1 \in 1 .. given /\ n + 1 <= i /\ i \in 0 .. given
    BY <2>1
  <2>3. ends[n + 1] <= ends[i]
    <3>1. CASE i = n + 1
      BY <3>1, <2>1, <2>2
    <3>2. CASE n + 1 < i
      <4>1. n + 1 \in 0 .. given
        BY <2>1, <2>2
      <4>2. ends[n + 1] < ends[i]
        BY <3>2, <4>1, <2>2, Numbers
      <4> QED BY <4>1, <4>2, <2>1, <2>2
    <3> QED BY <3>1, <3>2, <2>1, <2>2
  <2>4. ends[n + 1] - ends[n] \in Sizes
    <3>1. ends[n + 1] - ends[n + 1 - 1] \in Sizes BY <2>2 DEF Stream
    <3> QED BY <3>1, <2>1
  <2>5. CASE pending = 0
    <3>1. arrived - ends[n] < HeaderSize
      BY <2>5 DEF ReadOut, Idle, Position
    <3>2. ends[n + 1] \in Nat /\ ends[n] \in Nat /\ ends[i] \in Nat
      BY <2>1, <2>2
    <3>3. HeaderSize <= ends[n + 1] - ends[n]
      BY <2>4, SocketAssumption
    <3> QED BY <3>1, <3>2, <3>3, <2>1, <2>3
  <2>6. CASE pending # 0
    <3>1. arrived + pending = ends[n + 1]
      BY <2>6 DEF ReadOut, Idle, Position
    <3> QED BY <3>1, <2>1, <2>2, <2>3, <2>6
  <2> QED BY <2>5, <2>6
<1> QED BY <1>1, Inductive, PTL

\* Where messages are shorter than the length field can say and not larger than the
\* send buffer, those that were handed over are the first of those that were given,
\* whole and in order, however TCP cut the stream and whenever it broke.
THEOREM MessagesInOrder == ASSUME SizesFit PROVE Spec => InOrder
<1> DEFINE Given == [i \in 1 .. given |-> <<ends[i - 1], ends[i]>>]
<1>1. Init => Fifo!Init
  <2> SUFFICES ASSUME Init PROVE Fifo!Init
    OBVIOUS
  <2>1. Given = << >>
    BY DEF Init
  <2> QED BY <2>1 DEF Init, Fifo!Init
<1>2. IInv /\ [Next]_vars => [Fifo!Next]_Fifo!messages
  <2> SUFFICES ASSUME IInv, [Next]_vars
               PROVE  Fifo!Next \/ UNCHANGED <<Given, delivered, connected>>
    BY DEF Fifo!messages
  <2>t. TypeOK /\ Stream /\ Position BY DEF IInv
  <2>1. ASSUME NEW s \in Sizes, SendMessage(s) PROVE Fifo!Give
    <3>1. /\ given' = given + 1 /\ given \in Nat
          /\ ends' = [i \in 0 .. given + 1 |-> IF i <= given THEN ends[i] ELSE ends[given] + s]
          /\ delivered' = delivered /\ connected' = connected
      BY <2>1, Numbers DEF SendMessage, tcp, receiver
    <3>2. \A i \in 0 .. given : ends'[i] = ends[i]
      BY <3>1
    <3> DEFINE m == <<ends'[given], ends'[given + 1]>>
    <3>3. Given' = Append(Given, m)
      <4>1. Given' = [i \in 1 .. given + 1 |-> <<ends'[i - 1], ends'[i]>>]
        BY <3>1
      <4>2. \A i \in 1 .. given : Given[i] = <<ends'[i - 1], ends'[i]>>
        <5>1. \A i \in 1 .. given : i \in 0 .. given /\ i - 1 \in 0 .. given
          BY <3>1
        <5> QED BY <5>1, <3>2
      <4> QED BY <4>1, <4>2, <3>1
    <3>4. m \in {Given'[i] : i \in DOMAIN Given'}
      BY <3>1
    <3> QED BY <3>1, <3>3, <3>4 DEF Fifo!Give
  <2>2. ASSUME given' = given, ends' = ends PROVE Given' = Given
    BY <2>2
  <2>3. CASE SendNext
    BY <2>2, <2>3 DEF SendNext, tcp, receiver
  <2>4. CASE SendReturns \/ Arrive \/ Acknowledge
    BY <2>2, <2>4 DEF SendReturns, Arrive, Acknowledge, sender, tcp, receiver
  <2>5. CASE Break
    BY <2>2, <2>5 DEF Break, sender, receiver, Fifo!Break, Fifo!Next
  <2>6. CASE RecvNew \/ RecvMore \/ RecvReturns
    <3>1. given' = given /\ ends' = ends /\ connected' = connected
      BY <2>6 DEF RecvNew, RecvMore, RecvReturns, sender, tcp
    <3>2. IInv' BY <2>6, RecvInv
    <3>3. \/ delivered' = delivered
          \/ \E e : delivered' = Append(delivered, e)
      BY <2>6 DEF RecvNew, RecvMore, RecvReturns, ReadRest, receiver
    <3>4. ASSUME NEW e, delivered' = Append(delivered, e) PROVE Fifo!HandOver
      <4> DEFINE n == Len(delivered)
      <4>1. n \in Nat /\ delivered \in Seq(Nat \X Nat) /\ delivered' \in Seq(Nat \X Nat)
        BY <3>2, <2>t DEF IInv, TypeOK
      <4>2. Len(delivered') = n + 1 /\ delivered'[n + 1] = e
        BY <4>1, <3>4
      <4>3. n + 1 \in 1 .. given /\ e = <<ends[n], ends[n + 1]>>
        <5>1. Len(delivered') <= accepted' /\ accepted' <= given' /\ accepted' \in Nat
          BY <3>2 DEF IInv, Position, TypeOK
        <5>2. n + 1 \in 1 .. Len(delivered') /\ given \in Nat
          BY <4>1, <4>2, Numbers
        <5>3. delivered'[n + 1] = <<ends'[n + 1 - 1], ends'[n + 1]>>
          BY <5>2, <3>2 DEF IInv, Position
        <5>4. n + 1 - 1 = n BY <4>1
        <5> QED BY <5>1, <5>2, <5>3, <5>4, <4>1, <4>2, <3>1
      <4>4. Len(Given) = given /\ Given[n + 1] = e /\ n < given
        <5>1. n + 1 - 1 = n /\ n < given /\ given \in Nat BY <4>1, <4>3, Numbers
        <5> QED BY <5>1, <4>3
      <4>5. Given' = Given BY <3>1
      <4> QED BY <4>4, <4>5, <3>1, <3>4 DEF Fifo!HandOver
    <3> QED BY <3>1, <3>3, <3>4, <2>2 DEF Fifo!Next
  <2>7. CASE UNCHANGED vars
    BY <2>2, <2>7 DEF vars, sender, tcp, receiver
  <2> QED BY <2>1, <2>3, <2>4, <2>5, <2>6, <2>7 DEF Next, Fifo!Next
<1> QED BY <1>1, <1>2, Inductive, PTL DEF Spec, InOrder, Fifo!Spec
==============================================================================
