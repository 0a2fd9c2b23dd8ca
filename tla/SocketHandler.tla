---------------------------- MODULE SocketHandler ----------------------------
(***************************************************************************)
(* OFSwitch13SocketHandler: OpenFlow messages over a TCP socket, from the   *)
(* handler at one end to the one at the other end.  The two directions of  *)
(* a connection share no state, so this is one of them.                    *)
(*                                                                         *)
(* TCP is a stream of bytes in order, which the socket keeps in a send     *)
(* buffer until they are acknowledged and hands over in pieces of any      *)
(* size.  A byte is its position in the stream: message i occupies the     *)
(* positions after ends[i - 1] up to ends[i].  Each handler call runs to   *)
(* its end before the next event.                                          *)
(***************************************************************************)
EXTENDS Integers, Sequences, FiniteSetsExt

CONSTANTS
  Sizes,         \* sizes of messages, with their header
  HeaderSize,    \* ofpHeaderSize, 8 bytes
  LengthMod,     \* the length field of the header has 16 bits
  Word,          \* m_pendingBytes has 32 bits
  SndBuf,        \* size of the socket's send buffer
  RcvBuf,        \* size of the socket's receive buffer
  MaxMessages    \* bound: messages given

ASSUME SocketAssumption ==
  /\ HeaderSize \in Nat \ {0} /\ LengthMod \in Nat \ {0} /\ Word \in Nat \ {0}
  /\ LengthMod <= Word
  /\ SndBuf \in Nat /\ RcvBuf \in Nat /\ MaxMessages \in Nat
  /\ Sizes \subseteq Nat /\ \A s \in Sizes : HeaderSize <= s

VARIABLES
  given,       \* messages given to SendMessage
  ends,        \* where each of them ends in the stream; 0 before the first
  popped,      \* messages that left m_txQueue: it holds popped + 1 .. given
  accepted,    \* messages that the socket took; the others were discarded
  acked,       \* bytes acknowledged: the send buffer holds those after
  arrived,     \* bytes in the other socket, in order
  consumed,    \* bytes the receiving handler read
  start,       \* where m_pendingPacket starts
  pending,     \* m_pendingBytes
  delivered,   \* stretches of the stream given to m_receivedMsg, <<from, to>>
  connected,   \* the sender's socket accepts bytes
  running      \* the handler call that runs: none, Send or Recv

sender == <<given, ends, popped, accepted>>
tcp == <<acked, arrived, connected>>
receiver == <<consumed, start, pending, delivered>>
vars == <<sender, tcp, receiver, running>>

TypeOK ==
  /\ given \in 0 .. MaxMessages /\ ends \in [0 .. given -> Nat]
  /\ popped \in 0 .. given /\ accepted \in 0 .. popped
  /\ acked \in Nat /\ arrived \in Nat /\ consumed \in Nat /\ start \in Nat
  /\ pending \in 0 .. Word - 1
  /\ delivered \in Seq(Nat \X Nat)
  /\ connected \in BOOLEAN /\ running \in {"none", "Send", "Recv"}
  \* The buffers hold what was not acknowledged and not read.
  /\ acked <= arrived /\ arrived <= ends[accepted]
  /\ ends[accepted] - acked <= SndBuf /\ arrived - consumed \in 0 .. RcvBuf

Init ==
  /\ given = 0 /\ ends = [i \in 0 .. 0 |-> 0] /\ popped = 0 /\ accepted = 0
  /\ acked = 0 /\ arrived = 0 /\ connected = TRUE
  /\ consumed = 0 /\ start = 0 /\ pending = 0 /\ delivered = << >>
  /\ running = "none"

Idle == running = "none"

(* The sending handler *)

\* GetTxAvailable.
Available == SndBuf - (ends[accepted] - acked)

SendMessage(s) ==
  /\ Idle /\ given < MaxMessages
  /\ given' = given + 1
  /\ ends' = [i \in 0 .. given + 1 |-> IF i <= given THEN ends[i] ELSE ends[given] + s]
  /\ running' = "Send"
  /\ UNCHANGED <<popped, accepted, tcp, receiver>>

\* Mutants: any message; one that fills the send buffer waits.
Fits_Any == popped < given

Fits_Below == popped < given /\ ends[popped + 1] - ends[popped] < Available

Fits == popped < given /\ ends[popped + 1] - ends[popped] <= Available

\* An iteration of Send; a socket without connection takes nothing (-1).
SendNext ==
  /\ running = "Send" /\ Fits
  /\ popped' = popped + 1
  /\ accepted' = IF connected THEN popped + 1 ELSE accepted
  /\ UNCHANGED <<given, ends, tcp, receiver, running>>

SendReturns ==
  /\ running = "Send" /\ ~Fits
  /\ running' = "none"
  /\ UNCHANGED <<sender, tcp, receiver>>

(* TCP *)

\* NotifyDataRecv calls Recv.
Arrive ==
  /\ Idle /\ connected
  /\ \E to \in arrived + 1 .. ends[accepted] :
       /\ to - consumed <= RcvBuf
       /\ arrived' = to
  /\ running' = "Recv"
  /\ UNCHANGED <<sender, acked, connected, receiver>>

\* NewAck calls Send (NotifySend).
Acknowledge ==
  /\ Idle /\ connected
  /\ \E to \in acked + 1 .. arrived : acked' = to
  /\ running' = "Send"
  /\ UNCHANGED <<sender, arrived, connected, receiver>>

\* TCP gives up after too many retransmissions.
Break ==
  /\ Idle /\ connected
  /\ connected' = FALSE
  /\ UNCHANGED <<sender, acked, arrived, receiver, running>>

(* The receiving handler *)

\* What the length field at a position of the stream says: the size of the
\* message that starts there, in its 16 bits; anything if none starts there.
LengthsAt(p) ==
  LET here == {i \in 1 .. accepted : ends[i - 1] = p} IN
  IF here = {} THEN 0 .. LengthMod - 1
  ELSE {(ends[i] - p) % LengthMod : i \in here}

\* m_pendingBytes after the header was read.
Rest(len) == (len - HeaderSize) % Word

\* The rest of an iteration of Recv, for a message that begins at s of which
\* need bytes are missing after position p.
ReadRest(s, p, need) ==
  LET read == Min({need, arrived - p}) IN
  /\ consumed' = p + read
  /\ pending' = need - read
  /\ start' = s
  /\ delivered' = IF need = read THEN Append(delivered, <<s, p + read>>) ELSE delivered

RecvNew ==
  /\ running = "Recv" /\ pending = 0 /\ arrived - consumed >= HeaderSize
  /\ \E len \in LengthsAt(consumed) :
       ReadRest(consumed, consumed + HeaderSize, Rest(len))
  /\ UNCHANGED <<sender, tcp, running>>

RecvMore ==
  /\ running = "Recv" /\ pending # 0 /\ consumed < arrived
  /\ ReadRest(start, consumed, pending)
  /\ UNCHANGED <<sender, tcp, running>>

\* Mutant: Recv reads one message per call.
NothingToRead_OneMessage ==
  \/ consumed = arrived
  \/ pending = 0

\* Nothing is left, or less than a header.
NothingToRead ==
  \/ consumed = arrived
  \/ pending = 0 /\ arrived - consumed < HeaderSize

RecvReturns ==
  /\ running = "Recv" /\ NothingToRead
  /\ running' = "none"
  /\ UNCHANGED <<sender, tcp, receiver>>

Next ==
  \/ \E s \in Sizes : SendMessage(s)
  \/ SendNext \/ SendReturns
  \/ Arrive \/ Acknowledge \/ Break
  \/ RecvNew \/ RecvMore \/ RecvReturns

Spec == Init /\ [][Next]_vars

\* Handlers run to their end; TCP delivers and acknowledges while it is
\* connected.  Nobody has to send.
FairSpec ==
  /\ Spec
  /\ WF_vars(SendNext) /\ WF_vars(SendReturns)
  /\ WF_vars(Arrive) /\ WF_vars(Acknowledge)
  /\ WF_vars(RecvNew) /\ WF_vars(RecvMore) /\ WF_vars(RecvReturns)
------------------------------------------------------------------------------
(* Properties *)

\* The socket tells of bytes once, so what Recv leaves behind waits for others
\* to come: between events every message that arrived whole has been handed
\* over, however TCP cut the stream.
NothingWholeIsLeft ==
  Idle => \A i \in 1 .. accepted : ends[i] <= arrived => i <= Len(delivered)

\* The framing keeps the promise of MessageFifo, also that of delivery: no
\* message waits for ever in m_txQueue or in a receive buffer.
Fifo == INSTANCE MessageFifo WITH
          given <- [i \in 1 .. given |-> <<ends[i - 1], ends[i]>>],
          got <- delivered,
          up <- connected

FifoSpec == Fifo!FairSpec

\* What FifoSpec needs: the length field holds every size, and the send buffer
\* every message.
SizesFit == \A s \in Sizes : s < LengthMod /\ s <= SndBuf

\* The safety part of FifoSpec.
InOrder == Fifo!Spec
==============================================================================
