------------------------------- MODULE Framing -------------------------------
(***************************************************************************)
(* One direction of a connection at the level of bytes: frames written to  *)
(* a non-blocking socket, read back in chunks that know nothing of frames, *)
(* and cut into packets again.  Both directions use the same format and    *)
(* the same loop to take it apart; they differ in what the sender does     *)
(* when a write fails half way, so it is chosen at the start who sends:    *)
(* the TestBot, which gives up, or the server, which carries on.           *)
(*                                                                         *)
(* Bytes are digits to a base that is 256 in the code, and the length      *)
(* prefix is four of them; a packet is its serialized bytes.               *)
(***************************************************************************)
EXTENDS Integers, Sequences

CONSTANTS
  Base,             \* values of a byte
  Payloads,         \* serialized packets that are sent
  MAX_PACKET_SIZE,  \* what a receiver accepts; a sender does not look at it
  BufferSize,       \* most that one read brings
  MaxWrites         \* bound: how many packets are written, or tried to be

Byte == 0 .. (Base - 1)

\* sizeof(uint32_t).
HeaderLen == 4

ASSUME FramingAssumption ==
  /\ Base \in Nat \ {0, 1}
  /\ Payloads \subseteq Seq(Byte) \ {<<>>}
  /\ \A p \in Payloads : Len(p) < Base * Base * Base * Base
  /\ MAX_PACKET_SIZE \in Nat
  /\ BufferSize \in Nat \ {0}
  /\ MaxWrites \in Nat

VARIABLES
  sender,      \* who writes: "bot" or "server"
  connected,   \* TestBot::connected_ of a bot that writes; the server has no such flag
  wire,        \* bytes in the socket buffers
  recvBuffer,  \* recvBuffer_ of the receiver
  parsing,     \* the receiver is in the loop that takes recvBuffer_ apart
  closed,      \* the receiver gave up: disconnected_ or ~connected_
  writes,      \* how many packets were written, or tried to be
  sent,        \* history: packets whose write succeeded
  torn,        \* history: a write failed
  large,       \* history: a packet that is too large was written, if in part
  delivered    \* packets handed to handlePacket

vars == <<sender, connected, wire, recvBuffer, parsing, closed, writes, sent, torn, large, delivered>>

Init ==
  /\ sender \in {"bot", "server"}
  /\ connected = TRUE
  /\ wire = <<>>
  /\ recvBuffer = <<>>
  /\ parsing = FALSE
  /\ closed = FALSE
  /\ writes = 0
  /\ sent = <<>>
  /\ torn = FALSE
  /\ large = FALSE
  /\ delivered = <<>>

\* native_to_big: the most significant byte first.
Header(n) ==
  << (((n \div Base) \div Base) \div Base) % Base,
     ((n \div Base) \div Base) % Base, (n \div Base) % Base, n % Base >>

\* Faulty: read in the host's order.
ValueLittle(h) == ((h[4] * Base + h[3]) * Base + h[2]) * Base + h[1]

\* big_to_native.
Value(h) == ((h[1] * Base + h[2]) * Base + h[3]) * Base + h[4]

Frame(p) == Header(Len(p)) \o p

\* ParseFromArray, of any bytes at all; no bytes are a packet without a type.
Parses(p) == p \in Payloads \/ p = <<>>

-----------------------------------------------------------------------------
(* The sender. *)

SendPacket(p) ==
  /\ connected
  /\ writes < MaxWrites
  /\ writes' = writes + 1
  /\ wire' = wire \o Frame(p)
  /\ sent' = Append(sent, p)
  /\ large' = (large \/ Len(p) > MAX_PACKET_SIZE)
  /\ UNCHANGED <<sender, connected, recvBuffer, parsing, closed, torn, delivered>>

\* Faulty: the bot carries on as well.
SendFailsUnnoticed(p) ==
  /\ connected
  /\ writes < MaxWrites
  /\ writes' = writes + 1
  /\ \E n \in 0 .. (Len(Frame(p)) - 1) : wire' = wire \o SubSeq(Frame(p), 1, n)
  /\ torn' = TRUE
  /\ large' = (large \/ Len(p) > MAX_PACKET_SIZE)
  /\ UNCHANGED <<sender, connected, recvBuffer, parsing, closed, sent, delivered>>

\* The socket's buffer has no room for all of the frame.  The bot gives up the
\* connection; the server's callers do not look at the result.
SendFails(p) ==
  /\ connected
  /\ writes < MaxWrites
  /\ writes' = writes + 1
  /\ \E n \in 0 .. (Len(Frame(p)) - 1) : wire' = wire \o SubSeq(Frame(p), 1, n)
  /\ torn' = TRUE
  /\ large' = (large \/ Len(p) > MAX_PACKET_SIZE)
  /\ connected' = (sender # "bot")
  /\ UNCHANGED <<sender, recvBuffer, parsing, closed, sent, delivered>>

-----------------------------------------------------------------------------
(* The receiver. *)

Receive ==
  /\ ~closed
  /\ ~parsing
  /\ \E n \in 1 .. BufferSize :
       /\ n <= Len(wire)
       /\ recvBuffer' = recvBuffer \o SubSeq(wire, 1, n)
       /\ wire' = SubSeq(wire, n + 1, Len(wire))
  /\ parsing' = TRUE
  /\ UNCHANGED <<sender, connected, closed, writes, sent, torn, large, delivered>>

packetLen == Value(SubSeq(recvBuffer, 1, HeaderLen))

TooLarge == Len(recvBuffer) >= HeaderLen /\ packetLen > MAX_PACKET_SIZE

\* Faulty: waits for one byte more.
CompleteTooLate ==
  Len(recvBuffer) >= HeaderLen /\ ~TooLarge /\ Len(recvBuffer) > HeaderLen + packetLen

Complete ==
  Len(recvBuffer) >= HeaderLen /\ ~TooLarge /\ Len(recvBuffer) >= HeaderLen + packetLen

\* The loop meets a length it does not accept.
GiveUp ==
  /\ parsing
  /\ TooLarge
  /\ closed' = TRUE
  /\ parsing' = FALSE
  /\ UNCHANGED <<sender, connected, wire, recvBuffer, writes, sent, torn, large, delivered>>

\* Faulty: one packet for each read.
TakePacketOnce ==
  /\ parsing
  /\ Complete
  /\ LET p == SubSeq(recvBuffer, HeaderLen + 1, HeaderLen + packetLen)
     IN  delivered' = IF Parses(p) THEN Append(delivered, p) ELSE delivered
  /\ recvBuffer' = SubSeq(recvBuffer, HeaderLen + packetLen + 1, Len(recvBuffer))
  /\ parsing' = FALSE
  /\ UNCHANGED <<sender, connected, wire, closed, writes, sent, torn, large>>

\* One round of the loop: a packet that does not parse is dropped.
TakePacket ==
  /\ parsing
  /\ Complete
  /\ LET p == SubSeq(recvBuffer, HeaderLen + 1, HeaderLen + packetLen)
     IN  delivered' = IF Parses(p) THEN Append(delivered, p) ELSE delivered
  /\ recvBuffer' = SubSeq(recvBuffer, HeaderLen + packetLen + 1, Len(recvBuffer))
  /\ UNCHANGED <<sender, connected, wire, parsing, closed, writes, sent, torn, large>>

\* Wait for more data.
StopParsing ==
  /\ parsing
  /\ ~TooLarge
  /\ ~Complete
  /\ parsing' = FALSE
  /\ UNCHANGED <<sender, connected, wire, recvBuffer, closed, writes, sent, torn, large, delivered>>

ReceiverStep == Receive \/ GiveUp \/ TakePacket \/ StopParsing

Next == ReceiverStep \/ \E p \in Payloads : SendPacket(p) \/ SendFails(p)

Spec == Init /\ [][Next]_vars

-----------------------------------------------------------------------------
(* Properties. *)

\* The writes that succeeded are the stream: nothing was torn, or the sender
\* stopped there.
Whole == ~torn \/ sender = "bot"

\* However the stream is cut into reads, what comes out of a whole stream is what
\* was sent, in order, and nothing else.
DeliveredInOrder ==
  Whole => Len(delivered) <= Len(sent) /\ delivered = SubSeq(sent, 1, Len(delivered))

\* Between two reads no complete packet waits, and never more than the largest
\* packet, even of a stream that is torn.
NothingStuck ==
  ~parsing /\ ~closed =>
    /\ ~Complete
    /\ Len(recvBuffer) < HeaderLen + MAX_PACKET_SIZE

\* A receiver gives up a whole stream only for a packet that is too large.
GivesUpForCause == closed /\ Whole => large

\* However it is cut, and whoever sends, what the two ends see of the stream is a
\* channel that hands over whole packets; only a server's failed write breaks it.
Promise == INSTANCE Channel WITH open <- ~closed, broken <- ~Whole

ChannelKept == Promise!Spec
=============================================================================
