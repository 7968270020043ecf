---------------------------- MODULE FramingProofs ----------------------------
(***************************************************************************)
(* Proofs about Framing: for bytes to any base, packets of any number and  *)
(* size the prefix can say, and reads and torn writes of any length.       *)
(***************************************************************************)
EXTENDS Framing, SequenceTheorems, TLAPS

-----------------------------------------------------------------------------
(* The length prefix. *)

\* Division by the base.
LEMMA DivMod ==
  ASSUME NEW n \in Nat
  PROVE  /\ n \div Base \in Nat
         /\ (n % Base) \in Byte
         /\ (n \div Base) * Base + (n % Base) = n
<1> DEFINE q == n \div Base
<1>0. Base \in Nat /\ Base > 0
  BY FramingAssumption
<1>1. q \in Nat /\ Base * q <= n /\ n < Base * q + Base
  BY <1>0
<1> HIDE DEF q
<1>2. PICK r \in Nat : r < Base /\ n = Base * q + r
  <2>1. Base * q \in Nat
    BY <1>0, <1>1
  <2>2. n - Base * q \in Nat
    BY <1>1, <2>1
  <2> QED
    BY <1>0, <1>1, <2>1, <2>2
<1>3. (n % Base) = r
  <2>1. \A u, v, b \in Nat : v < b => (b * u + v) % b = v
    OBVIOUS
  <2> QED
    BY <1>0, <1>1, <1>2, <2>1
<1>4. (n % Base) \in Byte /\ q * Base + (n % Base) = n
  <2>1. Base * q = q * Base
    BY <1>0, <1>1
  <2> QED
    BY <1>0, <1>2, <1>3, <2>1 DEF Byte
<1> QED
  BY <1>1, <1>4 DEF q

\* A quotient is small if the number is.
LEMMA DivLess ==
  ASSUME NEW n \in Nat, NEW m \in Nat, n < m * Base
  PROVE  n \div Base < m
<1>1. Base \in Nat /\ Base > 0
  BY FramingAssumption
<1> QED
  BY <1>1, DivMod, SMTT(30) DEF Byte

\* Whatever length is written before a packet is the length that is read.
LEMMA RoundTrip ==
  ASSUME NEW n \in Nat, n < Base * Base * Base * Base
  PROVE  Value(Header(n)) = n
<1> DEFINE a == n \div Base
           b == a \div Base
           c == b \div Base
<1>0. Base \in Nat /\ Base > 0 /\ Base * Base \in Nat /\ Base * Base * Base \in Nat
  BY FramingAssumption
<1>1. a \in Nat /\ a * Base + (n % Base) = n /\ a < Base * Base * Base
  BY <1>0, DivMod, DivLess
<1>2. b \in Nat /\ b * Base + (a % Base) = a /\ b < Base * Base
  <2> HIDE DEF a
  <2> QED
    BY <1>0, <1>1, DivMod, DivLess
<1>3. c \in Nat /\ c * Base + (b % Base) = b /\ c < Base
  <2> HIDE DEF b
  <2> QED
    BY <1>0, <1>2, DivMod, DivLess
<1>4. (c % Base) = c
  <2> HIDE DEF c
  <2> QED
    BY <1>0, <1>3
<1> DEFINE h == Header(n)
<1>5. h = <<(c % Base), (b % Base), (a % Base), (n % Base)>>
  BY DEF Header
<1> HIDE DEF a, b, c, h
<1>6. h[1] = c /\ h[2] = (b % Base) /\ h[3] = (a % Base) /\ h[4] = (n % Base)
  BY <1>4, <1>5
<1>7. Value(h) = ((c * Base + (b % Base)) * Base + (a % Base)) * Base + (n % Base)
  BY <1>6 DEF Value
<1> QED
  BY <1>1, <1>2, <1>3, <1>7 DEF h

-----------------------------------------------------------------------------
(* Types. *)

\* The type invariant.
Typed ==
  /\ sender \in {"bot", "server"}
  /\ connected \in BOOLEAN
  /\ wire \in Seq(Byte)
  /\ recvBuffer \in Seq(Byte)
  /\ parsing \in BOOLEAN
  /\ closed \in BOOLEAN
  /\ sent \in Seq(Payloads)
  /\ torn \in BOOLEAN
  /\ large \in BOOLEAN
  /\ delivered \in Seq(Payloads \cup {<<>>})

\* A frame is four bytes and the packet.
LEMMA FrameShape ==
  ASSUME NEW p \in Payloads
  PROVE  /\ p \in Seq(Byte)
         /\ Len(p) \in Nat \ {0}
         /\ Header(Len(p)) \in Seq(Byte)
         /\ Len(Header(Len(p))) = HeaderLen
         /\ Frame(p) \in Seq(Byte)
         /\ Len(Frame(p)) = HeaderLen + Len(p)
         /\ \A j \in 1 .. HeaderLen : Frame(p)[j] = Header(Len(p))[j]
         /\ \A j \in 1 .. Len(p) : Frame(p)[HeaderLen + j] = p[j]
<1>1. p \in Seq(Byte) /\ Len(p) \in Nat \ {0}
  BY FramingAssumption
<1>2. Header(Len(p)) \in Seq(Byte) /\ Len(Header(Len(p))) = 4
  <2> DEFINE a == Len(p) \div Base
             b == a \div Base
             c == b \div Base
  <2>1. a \in Nat /\ (Len(p) % Base) \in Byte
    BY <1>1, DivMod
  <2>2. b \in Nat /\ (a % Base) \in Byte
    BY <2>1, DivMod
  <2>3. c \in Nat /\ (b % Base) \in Byte
    BY <2>2, DivMod
  <2>4. (c % Base) \in Byte
    BY <2>3, DivMod
  <2>5. Header(Len(p)) = <<c % Base, b % Base, a % Base, Len(p) % Base>>
    BY DEF Header
  <2> HIDE DEF a, b, c
  <2> QED
    BY <2>1, <2>2, <2>3, <2>4, <2>5
<1> DEFINE h == Header(Len(p))
<1>3. /\ h \o p \in Seq(Byte)
      /\ Len(h \o p) = 4 + Len(p)
      /\ \A i \in 1 .. 4 + Len(p) : (h \o p)[i] = IF i <= 4 THEN h[i] ELSE p[i - 4]
  <2>1. h \in Seq(Byte) /\ Len(h) = 4
    BY <1>2
  <2> HIDE DEF h
  <2>2. /\ h \o p \in Seq(Byte)
        /\ Len(h \o p) = Len(h) + Len(p)
        /\ \A i \in 1 .. Len(h) + Len(p) : (h \o p)[i] = IF i <= Len(h) THEN h[i] ELSE p[i - Len(h)]
    BY <1>1, <2>1, ConcatProperties
  <2> QED
    BY <2>1, <2>2
<1>4. Frame(p) = h \o p
  BY DEF Frame
<1> HIDE DEF h
<1>5. /\ \A j \in 1 .. 4 : Frame(p)[j] = h[j]
      /\ \A j \in 1 .. Len(p) : Frame(p)[4 + j] = p[j]
  BY <1>1, <1>3, <1>4
<1> QED
  BY <1>1, <1>2, <1>3, <1>4, <1>5 DEF HeaderLen, h

LEMMA TypedInit == Init => Typed
<1>1. \A T : <<>> \in Seq(T)
  OBVIOUS
<1> QED
  BY <1>1 DEF Init, Typed

\* A sequence cut in two.
LEMMA Cut ==
  ASSUME NEW T, NEW s \in Seq(T), NEW n \in 0 .. Len(s)
  PROVE  /\ SubSeq(s, 1, n) \in Seq(T)
         /\ Len(SubSeq(s, 1, n)) = n
         /\ \A i \in 1 .. n : SubSeq(s, 1, n)[i] = s[i]
         /\ SubSeq(s, n + 1, Len(s)) \in Seq(T)
         /\ Len(SubSeq(s, n + 1, Len(s))) = Len(s) - n
         /\ \A i \in 1 .. (Len(s) - n) : SubSeq(s, n + 1, Len(s))[i] = s[n + i]
         /\ SubSeq(s, 1, n) \o SubSeq(s, n + 1, Len(s)) = s
<1>1. n \in Int /\ n + 1 \in Int /\ Len(s) \in Nat /\ \A i \in 1 .. Len(s) : s[i] \in T
  OBVIOUS
<1>2. SubSeq(s, 1, n) \in Seq(T) /\ Len(SubSeq(s, 1, n)) = n /\ \A i \in 1 .. n : SubSeq(s, 1, n)[i] = s[i]
  <2>1. \A i \in 1 .. n : s[i] \in T
    BY <1>1
  <2> QED
    BY <1>1, <2>1, SubSeqProperties
<1>3. /\ SubSeq(s, n + 1, Len(s)) \in Seq(T)
      /\ Len(SubSeq(s, n + 1, Len(s))) = Len(s) - n
      /\ \A i \in 1 .. (Len(s) - n) : SubSeq(s, n + 1, Len(s))[i] = s[n + i]
  <2>1. \A i \in (n + 1) .. Len(s) : s[i] \in T
    BY <1>1
  <2> QED
    BY <1>1, <2>1, SubSeqProperties
<1>4. SubSeq(s, 1, n) \o SubSeq(s, n + 1, Len(s)) = s
  <2>1. 1 \in 1 .. (Len(s) + 1) /\ n \in (1 - 1) .. Len(s) /\ Len(s) \in n .. Len(s)
    BY <1>1
  <2>2. SubSeq(s, 1, n) \o SubSeq(s, n + 1, Len(s)) = SubSeq(s, 1, Len(s))
    BY <2>1, ConcatAdjacentSubSeq
  <2> QED
    BY <2>2, SubSeqFull
<1> QED
  BY <1>2, <1>3, <1>4

\* What is read as a length is a natural number.
LEMMA PacketLenType ==
  ASSUME Typed, Len(recvBuffer) >= HeaderLen
  PROVE  /\ packetLen \in Nat
         /\ \A j \in 1 .. HeaderLen : SubSeq(recvBuffer, 1, HeaderLen)[j] = recvBuffer[j]
<1> DEFINE h == SubSeq(recvBuffer, 1, 4)
<1>1. h \in Seq(Byte) /\ Len(h) = 4 /\ \A j \in 1 .. 4 : h[j] = recvBuffer[j]
  BY Cut DEF Typed, HeaderLen
<1> HIDE DEF h
<1>2. Base \in Nat /\ h[1] \in Nat /\ h[2] \in Nat /\ h[3] \in Nat /\ h[4] \in Nat
  <2>1. h[1] \in Byte /\ h[2] \in Byte /\ h[3] \in Byte /\ h[4] \in Byte
    <3>1. \A j \in 1 .. Len(h) : h[j] \in Byte
      BY <1>1, ElementOfSeq
    <3> QED
      BY <1>1, <3>1
  <2>2. Base \in Nat /\ \A b \in Byte : b \in Nat
    BY FramingAssumption DEF Byte
  <2> QED
    BY <2>1, <2>2
<1>3. \A x, y \in Nat : x * Base + y \in Nat
  BY <1>2
<1>4. Value(h) \in Nat
  BY <1>2, <1>3 DEF Value
<1> QED
  BY <1>1, <1>4 DEF packetLen, HeaderLen, h

\* What the steps of the sender and the receiver leave behind has its type.
LEMMA TypedNext ==
  ASSUME Typed, [Next]_vars
  PROVE  Typed'
<1>1. ASSUME NEW p \in Payloads, SendPacket(p)
      PROVE  Typed'
  <2>1. Frame(p) \in Seq(Byte) /\ Len(p) \in Nat
    BY FrameShape
  <2>2. wire' \in Seq(Byte)
    BY <1>1, <2>1, ConcatProperties DEF SendPacket, Typed
  <2> QED
    BY <1>1, <2>1, <2>2, FramingAssumption DEF SendPacket, Typed
<1>2. ASSUME NEW p \in Payloads, SendFails(p)
      PROVE  Typed'
  <2>1. Frame(p) \in Seq(Byte) /\ Len(Frame(p)) \in Nat
    BY FrameShape DEF HeaderLen
  <2>2. PICK n \in 0 .. (Len(Frame(p)) - 1) : wire' = wire \o SubSeq(Frame(p), 1, n)
    BY <1>2 DEF SendFails
  <2>3. SubSeq(Frame(p), 1, n) \in Seq(Byte)
    BY <2>1, Cut
  <2>4. wire' \in Seq(Byte)
    BY <2>2, <2>3, ConcatProperties DEF Typed
  <2> QED
    BY <1>2, <2>4, FrameShape, FramingAssumption DEF SendFails, Typed
<1>3. CASE Receive
  <2>1. PICK n \in 1 .. BufferSize :
          /\ n <= Len(wire)
          /\ recvBuffer' = recvBuffer \o SubSeq(wire, 1, n)
          /\ wire' = SubSeq(wire, n + 1, Len(wire))
    BY <1>3 DEF Receive
  <2>2. n \in 0 .. Len(wire)
    BY <2>1, FramingAssumption DEF Typed
  <2>3. recvBuffer' \in Seq(Byte) /\ wire' \in Seq(Byte)
    BY <2>1, <2>2, Cut, ConcatProperties DEF Typed
  <2> QED
    BY <1>3, <2>3 DEF Receive, Typed
<1>4. CASE GiveUp
  BY <1>4 DEF GiveUp, Typed
<1>5. CASE TakePacket
  <2> DEFINE n == HeaderLen + packetLen
             p == SubSeq(recvBuffer, HeaderLen + 1, HeaderLen + packetLen)
  <2>1. n \in 0 .. Len(recvBuffer)
    BY <1>5, PacketLenType DEF TakePacket, Complete, HeaderLen, Typed
  <2>2. recvBuffer' = SubSeq(recvBuffer, n + 1, Len(recvBuffer))
    BY <1>5 DEF TakePacket
  <2>3. recvBuffer' \in Seq(Byte)
    <3> HIDE DEF n
    <3> QED
      BY <2>1, <2>2, Cut DEF Typed
  <2>4. \/ delivered' = Append(delivered, p) /\ p \in Payloads \cup {<<>>}
        \/ delivered' = delivered
    BY <1>5 DEF TakePacket, Parses
  <2>5. delivered' \in Seq(Payloads \cup {<<>>})
    <3> DEFINE T == Payloads \cup {<<>>}
    <3> HIDE DEF p, T
    <3>1. \A q \in T : Append(delivered, q) \in Seq(T)
      BY DEF Typed, T
    <3> QED
      BY <2>4, <3>1 DEF Typed, T
  <2> QED
    BY <1>5, <2>3, <2>5 DEF TakePacket, Typed
<1>6. CASE StopParsing
  BY <1>6 DEF StopParsing, Typed
<1>7. CASE UNCHANGED vars
  BY <1>7 DEF vars, Typed
<1> QED
  BY <1>1, <1>2, <1>3, <1>4, <1>5, <1>6, <1>7 DEF Next, ReceiverStep

\* Bytes stay bytes, and what was sent stays packets.
THEOREM TypeCorrect == Spec => []Typed
  BY TypedInit, TypedNext, PTL DEF Spec

-----------------------------------------------------------------------------
(* Nothing is kept waiting. *)

LEMMA StuckNext ==
  ASSUME Typed, NothingStuck, [Next]_vars
  PROVE  NothingStuck'
<1>1. CASE StopParsing
  <2>1. Complete' = Complete /\ TooLarge' = TooLarge
    BY <1>1 DEF StopParsing, Complete, TooLarge, packetLen, HeaderLen
  <2>2. Len(recvBuffer) < HeaderLen + MAX_PACKET_SIZE
    <3>1. Len(recvBuffer) \in Nat /\ MAX_PACKET_SIZE \in Nat
      BY FramingAssumption DEF Typed
    <3>2. CASE Len(recvBuffer) >= HeaderLen
      BY <1>1, <3>1, <3>2, PacketLenType DEF StopParsing, Complete, TooLarge, HeaderLen
    <3> QED
      BY <3>1, <3>2 DEF HeaderLen
  <2> QED
    BY <1>1, <2>1, <2>2 DEF StopParsing, NothingStuck, HeaderLen
<1>2. CASE UNCHANGED <<recvBuffer, parsing, closed>>
  BY <1>2 DEF NothingStuck, Complete, TooLarge, packetLen, HeaderLen
<1>3. CASE parsing' \/ closed'
  BY <1>3 DEF NothingStuck
<1> QED
  BY <1>1, <1>2, <1>3
  DEF Next, ReceiverStep, SendPacket, SendFails, Receive, GiveUp, TakePacket, vars

\* Between two reads no complete packet waits in the receiver's buffer, and what
\* waits there is less than the largest packet, whatever came over the wire.
THEOREM NothingIsStuck == Spec => []NothingStuck
<1>1. Init => NothingStuck
  BY FramingAssumption DEF Init, NothingStuck, Complete, HeaderLen
<1> QED
  BY <1>1, TypeCorrect, StuckNext, PTL DEF Spec

-----------------------------------------------------------------------------
(* What is delivered. *)

\* What was written and not taken out of the buffer yet.
Stream == recvBuffer \o wire

\* Where the packet at i begins in all that was ever written.
Offsets(pos) ==
  /\ pos \in [1 .. (Len(sent) + 1) -> Nat]
  /\ \A i \in 1 .. Len(sent) : pos[i + 1] = pos[i] + HeaderLen + Len(sent[i])
  /\ \A i, j \in 1 .. (Len(sent) + 1) : i <= j => pos[i] <= pos[j]

\* The stream holds the frames of the packets from delivered on, where pos says,
\* and after them what a write that failed has left.
Pending(pos) ==
  LET start == pos[Len(delivered) + 1]
      rest  == Len(Stream) - (pos[Len(sent) + 1] - start)
  IN  /\ \A i \in (Len(delivered) + 1) .. Len(sent) : \A j \in 1 .. (HeaderLen + Len(sent[i])) :
           Stream[pos[i] - start + j] = Frame(sent[i])[j]
      /\ rest \in Nat
      /\ rest # 0 =>
           /\ torn
           /\ \E p \in Payloads :
                /\ rest < HeaderLen + Len(p)
                /\ \A j \in 1 .. rest : Stream[Len(Stream) - rest + j] = Frame(p)[j]
                /\ Len(p) > MAX_PACKET_SIZE => large

\* Strengthening of DeliveredInOrder and GivesUpForCause.
StreamSound ==
  /\ Len(delivered) <= Len(sent)
  /\ delivered = SubSeq(sent, 1, Len(delivered))
  /\ \E pos : Offsets(pos) /\ Pending(pos)
  /\ \A i \in 1 .. Len(sent) : Len(sent[i]) > MAX_PACKET_SIZE => large
  /\ closed => large

StreamInv ==
  /\ torn /\ sender = "bot" => ~connected
  /\ Whole => StreamSound

LEMMA StreamShape ==
  ASSUME Typed
  PROVE  /\ Stream \in Seq(Byte)
         /\ Len(Stream) = Len(recvBuffer) + Len(wire)
         /\ \A i \in 1 .. Len(recvBuffer) : Stream[i] = recvBuffer[i]
         /\ \A i \in 1 .. Len(wire) : Stream[Len(recvBuffer) + i] = wire[i]
<1>1. recvBuffer \in Seq(Byte) /\ wire \in Seq(Byte)
  BY DEF Typed
<1> QED
  BY <1>1, ConcatProperties DEF Stream

\* What is written comes at the end of the stream.
LEMMA StreamGrows ==
  ASSUME Typed, NEW f \in Seq(Byte), wire' = wire \o f, recvBuffer' = recvBuffer
  PROVE  /\ Len(Stream') = Len(Stream) + Len(f)
         /\ \A i \in 1 .. Len(Stream) : Stream'[i] = Stream[i]
         /\ \A i \in 1 .. Len(f) : Stream'[Len(Stream) + i] = f[i]
<1>1. recvBuffer \in Seq(Byte) /\ wire \in Seq(Byte) /\ Stream \in Seq(Byte)
  BY StreamShape DEF Typed
<1>2. Stream' = Stream \o f
  BY <1>1, ConcatAssociative DEF Stream
<1> HIDE DEF Stream
<1> QED
  BY <1>1, <1>2, ConcatProperties

\* A read moves bytes within the stream.
LEMMA StreamRead ==
  ASSUME Typed, Receive
  PROVE  Stream' = Stream
<1>1. PICK n \in 1 .. BufferSize :
        /\ n <= Len(wire)
        /\ recvBuffer' = recvBuffer \o SubSeq(wire, 1, n)
        /\ wire' = SubSeq(wire, n + 1, Len(wire))
  BY DEF Receive
<1>2. recvBuffer \in Seq(Byte) /\ wire \in Seq(Byte) /\ n \in 0 .. Len(wire)
  BY <1>1, FramingAssumption DEF Typed
<1> DEFINE a == SubSeq(wire, 1, n)
           b == SubSeq(wire, n + 1, Len(wire))
<1>3. a \in Seq(Byte) /\ b \in Seq(Byte) /\ a \o b = wire
  BY <1>2, Cut
<1>4. Stream' = (recvBuffer \o a) \o b
  BY <1>1 DEF Stream
<1> HIDE DEF a, b
<1>5. (recvBuffer \o a) \o b = recvBuffer \o (a \o b)
  <2>1. \A u, v, w \in Seq(Byte) : (u \o v) \o w = u \o (v \o w)
    BY ConcatAssociative
  <2> QED
    BY <1>2, <1>3, <2>1
<1> QED
  BY <1>3, <1>4, <1>5 DEF Stream

\* A packet is taken from the front of the stream.
LEMMA StreamTaken ==
  ASSUME Typed, NEW d \in 0 .. Len(recvBuffer),
         recvBuffer' = SubSeq(recvBuffer, d + 1, Len(recvBuffer)), wire' = wire
  PROVE  /\ Len(Stream') = Len(Stream) - d
         /\ \A i \in 1 .. Len(Stream) - d : Stream'[i] = Stream[d + i]
<1> DEFINE b == SubSeq(recvBuffer, d + 1, Len(recvBuffer))
<1>1. recvBuffer \in Seq(Byte) /\ wire \in Seq(Byte)
  BY DEF Typed
<1>2. b \in Seq(Byte) /\ Len(b) = Len(recvBuffer) - d /\ \A i \in 1 .. Len(recvBuffer) - d : b[i] = recvBuffer[d + i]
  BY <1>1, Cut
<1>3. Stream' = b \o wire
  BY DEF Stream
<1> HIDE DEF b
<1>4. /\ Len(Stream') = Len(b) + Len(wire)
      /\ \A i \in 1 .. Len(b) + Len(wire) : Stream'[i] = IF i <= Len(b) THEN b[i] ELSE wire[i - Len(b)]
  BY <1>1, <1>2, <1>3, ConcatProperties
<1>5. /\ Len(Stream) = Len(recvBuffer) + Len(wire)
      /\ \A i \in 1 .. Len(recvBuffer) + Len(wire) :
           Stream[i] = IF i <= Len(recvBuffer) THEN recvBuffer[i] ELSE wire[i - Len(recvBuffer)]
  BY <1>1, ConcatProperties DEF Stream
<1>6. Len(recvBuffer) \in Nat /\ Len(wire) \in Nat
  BY <1>1
<1>7. Len(Stream') = Len(Stream) - d
  BY <1>2, <1>4, <1>5, <1>6
<1>8. ASSUME NEW i \in 1 .. Len(Stream) - d
      PROVE  Stream'[i] = Stream[d + i]
  <2>1. /\ i \in 1 .. Len(b) + Len(wire)
        /\ d + i \in 1 .. Len(recvBuffer) + Len(wire)
        /\ i <= Len(b) <=> d + i <= Len(recvBuffer)
        /\ i - Len(b) = (d + i) - Len(recvBuffer)
    BY <1>2, <1>5, <1>6, <1>8
  <2>2. CASE i <= Len(b)
    BY <1>2, <1>4, <1>5, <1>6, <2>1, <2>2
  <2>3. CASE ~(i <= Len(b))
    <3>1. Stream'[i] = wire[i - Len(b)]
      BY <1>4, <2>1, <2>3
    <3>2. Stream[d + i] = wire[(d + i) - Len(recvBuffer)]
      BY <1>5, <2>1, <2>3
    <3> QED
      BY <2>1, <3>1, <3>2
  <2> QED
    BY <2>2, <2>3
<1> QED
  BY <1>7, <1>8

\* The length that is read at the front of the stream is the length of the
\* packet whose frame begins there.
LEMMA LengthIsRead ==
  ASSUME Typed, NEW p \in Payloads, Len(recvBuffer) >= HeaderLen,
         \A j \in 1 .. HeaderLen : Stream[j] = Frame(p)[j]
  PROVE  packetLen = Len(p)
<1> DEFINE h == SubSeq(recvBuffer, 1, HeaderLen)
           g == Header(Len(p))
<1>1. \A j \in 1 .. HeaderLen : h[j] = g[j]
  <2>1. \A j \in 1 .. HeaderLen : j \in 1 .. Len(recvBuffer)
    BY DEF Typed, HeaderLen
  <2> QED
    BY <2>1, PacketLenType, StreamShape, FrameShape
<1>2. h[1] = g[1] /\ h[2] = g[2] /\ h[3] = g[3] /\ h[4] = g[4]
  <2> HIDE DEF h, g
  <2> QED
    BY <1>1 DEF HeaderLen
<1>3. Value(h) = Value(g)
  <2> HIDE DEF h, g
  <2> QED
    BY <1>2 DEF Value
<1>4. Len(p) \in Nat /\ Len(p) < Base * Base * Base * Base
  BY FramingAssumption
<1>5. Value(g) = Len(p)
  BY <1>4, RoundTrip
<1> QED
  BY <1>3, <1>5 DEF packetLen

\* What the receiver meets at the front: the packet that is next, or else a
\* piece that is too short for the length it says.
LEMMA Front ==
  ASSUME Typed, Len(delivered) <= Len(sent), NEW pos, Offsets(pos), Pending(pos),
         Len(recvBuffer) >= HeaderLen
  PROVE  IF Len(delivered) < Len(sent)
         THEN /\ sent[Len(delivered) + 1] \in Payloads
              /\ packetLen = Len(sent[Len(delivered) + 1])
              /\ \A j \in 1 .. (HeaderLen + packetLen) :
                   Stream[j] = Frame(sent[Len(delivered) + 1])[j]
         ELSE \E p \in Payloads : /\ packetLen = Len(p)
                                  /\ Len(recvBuffer) < HeaderLen + packetLen
                                  /\ Len(p) > MAX_PACKET_SIZE => large
<1> DEFINE k == Len(delivered)
           start == pos[k + 1]
<1>1. k \in Nat /\ Len(sent) \in Nat /\ k <= Len(sent) /\ start \in Nat
  <2>1. k \in Nat /\ Len(sent) \in Nat
    BY DEF Typed
  <2>2. k + 1 \in 1 .. (Len(sent) + 1)
    BY <2>1
  <2> HIDE DEF k
  <2>3. start \in Nat
    BY <2>2 DEF Offsets
  <2> QED
    BY <2>1, <2>3 DEF k
<1>2. CASE k < Len(sent)
  <2> DEFINE p == sent[k + 1]
  <2>1. p \in Payloads
    BY <1>1, <1>2 DEF Typed
  <2>2. Len(p) \in Nat
    BY <2>1, FrameShape
  <2>3. \A j \in 1 .. (HeaderLen + Len(p)) : Stream[j] = Frame(p)[j]
    <3>1. k + 1 \in (k + 1) .. Len(sent)
      BY <1>1, <1>2
    <3>2. \A j \in 1 .. (HeaderLen + Len(p)) : Stream[start - start + j] = Frame(p)[j]
      BY <3>1 DEF Pending
    <3>3. \A j \in 1 .. (HeaderLen + Len(p)) : start - start + j = j
      BY <1>1, <2>2 DEF HeaderLen
    <3> HIDE DEF start, p
    <3> QED
      BY <3>2, <3>3
  <2> HIDE DEF p
  <2>4. \A j \in 1 .. HeaderLen : j \in 1 .. (HeaderLen + Len(p))
    BY <2>2 DEF HeaderLen
  <2>5. packetLen = Len(p)
    BY <2>1, <2>3, <2>4, LengthIsRead
  <2> QED
    BY <1>2, <2>1, <2>3, <2>5 DEF p
<1>3. CASE ~(k < Len(sent))
  <2>1. k = Len(sent)
    BY <1>1, <1>3
  <2> DEFINE rest == Len(Stream) - (start - start)
  <2>2. Len(Stream) \in Nat /\ rest = Len(Stream) /\ Len(Stream) >= Len(recvBuffer)
    BY <1>1, StreamShape DEF Typed
  <2>3. rest # 0
    BY <2>2 DEF HeaderLen, Typed
  <2>4. PICK p \in Payloads :
          /\ rest < HeaderLen + Len(p)
          /\ \A j \in 1 .. rest : Stream[Len(Stream) - rest + j] = Frame(p)[j]
          /\ Len(p) > MAX_PACKET_SIZE => large
    BY <2>1, <2>3 DEF Pending
  <2> HIDE DEF rest
  <2>5. \A j \in 1 .. HeaderLen : Stream[j] = Frame(p)[j]
    <3>1. \A j \in 1 .. HeaderLen : j \in 1 .. rest /\ Len(Stream) - rest + j = j
      BY <2>2 DEF HeaderLen, Typed
    <3> QED
      BY <2>4, <3>1
  <2>6. packetLen = Len(p) /\ Len(p) \in Nat
    BY <2>5, LengthIsRead, FrameShape
  <2>7. Len(recvBuffer) < HeaderLen + packetLen
    BY <2>2, <2>4, <2>6 DEF HeaderLen, Typed
  <2> QED
    BY <1>3, <2>4, <2>6, <2>7
<1> QED
  BY <1>2, <1>3

\* A receiver that gives up does it for cause.
LEMMA GiveUpSound ==
  ASSUME Typed, StreamSound, GiveUp
  PROVE  StreamSound'
<1>1. PICK pos : Offsets(pos) /\ Pending(pos)
  BY DEF StreamSound
<1>2. large
  <2>1. Len(recvBuffer) >= HeaderLen /\ packetLen > MAX_PACKET_SIZE
    BY DEF GiveUp, TooLarge
  <2>2. Len(delivered) + 1 \in 1 .. Len(sent) \/ ~(Len(delivered) < Len(sent))
    BY DEF Typed
  <2> QED
    BY <1>1, <2>1, <2>2, Front DEF StreamSound
<1>3. Offsets(pos)' /\ Pending(pos)'
  BY <1>1 DEF GiveUp, Offsets, Pending, Stream
<1> QED
  BY <1>2, <1>3 DEF GiveUp, StreamSound

\* Reading and stopping leave the stream as it is.
LEMMA SameStreamSound ==
  ASSUME Typed, StreamSound, Stream' = Stream,
         UNCHANGED <<sent, delivered, torn, large, closed>>
  PROVE  StreamSound'
<1>1. PICK pos : Offsets(pos) /\ Pending(pos)
  BY DEF StreamSound
<1>2. Offsets(pos)' /\ Pending(pos)'
  <2> HIDE DEF Stream
  <2> QED
    BY <1>1 DEF Offsets, Pending
<1> QED
  BY <1>2 DEF StreamSound

\* What is taken from the front is the packet that is next.
LEMMA TakeSound ==
  ASSUME Typed, StreamSound, TakePacket
  PROVE  StreamSound'
<1> DEFINE k == Len(delivered)
           d == HeaderLen + packetLen
<1>0. PICK pos : Offsets(pos) /\ Pending(pos)
  BY DEF StreamSound
<1>1. Len(recvBuffer) >= HeaderLen /\ Len(recvBuffer) >= d /\ packetLen \in Nat /\ k <= Len(sent)
  BY PacketLenType DEF TakePacket, Complete, StreamSound
<1>2. k \in Nat /\ Len(sent) \in Nat /\ Len(recvBuffer) \in Nat /\ Len(Stream) \in Nat /\ Len(Stream) >= Len(recvBuffer)
  BY StreamShape DEF Typed
<1>3. k < Len(sent)
  BY <1>0, <1>1, <1>2, Front DEF HeaderLen
<1> DEFINE p == sent[k + 1]
<1>4. p \in Payloads /\ packetLen = Len(p) /\ \A j \in 1 .. d : Stream[j] = Frame(p)[j]
  BY <1>0, <1>1, <1>3, Front
<1>5. d \in 0 .. Len(recvBuffer) /\ d \in Nat
  BY <1>1, <1>2 DEF HeaderLen
<1>6. SubSeq(recvBuffer, HeaderLen + 1, d) = p
  <2> DEFINE q == SubSeq(recvBuffer, HeaderLen + 1, d)
  <2>1. \A i \in (HeaderLen + 1) .. d : recvBuffer[i] \in Byte
    <3>1. \A i \in (HeaderLen + 1) .. d : i \in 1 .. Len(recvBuffer)
      BY <1>1, <1>2 DEF HeaderLen
    <3> QED
      BY <3>1, ElementOfSeq DEF Typed
  <2>2. d - (HeaderLen + 1) + 1 = Len(p) /\ HeaderLen + 1 \in Int /\ d \in Int
    BY <1>1, <1>4 DEF HeaderLen
  <2>3. Len(p) \in Nat \ {0} /\ p \in Seq(Byte)
    BY <1>4, FrameShape
  <2> HIDE DEF d, p
  <2>4. q \in Seq(Byte) /\ Len(q) = Len(p) /\ \A i \in 1 .. Len(p) : q[i] = recvBuffer[HeaderLen + 1 + i - 1]
    <3>1. HeaderLen + 1 <= d
      BY <2>2, <2>3 DEF HeaderLen
    <3> QED
      BY <2>1, <2>2, <3>1, SubSeqProperties
  <2>5. ASSUME NEW i \in 1 .. Len(p)
        PROVE  q[i] = p[i]
    <3>1. HeaderLen + i \in 1 .. d /\ HeaderLen + i \in 1 .. Len(recvBuffer) /\ HeaderLen + 1 + i - 1 = HeaderLen + i
      BY <1>2, <1>5, <2>2, <2>3 DEF HeaderLen
    <3>2. recvBuffer[HeaderLen + i] = Frame(p)[HeaderLen + i]
      BY <1>4, <3>1, StreamShape
    <3>3. Frame(p)[HeaderLen + i] = p[i]
      BY <1>4, FrameShape
    <3> QED
      BY <2>4, <3>1, <3>2, <3>3
  <2> HIDE DEF q
  <2>6. q = p
    BY <2>3, <2>4, <2>5, SeqEqual
  <2> QED
    BY <2>6 DEF q
<1>7. delivered' = Append(delivered, p) /\ sent' = sent /\ torn' = torn /\ large' = large /\ closed' = closed /\ wire' = wire
  BY <1>4, <1>6 DEF TakePacket, Parses
<1>8. Len(delivered') = k + 1 /\ delivered' = SubSeq(sent, 1, k + 1)
  <2>1. delivered = SubSeq(sent, 1, k) /\ sent \in Seq(Payloads) /\ delivered \in Seq(Payloads \cup {<<>>})
    BY DEF StreamSound, Typed
  <2>2. k + 1 \in 1 .. Len(sent)
    BY <1>2, <1>3
  <2>3. SubSeq(sent, 1, k + 1) = SubSeq(sent, 1, k) \o <<p>>
    <3>1. k + 1 - 1 = k /\ k + 1 \in 1 .. Len(sent) /\ 1 \in 1 .. Len(sent) /\ k + 1 \in 1 .. Len(sent)
      BY <1>2, <2>2
    <3>2. \A m \in 1 .. Len(sent) : \A n \in m .. Len(sent) :
            SubSeq(sent, m, n) = SubSeq(sent, m, n - 1) \o <<sent[n]>>
      BY <2>1, SubSeqRecursiveSecond
    <3>3. SubSeq(sent, 1, k + 1) = SubSeq(sent, 1, (k + 1) - 1) \o <<sent[k + 1]>>
      BY <3>1, <3>2, Zenon
    <3>4. (k + 1) - 1 = k
      BY <1>2
    <3> QED
      BY <3>3, <3>4
  <2>4. Append(delivered, p) = delivered \o <<p>> /\ Len(Append(delivered, p)) = k + 1
    BY <2>1
  <2> HIDE DEF k, p
  <2> QED
    BY <1>7, <2>1, <2>3, <2>4
<1>9. Offsets(pos)'
  BY <1>0, <1>7 DEF Offsets
<1>10. recvBuffer' = SubSeq(recvBuffer, d + 1, Len(recvBuffer))
  BY DEF TakePacket
<1>11. /\ Len(Stream') = Len(Stream) - d
       /\ \A i \in 1 .. Len(Stream) - d : Stream'[i] = Stream[d + i]
  <2> HIDE DEF d
  <2> QED
    BY <1>5, <1>7, <1>10, StreamTaken
<1>12. Pending(pos)'
  <2> DEFINE start == pos[k + 1]
             next == pos[k + 2]
             end == pos[Len(sent) + 1]
             rest == Len(Stream) - (end - start)
  <2>1. /\ start \in Nat /\ next \in Nat /\ end \in Nat
        /\ next = start + d
        /\ next <= end
    <3>1. k + 1 \in 1 .. Len(sent) /\ k + 2 \in 1 .. (Len(sent) + 1) /\ Len(sent) + 1 \in 1 .. (Len(sent) + 1)
          /\ k + 1 \in 1 .. (Len(sent) + 1) /\ (k + 1) + 1 = k + 2 /\ k + 2 <= Len(sent) + 1
      BY <1>2, <1>3
    <3>2. pos[(k + 1) + 1] = pos[k + 1] + HeaderLen + Len(p)
      BY <1>0, <3>1 DEF Offsets
    <3>3. start \in Nat /\ next \in Nat /\ end \in Nat /\ next <= end
      BY <1>0, <3>1 DEF Offsets
    <3>4. next = start + HeaderLen + Len(p)
      BY <3>1, <3>2
    <3> HIDE DEF start, next, end, p, k
    <3>5. next = start + d
      BY <1>1, <1>4, <3>3, <3>4 DEF HeaderLen
    <3> QED
      BY <3>3, <3>5
  <2>2. rest \in Nat
    BY <1>0 DEF Pending
  <2>3. Len(Stream') - (end - next) = rest
    <3> HIDE DEF start, next, end, d
    <3> QED
      BY <1>2, <1>5, <1>11, <2>1
  <2>4. ASSUME NEW i \in (k + 2) .. Len(sent), NEW j \in 1 .. (HeaderLen + Len(sent[i]))
        PROVE  Stream'[pos[i] - next + j] = Frame(sent[i])[j]
    <3>1. i \in 1 .. Len(sent) /\ i \in 1 .. (Len(sent) + 1) /\ i + 1 \in 1 .. (Len(sent) + 1) /\ k + 2 \in 1 .. (Len(sent) + 1)
          /\ k + 2 <= i /\ i + 1 <= Len(sent) + 1 /\ Len(sent) + 1 \in 1 .. (Len(sent) + 1)
          /\ i \in (k + 1) .. Len(sent)
      BY <1>2, <1>3, <2>4
    <3>2. /\ pos[i] \in Nat /\ pos[i + 1] \in Nat
          /\ next <= pos[i] /\ pos[i + 1] <= end
          /\ pos[i + 1] = pos[i] + HeaderLen + Len(sent[i])
      BY <1>0, <3>1 DEF Offsets
    <3>3. Len(sent[i]) \in Nat
      BY <3>1, FrameShape DEF Typed
    <3>4. Stream[pos[i] - start + j] = Frame(sent[i])[j]
      BY <1>0, <3>1 DEF Pending
    <3> DEFINE x == pos[i] - next + j
    <3>5. x \in 1 .. Len(Stream) - d /\ d + x = pos[i] - start + j
      <4> HIDE DEF start, next, end, d
      <4>1. j \in Nat /\ 1 <= j /\ j <= HeaderLen + Len(sent[i]) /\ HeaderLen + Len(sent[i]) \in Nat
        BY <2>4, <3>3 DEF HeaderLen
      <4>2. pos[i] + j <= end
        BY <2>1, <3>2, <3>3, <4>1 DEF HeaderLen
      <4>3. Len(Stream) - d = rest + (end - next) /\ rest \in Nat
        BY <1>2, <1>5, <2>1, <2>2
      <4>4. x \in Int /\ 1 <= x /\ x <= end - next /\ d + x = pos[i] - start + j
        <5>1. pos[i] \in Int /\ next \in Int /\ start \in Int /\ end \in Int /\ d \in Int /\ j \in Int
          BY <1>5, <2>1, <3>2, <4>1
        <5>2. x \in Int
          BY <5>1
        <5>3. 1 <= x
          BY <3>2, <4>1, <5>1
        <5>4. x <= end - next
          BY <4>2, <5>1
        <5>5. d + x = pos[i] - start + j
          BY <2>1, <5>1
        <5> QED
          BY <5>2, <5>3, <5>4, <5>5
      <4> HIDE DEF x, rest
      <4> QED
        BY <1>2, <1>5, <2>1, <4>3, <4>4
    <3>6. Stream'[x] = Stream[d + x]
      BY <1>11, <3>5
    <3> QED
      BY <3>4, <3>5, <3>6
  <2>5. ASSUME rest # 0
        PROVE  /\ torn
               /\ \E q \in Payloads :
                    /\ rest < HeaderLen + Len(q)
                    /\ \A j \in 1 .. rest : Stream'[Len(Stream') - rest + j] = Frame(q)[j]
                    /\ Len(q) > MAX_PACKET_SIZE => large
    <3>1. torn
      BY <1>0, <2>5 DEF Pending
    <3>2. PICK q \in Payloads :
            /\ rest < HeaderLen + Len(q)
            /\ \A j \in 1 .. rest : Stream[Len(Stream) - rest + j] = Frame(q)[j]
            /\ Len(q) > MAX_PACKET_SIZE => large
      BY <1>0, <2>5 DEF Pending
    <3>3. ASSUME NEW j \in 1 .. rest
          PROVE  Stream'[Len(Stream') - rest + j] = Stream[Len(Stream) - rest + j]
      <4> DEFINE x == Len(Stream') - rest + j
      <4>1. x \in 1 .. Len(Stream) - d /\ d + x = Len(Stream) - rest + j
        <5> HIDE DEF start, next, end, d, rest
        <5> QED
          BY <1>2, <1>5, <1>11, <2>1, <2>2, <2>3
      <4> QED
        BY <1>11, <4>1
    <3> QED
      BY <3>1, <3>2, <3>3
  <2> HIDE DEF d, p
  <2>6. /\ Len(delivered') + 1 = k + 2
        /\ pos[Len(delivered') + 1] = next
        /\ (Len(delivered') + 1) .. Len(sent) = (k + 2) .. Len(sent)
    BY <1>2, <1>8
  <2> HIDE DEF k, start, next, end, rest
  <2>7. Len(Stream') - (pos[Len(sent') + 1] - pos[Len(delivered') + 1]) = rest
    BY <1>7, <2>3, <2>6 DEF end
  <2>8. \A i \in (Len(delivered') + 1) .. Len(sent') : \A j \in 1 .. (HeaderLen + Len(sent'[i])) :
          Stream'[pos[i] - pos[Len(delivered') + 1] + j] = Frame(sent'[i])[j]
    BY <1>7, <2>4, <2>6
  <2> QED
    BY <1>7, <2>2, <2>5, <2>7, <2>8 DEF Pending
<1> HIDE DEF k, d, p
<1>13. Len(delivered') <= Len(sent')
  BY <1>2, <1>3, <1>7, <1>8
<1> QED
  BY <1>7, <1>8, <1>9, <1>12, <1>13 DEF StreamSound

\* The frames that are pending lie within the stream, one after another, and
\* until a write fails there is nothing after them.
LEMMA Layout ==
  ASSUME Typed, Len(delivered) <= Len(sent), NEW pos, Offsets(pos), Pending(pos)
  PROVE  /\ pos[Len(delivered) + 1] \in Nat
         /\ pos[Len(sent) + 1] \in Nat
         /\ pos[Len(delivered) + 1] <= pos[Len(sent) + 1]
         /\ ~torn => Len(Stream) = pos[Len(sent) + 1] - pos[Len(delivered) + 1]
         /\ \A i \in (Len(delivered) + 1) .. Len(sent) : \A j \in 1 .. (HeaderLen + Len(sent[i])) :
              pos[i] - pos[Len(delivered) + 1] + j \in 1 .. Len(Stream)
<1> DEFINE k == Len(delivered)
           n == Len(sent)
           start == pos[k + 1]
           end == pos[n + 1]
           rest == Len(Stream) - (end - start)
<1>1. k \in Nat /\ n \in Nat /\ k <= n /\ Len(Stream) \in Nat
  BY StreamShape DEF Typed
<1>2. k + 1 \in 1 .. (n + 1) /\ n + 1 \in 1 .. (n + 1) /\ k + 1 <= n + 1
  BY <1>1
<1>3. start \in Nat /\ end \in Nat /\ start <= end
  <2> HIDE DEF k
  <2> QED
    BY <1>2 DEF Offsets
<1>4. rest \in Nat /\ (rest # 0 => torn)
  BY DEF Pending
<1>5. ~torn => Len(Stream) = end - start
  <2> HIDE DEF start, end
  <2> QED
    BY <1>1, <1>3, <1>4
<1>6. ASSUME NEW i \in (k + 1) .. n, NEW j \in 1 .. (HeaderLen + Len(sent[i]))
      PROVE  pos[i] - start + j \in 1 .. Len(Stream)
  <2>1. i \in 1 .. n /\ i \in 1 .. (n + 1) /\ i + 1 \in 1 .. (n + 1) /\ k + 1 <= i /\ i + 1 <= n + 1
    BY <1>1, <1>6
  <2>2. Len(sent[i]) \in Nat
    BY <2>1, FrameShape DEF Typed
  <2>3. /\ pos[i] \in Int /\ pos[i + 1] \in Int
        /\ start <= pos[i] /\ pos[i + 1] <= end
        /\ pos[i + 1] = pos[i] + HeaderLen + Len(sent[i])
    <3>1. \A a, b \in 1 .. (n + 1) : pos[a] \in Int /\ (a <= b => pos[a] <= pos[b])
      BY DEF Offsets
    <3>2. pos[i + 1] = pos[i] + HeaderLen + Len(sent[i])
      BY <2>1 DEF Offsets
    <3> HIDE DEF k, n
    <3> QED
      BY <1>2, <2>1, <3>1, <3>2
  <2>4. j \in Int /\ 1 <= j /\ pos[i] + j <= pos[i + 1]
    BY <1>6, <2>2, <2>3 DEF HeaderLen
  <2>5. end - start <= Len(Stream)
    <3> HIDE DEF start, end
    <3> QED
      BY <1>1, <1>3, <1>4
  <2> HIDE DEF start, end, k, n
  <2>6. start \in Int /\ end \in Int /\ Len(Stream) \in Int
    BY <1>1, <1>3
  <2>7. 1 <= pos[i] - start + j
    BY <2>3, <2>4, <2>6
  <2>8. pos[i] - start + j <= Len(Stream)
    BY <2>3, <2>4, <2>5, <2>6
  <2> QED
    BY <2>3, <2>4, <2>6, <2>7, <2>8
<1> QED
  BY <1>3, <1>5, <1>6

\* A packet that is written follows the others.
LEMMA SendSound ==
  ASSUME Typed, StreamSound, ~torn, NEW p \in Payloads, SendPacket(p)
  PROVE  StreamSound'
<1> DEFINE k == Len(delivered)
           n == Len(sent)
<1>0. PICK pos : Offsets(pos) /\ Pending(pos)
  BY DEF StreamSound
<1>1. /\ k \in Nat /\ n \in Nat /\ k <= n
      /\ sent \in Seq(Payloads) /\ delivered \in Seq(Payloads \cup {<<>>})
      /\ delivered = SubSeq(sent, 1, k)
  BY DEF Typed, StreamSound
<1>2. /\ sent' = Append(sent, p) /\ delivered' = delivered /\ torn' = torn /\ closed' = closed
      /\ large' = (large \/ Len(p) > MAX_PACKET_SIZE)
      /\ wire' = wire \o Frame(p) /\ recvBuffer' = recvBuffer
  BY DEF SendPacket
<1>3. /\ Len(sent') = n + 1
      /\ \A i \in 1 .. n : sent'[i] = sent[i]
      /\ sent'[n + 1] = p
  BY <1>1, <1>2
<1>4. Frame(p) \in Seq(Byte) /\ Len(Frame(p)) = HeaderLen + Len(p) /\ Len(p) \in Nat
  BY FrameShape
<1>5. /\ Len(Stream') = Len(Stream) + HeaderLen + Len(p)
      /\ \A i \in 1 .. Len(Stream) : Stream'[i] = Stream[i]
      /\ \A i \in 1 .. (HeaderLen + Len(p)) : Stream'[Len(Stream) + i] = Frame(p)[i]
  <2>1. /\ Len(Stream') = Len(Stream) + Len(Frame(p))
        /\ \A i \in 1 .. Len(Stream) : Stream'[i] = Stream[i]
        /\ \A i \in 1 .. Len(Frame(p)) : Stream'[Len(Stream) + i] = Frame(p)[i]
    BY <1>2, <1>4, StreamGrows
  <2>2. Len(Stream) \in Nat
    BY StreamShape DEF Typed
  <2> QED
    BY <1>4, <2>1, <2>2 DEF HeaderLen
<1> DEFINE start == pos[k + 1]
           end == pos[n + 1]
           last == end + HeaderLen + Len(p)
<1>a. PICK new : new = [i \in 1 .. (n + 2) |-> IF i = n + 2 THEN last ELSE pos[i]]
  OBVIOUS
<1>6. /\ start \in Nat /\ end \in Nat /\ last \in Nat /\ start <= end
      /\ Len(Stream) = end - start
      /\ \A i \in (k + 1) .. n : \A j \in 1 .. (HeaderLen + Len(sent[i])) :
           pos[i] - start + j \in 1 .. Len(Stream)
  BY <1>0, <1>1, <1>4, Layout DEF HeaderLen
<1>7. /\ \A i \in 1 .. (n + 1) : new[i] = pos[i] /\ pos[i] \in Nat /\ pos[i] <= end
      /\ new[n + 2] = last
      /\ new[k + 1] = start
      /\ new[n + 1] = end
  <2>1. \A i \in 1 .. (n + 1) : i \in 1 .. (n + 2) /\ i # n + 2 /\ i <= n + 1 /\ n + 1 \in 1 .. (n + 1)
    BY <1>1
  <2>2. k + 1 \in 1 .. (n + 1) /\ n + 1 \in 1 .. (n + 1) /\ n + 2 \in 1 .. (n + 2)
    BY <1>1
  <2>3. \A i \in 1 .. (n + 1) : pos[i] \in Nat /\ pos[i] <= end
    BY <1>0, <2>1 DEF Offsets
  <2> HIDE DEF k, n, last, start, end
  <2>4. \A i \in 1 .. (n + 1) : new[i] = pos[i]
    BY <1>a, <2>1
  <2> QED
    BY <1>a, <2>2, <2>3, <2>4 DEF start, end
<1>8. Offsets(new)'
  <2>1. new \in [1 .. (n + 2) -> Nat]
    <3>1. \A i \in 1 .. (n + 2) : i = n + 2 \/ i \in 1 .. (n + 1)
      BY <1>1
    <3> HIDE DEF n, last
    <3> QED
      BY <1>a, <1>6, <1>7, <3>1
  <2>2. ASSUME NEW i \in 1 .. (n + 1)
        PROVE  new[i + 1] = new[i] + HeaderLen + Len(sent'[i])
    <3>1. CASE i = n + 1
      <4>1. new[i + 1] = last /\ new[i] = end /\ sent'[i] = p
        <5> HIDE DEF last, end
        <5> QED
          BY <1>1, <1>3, <1>7, <3>1
      <4> QED
        BY <4>1
    <3>2. CASE i # n + 1
      <4>1. i \in 1 .. n /\ i \in 1 .. (n + 1) /\ i + 1 \in 1 .. (n + 1)
        BY <1>1, <2>2, <3>2
      <4>2. new[i + 1] = pos[i + 1] /\ new[i] = pos[i] /\ sent'[i] = sent[i]
        <5> HIDE DEF last, end
        <5> QED
          BY <1>3, <1>7, <4>1
      <4>3. pos[i + 1] = pos[i] + HeaderLen + Len(sent[i])
        BY <1>0, <4>1 DEF Offsets
      <4> QED
        BY <4>2, <4>3
    <3> QED
      BY <3>1, <3>2
  <2>3. ASSUME NEW i \in 1 .. (n + 2), NEW j \in 1 .. (n + 2), i <= j
        PROVE  new[i] <= new[j]
    <3>1. CASE j = n + 2
      <4>1. new[i] <= last
        <5> HIDE DEF end, n
        <5>1. i = n + 2 \/ i \in 1 .. (n + 1)
          BY <1>1, <2>3
        <5>2. end <= last
          BY <1>4, <1>6 DEF HeaderLen
        <5> HIDE DEF last
        <5> QED
          BY <1>6, <1>7, <5>1, <5>2
      <4> QED
        BY <1>7, <3>1, <4>1
    <3>2. CASE j # n + 2
      <4>1. i \in 1 .. (n + 1) /\ j \in 1 .. (n + 1)
        BY <1>1, <2>3, <3>2
      <4>2. pos[i] <= pos[j]
        BY <1>0, <2>3, <4>1 DEF Offsets
      <4> QED
        BY <1>7, <4>1, <4>2
    <3> QED
      BY <3>1, <3>2
  <2> HIDE DEF n
  <2>4. Len(sent') + 1 = n + 2 /\ Len(sent') = n + 1
    BY <1>1, <1>3
  <2> QED
    BY <2>1, <2>2, <2>3, <2>4 DEF Offsets
<1>9. Pending(new)'
  <2>1. ASSUME NEW i \in (k + 1) .. (n + 1), NEW j \in 1 .. (HeaderLen + Len(sent'[i]))
        PROVE  Stream'[new[i] - start + j] = Frame(sent'[i])[j]
    <3>1. CASE i = n + 1
      <4>1. new[i] = end /\ sent'[i] = p /\ j \in 1 .. (HeaderLen + Len(p))
        BY <1>3, <1>7, <2>1, <3>1
      <4> HIDE DEF end, start
      <4>2. new[i] - start + j = Len(Stream) + j
        BY <1>6, <4>1
      <4> QED
        BY <1>5, <4>1, <4>2
    <3>2. CASE i # n + 1
      <4>1. i \in (k + 1) .. n /\ i \in 1 .. n /\ i \in 1 .. (n + 1)
        BY <1>1, <2>1, <3>2
      <4>2. new[i] = pos[i] /\ sent'[i] = sent[i]
        BY <1>3, <1>7, <4>1
      <4>3. j \in 1 .. (HeaderLen + Len(sent[i]))
        BY <2>1, <4>2
      <4>4. Stream[pos[i] - start + j] = Frame(sent[i])[j]
        BY <1>0, <4>1, <4>3 DEF Pending
      <4>5. pos[i] - start + j \in 1 .. Len(Stream)
        BY <1>6, <4>1, <4>3
      <4> QED
        BY <1>5, <4>2, <4>4, <4>5
    <3> QED
      BY <3>1, <3>2
  <2>2. Len(Stream') - (last - start) = 0
    <3> HIDE DEF start, end
    <3> QED
      BY <1>4, <1>5, <1>6 DEF HeaderLen
  <2> HIDE DEF k, n, start, last
  <2>3. new[Len(delivered') + 1] = start /\ new[Len(sent') + 1] = last
    <3>1. (n + 1) + 1 = n + 2
      BY <1>1
    <3> QED
      BY <1>2, <1>3, <1>7, <3>1 DEF k
  <2>4. \A i \in (Len(delivered') + 1) .. Len(sent') : \A j \in 1 .. (HeaderLen + Len(sent'[i])) :
          Stream'[new[i] - new[Len(delivered') + 1] + j] = Frame(sent'[i])[j]
    BY <1>2, <1>3, <2>1, <2>3 DEF k
  <2>5. Len(Stream') - (new[Len(sent') + 1] - new[Len(delivered') + 1]) = 0
    BY <2>2, <2>3
  <2> QED
    BY <2>4, <2>5 DEF Pending
<1>10. Len(delivered') <= Len(sent') /\ delivered' = SubSeq(sent', 1, Len(delivered'))
  <2>1. k \in 0 .. Len(sent) /\ k \in 0 .. Len(sent') /\ sent' \in Seq(Payloads)
    BY <1>1, <1>2, <1>3
  <2> HIDE DEF k, n
  <2>2. SubSeq(sent', 1, k) = SubSeq(sent, 1, k)
    <3>1. /\ SubSeq(sent, 1, k) \in Seq(Payloads) /\ Len(SubSeq(sent, 1, k)) = k
          /\ \A i \in 1 .. k : SubSeq(sent, 1, k)[i] = sent[i]
          /\ SubSeq(sent', 1, k) \in Seq(Payloads) /\ Len(SubSeq(sent', 1, k)) = k
          /\ \A i \in 1 .. k : SubSeq(sent', 1, k)[i] = sent'[i]
      BY <1>1, <2>1, Cut
    <3>2. \A i \in 1 .. k : i \in 1 .. n
      BY <1>1
    <3> QED
      BY <1>3, <3>1, <3>2, SeqEqual
  <2> QED
    BY <1>1, <1>2, <1>3, <2>2 DEF k
<1>11. \A i \in 1 .. Len(sent') : Len(sent'[i]) > MAX_PACKET_SIZE => large'
  <2>1. \A i \in 1 .. (n + 1) : i \in 1 .. n \/ i = n + 1
    BY <1>1
  <2> QED
    BY <1>2, <1>3, <2>1 DEF StreamSound
<1> QED
  BY <1>2, <1>8, <1>9, <1>10, <1>11 DEF StreamSound

\* A write that fails leaves a piece of its frame at the end, and nothing follows.
LEMMA FailSound ==
  ASSUME Typed, StreamSound, ~torn, NEW p \in Payloads, SendFails(p)
  PROVE  StreamSound'
<1>0. PICK pos : Offsets(pos) /\ Pending(pos)
  BY DEF StreamSound
<1> DEFINE k == Len(delivered)
           start == pos[k + 1]
           end == pos[Len(sent) + 1]
<1>1. /\ sent' = sent /\ delivered' = delivered /\ torn' /\ closed' = closed
      /\ large' = (large \/ Len(p) > MAX_PACKET_SIZE) /\ recvBuffer' = recvBuffer
  BY DEF SendFails
<1>2. Frame(p) \in Seq(Byte) /\ Len(Frame(p)) = HeaderLen + Len(p) /\ Len(p) \in Nat
  BY FrameShape
<1>3. PICK n \in 0 .. (Len(Frame(p)) - 1) : wire' = wire \o SubSeq(Frame(p), 1, n)
  BY DEF SendFails
<1> DEFINE piece == SubSeq(Frame(p), 1, n)
<1>4. n \in Nat /\ n < HeaderLen + Len(p) /\ n \in 0 .. Len(Frame(p))
  BY <1>2, <1>3 DEF HeaderLen
<1>5. piece \in Seq(Byte) /\ Len(piece) = n /\ \A i \in 1 .. n : piece[i] = Frame(p)[i]
  BY <1>2, <1>4, Cut
<1>6. /\ Len(Stream') = Len(Stream) + n
      /\ \A i \in 1 .. Len(Stream) : Stream'[i] = Stream[i]
      /\ \A i \in 1 .. n : Stream'[Len(Stream) + i] = Frame(p)[i]
  <2> HIDE DEF piece
  <2>1. wire' = wire \o piece
    BY <1>3 DEF piece
  <2> QED
    BY <1>1, <1>5, <2>1, StreamGrows
<1>7. /\ start \in Nat /\ end \in Nat /\ Len(Stream) = end - start
      /\ \A i \in (k + 1) .. Len(sent) : \A j \in 1 .. (HeaderLen + Len(sent[i])) :
           pos[i] - start + j \in 1 .. Len(Stream)
  BY <1>0, Layout DEF StreamSound
<1>8. Offsets(pos)'
  BY <1>0, <1>1 DEF Offsets
<1>9. Pending(pos)'
  <2>1. \A i \in (k + 1) .. Len(sent) : \A j \in 1 .. (HeaderLen + Len(sent[i])) :
          Stream'[pos[i] - start + j] = Frame(sent[i])[j]
    <3>1. \A i \in (k + 1) .. Len(sent) : \A j \in 1 .. (HeaderLen + Len(sent[i])) :
            Stream[pos[i] - start + j] = Frame(sent[i])[j]
      BY <1>0 DEF Pending
    <3> HIDE DEF start
    <3> QED
      BY <1>6, <1>7, <3>1
  <2> HIDE DEF start, end
  <2>2. Len(Stream') - (end - start) = n /\ Len(Stream') - n = Len(Stream)
    BY <1>4, <1>6, <1>7
  <2>3. \A j \in 1 .. n : Stream'[Len(Stream') - n + j] = Frame(p)[j]
    BY <1>6, <2>2
  <2> QED
    BY <1>1, <1>4, <2>1, <2>2, <2>3 DEF Pending, start, end
<1> QED
  BY <1>1, <1>8, <1>9 DEF StreamSound

LEMMA StreamInit == Init => StreamInv
<1> SUFFICES ASSUME Init
             PROVE  StreamSound /\ ~torn
  BY DEF StreamInv
<1>1. /\ sent = <<>> /\ delivered = <<>> /\ Stream = <<>> /\ ~torn /\ ~closed
      /\ Len(sent) = 0 /\ Len(delivered) = 0 /\ Len(Stream) = 0
  BY ConcatEmptySeq DEF Init, Stream
<1>2. PICK pos : pos = [i \in 1 .. 1 |-> 0]
  OBVIOUS
<1>3. Offsets(pos)
  BY <1>1, <1>2 DEF Offsets
<1>4. Pending(pos)
  BY <1>1, <1>2 DEF Pending
<1>5. delivered = SubSeq(sent, 1, Len(delivered))
  BY <1>1, SubSeqEmpty
<1> QED
  BY <1>1, <1>3, <1>4, <1>5 DEF StreamSound

LEMMA StreamNext ==
  ASSUME Typed, StreamInv, [Next]_vars
  PROVE  StreamInv'
<1>1. ASSUME NEW p \in Payloads, SendPacket(p)
      PROVE  StreamInv'
  <2>1. Whole' => ~torn /\ StreamSound
    BY <1>1 DEF SendPacket, StreamInv, Whole
  <2>2. Whole' => StreamSound'
    BY <1>1, <2>1, SendSound
  <2> QED
    BY <1>1, <2>2 DEF SendPacket, StreamInv
<1>2. ASSUME NEW p \in Payloads, SendFails(p)
      PROVE  StreamInv'
  <2>1. Whole' => ~torn /\ StreamSound
    BY <1>2 DEF SendFails, StreamInv, Whole
  <2>2. Whole' => StreamSound'
    BY <1>2, <2>1, FailSound
  <2> QED
    BY <1>2, <2>2 DEF SendFails, StreamInv
<1>3. CASE ReceiverStep \/ UNCHANGED vars
  <2>1. UNCHANGED <<sender, torn, connected, sent, large>>
    BY <1>3 DEF ReceiverStep, Receive, GiveUp, TakePacket, StopParsing, vars
  <2>2. ASSUME StreamSound
        PROVE  StreamSound'
    <3>1. CASE Receive
      <4>1. UNCHANGED <<sent, delivered, torn, large, closed>>
        BY <3>1 DEF Receive
      <4> QED
        BY <2>2, <3>1, <4>1, StreamRead, SameStreamSound
    <3>2. CASE GiveUp
      BY <2>2, <3>2, GiveUpSound
    <3>3. CASE TakePacket
      BY <2>2, <3>3, TakeSound
    <3>4. CASE StopParsing \/ UNCHANGED vars
      <4>1. Stream' = Stream /\ UNCHANGED <<sent, delivered, torn, large, closed>>
        BY <3>4 DEF StopParsing, vars, Stream
      <4> QED
        BY <2>2, <4>1, SameStreamSound
    <3> QED
      BY <1>3, <3>1, <3>2, <3>3, <3>4 DEF ReceiverStep
  <2> QED
    BY <2>1, <2>2 DEF StreamInv, Whole
<1> QED
  BY <1>1, <1>2, <1>3 DEF Next

LEMMA StreamInvariant == Spec => []StreamInv
  BY TypeCorrect, StreamInit, StreamNext, PTL DEF Spec

\* However a stream is cut into reads, sendRawPacket and getCompletePackets (and
\* TestBot's two loops) agree: what comes out of it is what was sent, in order.
THEOREM PacketsInOrder == Spec => []DeliveredInOrder
<1>1. StreamInv => DeliveredInOrder
  BY DEF StreamInv, StreamSound, DeliveredInOrder
<1> QED
  BY <1>1, StreamInvariant, PTL

\* No receiver takes the inside of a packet for a length: it gives up a whole
\* stream only for a packet that is too large.
THEOREM GivesUpOnlyForCause == Spec => []GivesUpForCause
<1>1. StreamInv => GivesUpForCause
  BY DEF StreamInv, StreamSound, GivesUpForCause
<1> QED
  BY <1>1, StreamInvariant, PTL

-----------------------------------------------------------------------------
(* The channel. *)

\* What is taken out of the buffer of a whole stream is the packet that is next
\* in the channel, if it is a packet at all.
LEMMA TakeDelivers ==
  ASSUME Typed, StreamInv, StreamInv', Whole, Whole', TakePacket
  PROVE  \/ delivered' = delivered
         \/ /\ Len(delivered) < Len(sent)
            /\ delivered' = Append(delivered, sent[Len(delivered) + 1])
<1> DEFINE p == SubSeq(recvBuffer, HeaderLen + 1, HeaderLen + packetLen)
           n == Len(delivered)
<1>1. delivered' \in {delivered, Append(delivered, p)} /\ sent' = sent
  BY DEF TakePacket
<1>2. delivered' = SubSeq(sent, 1, Len(delivered')) /\ Len(delivered') <= Len(sent)
  BY <1>1 DEF StreamInv, StreamSound
<1>3. CASE delivered' = Append(delivered, p)
  <2> HIDE DEF p
  <2>1. delivered \in Seq(Payloads \cup {<<>>}) /\ n \in Nat /\ sent \in Seq(Payloads)
    BY DEF Typed
  <2>2. delivered \in Seq(Payloads \cup {<<>>} \cup {p})
    BY <2>1
  <2>3. Len(delivered') = n + 1 /\ delivered'[n + 1] = p
    BY <1>3, <2>2
  <2>4. n + 1 <= Len(sent) /\ p = SubSeq(sent, 1, n + 1)[n + 1]
    BY <1>2, <2>3
  <2>5. p = sent[n + 1]
    BY <2>1, <2>4
  <2> QED
    BY <1>3, <2>1, <2>4, <2>5
<1> QED
  BY <1>1, <1>3

\* A receiver that gave up takes nothing apart any more.
OpenWhileParsing == parsing => ~closed

LEMMA OpenInit == Init => OpenWhileParsing
  BY DEF Init, OpenWhileParsing

LEMMA OpenNext ==
  ASSUME OpenWhileParsing, [Next]_vars
  PROVE  OpenWhileParsing'
<1>1. CASE ReceiverStep \/ UNCHANGED vars
  BY <1>1 DEF ReceiverStep, Receive, GiveUp, TakePacket, StopParsing, vars, OpenWhileParsing
<1>2. CASE \E p \in Payloads : SendPacket(p) \/ SendFails(p)
  BY <1>2 DEF SendPacket, SendFails, OpenWhileParsing
<1> QED
  BY <1>1, <1>2 DEF Next

LEMMA ChannelInit == Init => Promise!Init
  BY DEF Init, Promise!Init, Whole

\* Every step of the ends is one of the channel, or none.
LEMMA ChannelNext ==
  ASSUME Typed, OpenWhileParsing, StreamInv, StreamInv', [Next]_vars
  PROVE  [Promise!Next]_(Promise!vars)
<1> USE DEF Promise!vars
<1>1. CASE ~Whole
  <2>1. torn' /\ sender' = sender
    BY <1>1
    DEF Next, ReceiverStep, SendPacket, SendFails, Receive, GiveUp, TakePacket, StopParsing,
        vars, Whole
  <2>2. ~Whole'
    BY <1>1, <2>1 DEF Whole
  <2> QED
    BY <1>1, <2>2 DEF Promise!Next, Promise!Torn
<1>2. ASSUME Whole, NEW p \in Payloads, SendPacket(p)
      PROVE  Promise!Next
  <2>1. Whole' /\ sent' = Append(sent, p) /\ UNCHANGED <<delivered, closed>>
    BY <1>2 DEF SendPacket, Whole
  <2> QED
    BY <1>2, <2>1 DEF Promise!Next, Promise!Send
<1>3. ASSUME Whole, NEW p \in Payloads, SendFails(p)
      PROVE  [Promise!Next]_(Promise!vars)
  <2>1. UNCHANGED <<sent, delivered, closed>>
    BY <1>3 DEF SendFails
  <2>2. CASE Whole'
    BY <1>3, <2>1, <2>2
  <2>3. CASE ~Whole'
    BY <1>3, <2>1, <2>3 DEF Promise!Next, Promise!Tear
  <2> QED
    BY <2>2, <2>3
<1>4. ASSUME Whole, ReceiverStep \/ UNCHANGED vars
      PROVE  [Promise!Next]_(Promise!vars)
  <2>1. Whole' /\ sent' = sent
    BY <1>4 DEF ReceiverStep, Receive, GiveUp, TakePacket, StopParsing, vars, Whole
  <2>2. CASE Receive \/ StopParsing \/ UNCHANGED vars
    <3>1. UNCHANGED <<delivered, closed>>
      BY <2>2 DEF Receive, StopParsing, vars
    <3> QED
      BY <1>4, <2>1, <3>1
  <2>3. CASE GiveUp
    <3>1. ~closed /\ closed' /\ delivered' = delivered
      BY <2>3 DEF GiveUp, OpenWhileParsing
    <3> QED
      BY <1>4, <2>1, <3>1 DEF Promise!Next, Promise!GiveUp
  <2>4. CASE TakePacket
    <3>1. ~closed /\ closed' = closed
      BY <2>4 DEF TakePacket, OpenWhileParsing
    <3>2. \/ delivered' = delivered
          \/ /\ Len(delivered) < Len(sent)
             /\ delivered' = Append(delivered, sent[Len(delivered) + 1])
      BY <1>4, <2>1, <2>4, TakeDelivers
    <3> QED
      BY <1>4, <2>1, <3>1, <3>2 DEF Promise!Next, Promise!Deliver
  <2> QED
    BY <1>4, <2>2, <2>3, <2>4 DEF ReceiverStep
<1> QED
  BY <1>1, <1>2, <1>3, <1>4 DEF Next

\* sendRawPacket at one end, getCompletePackets or the TestBot's loop at the other,
\* and the bytes between them implement the channel: whole packets, in order, one
\* at a time, none after the receiver gave up.
THEOREM ChannelImplemented == Spec => ChannelKept
<1>1. Typed /\ OpenWhileParsing /\ StreamInv /\ [Next]_vars =>
        Typed' /\ OpenWhileParsing' /\ StreamInv'
  BY TypedNext, OpenNext, StreamNext
<1>2. Typed /\ OpenWhileParsing /\ StreamInv /\ [Next]_vars => [Promise!Next]_(Promise!vars)
  BY <1>1, ChannelNext
<1> QED
  BY <1>1, <1>2, TypedInit, OpenInit, StreamInit, ChannelInit, PTL DEF Spec, ChannelKept, Promise!Spec
=============================================================================
