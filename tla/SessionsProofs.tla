--------------------------- MODULE SessionsProofs ---------------------------
(***************************************************************************)
(* Proofs about Sessions, for every number of connections and packets.     *)
(***************************************************************************)
EXTENDS Sessions, SequenceTheorems, TLAPS

-----------------------------------------------------------------------------
(* What a client knows, packet by packet. *)

\* Queueing one more packet settles what the client will know of the actors it
\* names, and nothing else.
LEMMA KnowsAppend ==
  ASSUME NEW T, NEW q \in Seq(T), NEW m \in T, NEW S, NEW a
  PROVE  KnowsAfter(Append(q, m), S, a) <=>
           IF a \in m.ids THEN m.type # "despawn" ELSE KnowsAfter(q, S, a)
<1> DEFINE p == Append(q, m)
<1>1. Len(p) = Len(q) + 1 /\ Len(q) \in Nat
  OBVIOUS
<1>2. p[Len(p)] = m
  BY <1>1
<1>3. \A i \in 1 .. Len(q) : p[i] = q[i]
  OBVIOUS
<1>4. CASE a \in m.ids
  <2>1. \A i \in 1 .. Len(p) :
          (\A j \in (i + 1) .. Len(p) : a \notin p[j].ids) => i = Len(p)
    BY <1>1, <1>2, <1>4
  <2>2. KnowsAfter(p, S, a) <=> m.type # "despawn"
    BY <1>1, <1>2, <1>4, <2>1 DEF KnowsAfter
  <2> QED
    BY <1>4, <2>2
<1>5. CASE a \notin m.ids
  <2>1. ASSUME NEW i \in 1 .. Len(q)
        PROVE  (\A j \in (i + 1) .. Len(p) : a \notin p[j].ids)
                 <=> (\A j \in (i + 1) .. Len(q) : a \notin q[j].ids)
    BY <1>1, <1>2, <1>3, <1>5
  <2>2. (\A i \in 1 .. Len(p) : a \notin p[i].ids) <=> (\A i \in 1 .. Len(q) : a \notin q[i].ids)
    BY <1>1, <1>2, <1>3, <1>5
  <2>3. (\E i \in 1 .. Len(p) : /\ a \in p[i].ids
                                /\ p[i].type # "despawn"
                                /\ \A j \in (i + 1) .. Len(p) : a \notin p[j].ids)
        <=> (\E i \in 1 .. Len(q) : /\ a \in q[i].ids
                                    /\ q[i].type # "despawn"
                                    /\ \A j \in (i + 1) .. Len(q) : a \notin q[j].ids)
    BY <1>1, <1>2, <1>3, <1>5, <2>1
  <2> QED
    BY <1>5, <2>2, <2>3 DEF KnowsAfter
<1> QED
  BY <1>4, <1>5

\* Reading a packet does not change what the client will know in the end.
LEMMA KnowsTail ==
  ASSUME NEW T, NEW q \in Seq(T), q # <<>>, NEW S, NEW a
  PROVE  KnowsAfter(Tail(q), Apply(S, Head(q)), a) <=> KnowsAfter(q, S, a)
<1> DEFINE t == Tail(q)
<1>1. Len(t) = Len(q) - 1 /\ Len(q) \in Nat \ {0} /\ Len(t) \in Nat
  OBVIOUS
<1>2. \A i \in 1 .. Len(t) : t[i] = q[i + 1]
  OBVIOUS
<1>3. \A i \in 2 .. Len(q) : i - 1 \in 1 .. Len(t) /\ q[i] = t[i - 1]
  BY <1>1, <1>2
<1>4. Head(q) = q[1]
  OBVIOUS
<1>5. ASSUME NEW i \in 1 .. Len(t)
      PROVE  (\A j \in (i + 1) .. Len(t) : a \notin t[j].ids)
               <=> (\A j \in ((i + 1) + 1) .. Len(q) : a \notin q[j].ids)
  <2>1. ASSUME \A j \in (i + 1) .. Len(t) : a \notin t[j].ids,
               NEW j \in ((i + 1) + 1) .. Len(q)
        PROVE  a \notin q[j].ids
    <3>1. j - 1 \in (i + 1) .. Len(t) /\ j \in 2 .. Len(q)
      BY <1>1
    <3> QED
      BY <1>3, <2>1, <3>1
  <2>2. ASSUME \A j \in ((i + 1) + 1) .. Len(q) : a \notin q[j].ids,
               NEW j \in (i + 1) .. Len(t)
        PROVE  a \notin t[j].ids
    <3>1. j + 1 \in ((i + 1) + 1) .. Len(q) /\ j \in 1 .. Len(t)
      BY <1>1
    <3> QED
      BY <1>2, <2>2, <3>1
  <2> QED
    BY <2>1, <2>2
<1>6. (\A i \in 1 .. Len(t) : a \notin t[i].ids) <=> (\A i \in 2 .. Len(q) : a \notin q[i].ids)
  <2>1. ASSUME NEW i \in 1 .. Len(t) PROVE i + 1 \in 2 .. Len(q)
    BY <1>1
  <2> QED
    BY <1>2, <1>3, <2>1
<1> DEFINE Last(s, i) == /\ a \in s[i].ids
                         /\ s[i].type # "despawn"
                         /\ \A j \in (i + 1) .. Len(s) : a \notin s[j].ids
<1>7. (\E i \in 1 .. Len(t) : Last(t, i)) <=> (\E i \in 2 .. Len(q) : Last(q, i))
  <2>1. ASSUME NEW i \in 1 .. Len(t), Last(t, i)
        PROVE  i + 1 \in 2 .. Len(q) /\ Last(q, i + 1)
    BY <1>1, <1>2, <1>5, <2>1
  <2>2. ASSUME NEW i \in 2 .. Len(q), Last(q, i)
        PROVE  i - 1 \in 1 .. Len(t) /\ Last(t, i - 1)
    <3>1. i - 1 \in 1 .. Len(t) /\ q[i] = t[i - 1] /\ (i - 1) + 1 = i
      BY <1>3
    <3>2. \A j \in ((i - 1) + 1) .. Len(t) : a \notin t[j].ids
      BY <1>5, <2>2, <3>1
    <3> QED
      BY <2>2, <3>1, <3>2
  <2> QED
    BY <2>1, <2>2
<1>8. (\E i \in 1 .. Len(q) : Last(q, i)) <=> Last(q, 1) \/ (\E i \in 2 .. Len(q) : Last(q, i))
  BY <1>1
<1>9. Last(q, 1) <=> /\ a \in q[1].ids
                     /\ q[1].type # "despawn"
                     /\ \A i \in 2 .. Len(q) : a \notin q[i].ids
  OBVIOUS
<1>10. (\A i \in 1 .. Len(q) : a \notin q[i].ids)
         <=> a \notin q[1].ids /\ \A i \in 2 .. Len(q) : a \notin q[i].ids
  BY <1>1
<1>11. KnowsAfter(q, S, a) <=>
         (\E i \in 1 .. Len(q) : Last(q, i)) \/ (a \in S /\ \A i \in 1 .. Len(q) : a \notin q[i].ids)
  BY DEF KnowsAfter
<1>12. KnowsAfter(t, Apply(S, Head(q)), a) <=>
         \/ \E i \in 1 .. Len(t) : Last(t, i)
         \/ a \in Apply(S, Head(q)) /\ \A i \in 1 .. Len(t) : a \notin t[i].ids
  BY DEF KnowsAfter
<1>13. a \in Apply(S, Head(q)) <=> IF a \in q[1].ids THEN q[1].type # "despawn" ELSE a \in S
  BY <1>4 DEF Apply
<1> HIDE DEF Last
<1> QED
  BY <1>6, <1>7, <1>8, <1>9, <1>10, <1>11, <1>12, <1>13

-----------------------------------------------------------------------------
(* Types. *)

\* A client stops after an oversize frame, so one can only be the last frame on
\* its way; without this a batch could hold a frame no handler takes.
OversizeLast ==
  \A c \in ConnId : \A i \in 1 .. Len(inbox[c]) :
    inbox[c][i] = "oversize" =>
      i = Len(inbox[c]) /\ (peer[c] # "closed" => said[c] = "oversize")

\* Ids that are still to be given out belong to nobody.
NotYetOpen == \A c \in ConnId : c >= nextConnectionId => peer[c] = "none"

Typed == TypeOK /\ OversizeLast /\ NotYetOpen

LEMMA PacketTypes ==
  ASSUME NEW a \in ActorId
  PROVE  Spawn(a) \in ServerPacket /\ Despawn(a) \in ServerPacket
BY DEF Spawn, Despawn, ServerPacket

\* A broadcast keeps the streams well-typed and changes only the recipients'.
LEMMA BroadcastType ==
  ASSUME TypeOK, NEW c \in ConnId, NEW m \in ServerPacket
  PROVE  Broadcast(c, m) \in [ConnId -> Seq(ServerPacket)]
<1>1. \A d \in ConnId : out[d] \in Seq(ServerPacket) /\ Append(out[d], m) \in Seq(ServerPacket)
  BY DEF TypeOK
<1> QED
  BY <1>1 DEF Broadcast

\* Losing a character keeps the game state well-typed.
LEMMA OnDisconnectType ==
  ASSUME TypeOK, NEW c \in ConnId, OnDisconnect(c)
  PROVE  /\ connToCharacter' \in [ConnId -> Nat]
         /\ actors' \subseteq ActorId
         /\ out' \in [ConnId -> Seq(ServerPacket)]
<1>1. CASE connToCharacter[c] = NoActor
  BY <1>1 DEF OnDisconnect, TypeOK
<1>2. CASE connToCharacter[c] # NoActor
  <2>1. connToCharacter[c] \in ActorId
    BY <1>2 DEF TypeOK, ActorId, NoActor
  <2>2. Despawn(connToCharacter[c]) \in ServerPacket
    BY <2>1, PacketTypes
  <2>3. out' \in [ConnId -> Seq(ServerPacket)]
    BY <1>2, <2>2, BroadcastType DEF OnDisconnect
  <2>4. connToCharacter' \in [ConnId -> Nat] /\ actors' \subseteq ActorId
    BY <1>2 DEF OnDisconnect, TypeOK, NoActor
  <2> QED
    BY <2>3, <2>4
<1> QED
  BY <1>1, <1>2

\* The list of the characters already there names actors only.
LEMMA ListType ==
  ASSUME TypeOK, NEW c \in ConnId
  PROVE  ActorList(OtherCharacters(c)) \in ServerPacket
BY DEF TypeOK, OtherCharacters, ActorList, ServerPacket, ActorId, NoActor

\* What a read hands over for handling are whole login and logout packets.
LEMMA ReadType ==
  ASSUME Typed, NEW c \in ConnId, NEW n \in 0 .. Len(inbox[c]), Read(c, n)
  PROVE  /\ batch' \in Seq({"login", "logout"})
         /\ inbox' \in [ConnId -> Seq(ClientPacket)]
         /\ OversizeLast'
<1> DEFINE s == inbox[c]
           k == IF n > 0 /\ s[n] = "oversize" THEN n - 1 ELSE n
<1>1. s \in Seq(ClientPacket) /\ Len(s) \in Nat /\ n \in Nat /\ n <= Len(s)
  BY DEF Typed, TypeOK
<1>2. \A i \in 1 .. Len(s) : s[i] \in ClientPacket
  BY <1>1
<1>3. k \in 0 .. Len(s) /\ k <= n
  BY <1>1
<1>4. ASSUME NEW i \in 1 .. k
      PROVE  s[i] \in {"login", "logout"}
  <2>1. i \in 1 .. Len(s)
    BY <1>1, <1>3
  <2>2. s[i] = "oversize" => i = Len(s)
    BY <2>1 DEF Typed, OversizeLast
  <2>3. s[i] # "oversize"
    BY <1>1, <1>3, <2>1, <2>2
  <2> QED
    BY <1>2, <2>1, <2>3 DEF ClientPacket
<1>5. batch' = SubSeq(s, 1, k)
  BY DEF Read
<1>6. batch' = [i \in 1 .. k |-> s[i]]
  BY <1>1, <1>3, <1>5
<1>7. batch' \in Seq({"login", "logout"})
  BY <1>3, <1>4, <1>6
<1> DEFINE r == SubSeq(s, n + 1, Len(s))
<1>8. r \in Seq(ClientPacket) /\ Len(r) = Len(s) - n
      /\ \A i \in 1 .. Len(r) : r[i] = s[i + n]
  BY <1>1, <1>2
<1>9. inbox' = [inbox EXCEPT ![c] = r]
  BY DEF Read
<1>10. inbox' \in [ConnId -> Seq(ClientPacket)]
  BY <1>8, <1>9 DEF Typed, TypeOK
<1>11. OversizeLast'
  <2> SUFFICES ASSUME NEW d \in ConnId, NEW i \in 1 .. Len(inbox'[d]), inbox'[d][i] = "oversize"
               PROVE  i = Len(inbox'[d]) /\ (peer[d] # "closed" => said[d] = "oversize")
    BY DEF OversizeLast, Read, clientVars
  <2>1. CASE d # c
    <3>1. inbox'[d] = inbox[d]
      BY <1>9, <2>1 DEF Typed, TypeOK
    <3> QED
      BY <3>1 DEF Typed, OversizeLast
  <2>2. CASE d = c
    <3>1. inbox'[d] = r
      BY <1>9, <2>2 DEF Typed, TypeOK
    <3>2. i + n \in 1 .. Len(s) /\ s[i + n] = "oversize"
      BY <1>1, <1>8, <3>1
    <3>3. i + n = Len(s) /\ (peer[c] # "closed" => said[c] = "oversize")
      BY <3>2 DEF Typed, OversizeLast
    <3> QED
      BY <1>1, <1>8, <2>2, <3>1, <3>3
  <2> QED
    BY <2>1, <2>2
<1> QED
  BY <1>7, <1>10, <1>11

\* A sequence without its last element.
LEMMA WithoutLast ==
  ASSUME NEW T, NEW q \in Seq(T), q # <<>>
  PROVE  /\ SubSeq(q, 1, Len(q) - 1) \in Seq(T)
         /\ Len(SubSeq(q, 1, Len(q) - 1)) = Len(q) - 1
         /\ \A i \in 1 .. (Len(q) - 1) : SubSeq(q, 1, Len(q) - 1)[i] = q[i]
<1>1. PICK n \in Nat : n = Len(q) - 1
  BY EmptySeq, LenProperties
<1>2. \A i \in 1 .. n : q[i] \in T
  BY <1>1, ElementOfSeq
<1>3. /\ SubSeq(q, 1, n) \in Seq(T)
      /\ Len(SubSeq(q, 1, n)) = n
      /\ \A i \in 1 .. n : SubSeq(q, 1, n)[i] = q[i]
  BY <1>1, <1>2, SubSeqProperties
<1> QED
  BY <1>1, <1>3

\* Dropping the last packet of a stream leaves its beginning, and the others.
LEMMA DroppedType ==
  ASSUME TypeOK, NEW c \in ConnId, SendDropped(c)
  PROVE  /\ out' \in [ConnId -> Seq(ServerPacket)]
         /\ Len(out'[c]) <= Len(out[c])
         /\ \A i \in 1 .. Len(out'[c]) : out'[c][i] = out[c][i]
         /\ \A d \in ConnId \ {c} : out'[d] = out[d]
<1>1. out[c] \in Seq(ServerPacket) /\ out[c] # <<>>
  BY DEF SendDropped, TypeOK
<1>2. out' = [out EXCEPT ![c] = SubSeq(out[c], 1, Len(out[c]) - 1)]
  BY DEF SendDropped
<1>3. /\ SubSeq(out[c], 1, Len(out[c]) - 1) \in Seq(ServerPacket)
      /\ Len(SubSeq(out[c], 1, Len(out[c]) - 1)) = Len(out[c]) - 1
      /\ \A i \in 1 .. (Len(out[c]) - 1) : SubSeq(out[c], 1, Len(out[c]) - 1)[i] = out[c][i]
  BY <1>1, WithoutLast
<1> QED
  BY <1>1, <1>2, <1>3 DEF TypeOK

LEMMA TypedInit == Init => Typed
<1> SUFFICES ASSUME Init PROVE Typed
  OBVIOUS
<1>1. TypeOK
  BY ConstantsAssumption DEF Init, TypeOK, ConnId, ActorId, NoActor
<1>2. OversizeLast /\ NotYetOpen
  BY DEF Init, OversizeLast, NotYetOpen
<1> QED
  BY <1>1, <1>2 DEF Typed

LEMMA TypedNext == Typed /\ [Next]_vars => Typed'
<1> SUFFICES ASSUME Typed, [Next]_vars
             PROVE  Typed'
  OBVIOUS
<1> USE DEF Typed
<1>1. CASE Accept
  <2>1. TypeOK'
    <3>1. peer' \in [ConnId -> {"none", "open", "closed"}]
      BY <1>1 DEF Accept, TypeOK
    <3>2. connections' \subseteq ConnId /\ nextConnectionId' \in 1 .. (MaxConns + 1)
      BY <1>1, ConstantsAssumption DEF Accept, TypeOK, ConnId
    <3> QED
      BY <1>1, <3>1, <3>2 DEF Accept, TypeOK, loopVars, gameVars, wireVars
  <2>2. OversizeLast'
    <3> SUFFICES ASSUME NEW c \in ConnId, NEW i \in 1 .. Len(inbox[c]), inbox[c][i] = "oversize"
                 PROVE  i = Len(inbox[c]) /\ (peer'[c] # "closed" => said[c] = "oversize")
      BY <1>1 DEF Accept, OversizeLast, wireVars
    <3>1. i = Len(inbox[c]) /\ (peer[c] # "closed" => said[c] = "oversize")
      BY DEF OversizeLast
    <3> QED
      BY <1>1, <3>1 DEF Accept, TypeOK, NotYetOpen, ConnId
  <2>3. NotYetOpen'
    BY <1>1 DEF Accept, TypeOK, NotYetOpen, ConnId
  <2> QED
    BY <2>1, <2>2, <2>3
<1>2. CASE BeginRead
  BY <1>2, ConstantsAssumption
  DEF BeginRead, TypeOK, OversizeLast, NotYetOpen, netVars, gameVars, wireVars, clientVars
<1>3. CASE EndRead
  BY <1>3 DEF EndRead, TypeOK, OversizeLast, NotYetOpen, netVars, gameVars, wireVars, clientVars
<1>4. CASE EndPoll
  BY <1>4, ConstantsAssumption
  DEF EndPoll, TypeOK, OversizeLast, NotYetOpen, netVars, gameVars, wireVars, clientVars
<1>5. ASSUME NEW c \in ConnId, ReadConnection(c)
      PROVE  Typed'
  <2>1. PICK n \in 0 .. Len(inbox[c]) : Read(c, n)
    BY <1>5 DEF ReadConnection
  <2>2. /\ batch' \in Seq({"login", "logout"})
        /\ inbox' \in [ConnId -> Seq(ClientPacket)]
        /\ OversizeLast'
    BY <2>1, ReadType
  <2>3. cursor' \in 0 .. MaxConns /\ disconnected' \in [ConnId -> BOOLEAN]
    BY <2>1, ConstantsAssumption DEF Read, TypeOK, ConnId
  <2> QED
    BY <2>1, <2>2, <2>3 DEF Read, TypeOK, NotYetOpen, gameVars, clientVars
<1>6. ASSUME NEW c \in ConnId, HandleLogin(c)
      PROVE  Typed'
  <2>1. Spawn(nextActorId) \in ServerPacket
    BY PacketTypes DEF TypeOK
  <2>2. ActorList(OtherCharacters(c)) \in ServerPacket
    BY ListType
  <2>3. Broadcast(c, Spawn(nextActorId)) \in [ConnId -> Seq(ServerPacket)]
    BY <2>1, BroadcastType
  <2>4. out' \in [ConnId -> Seq(ServerPacket)]
    BY <1>6, <2>2, <2>3 DEF HandleLogin
  <2>5. batch' \in Seq({"login", "logout"})
    BY <1>6 DEF HandleLogin, NextPacket, TypeOK
  <2>6. /\ nextActorId' \in ActorId
        /\ actors' \subseteq ActorId
        /\ connToCharacter' \in [ConnId -> Nat]
    BY <1>6 DEF HandleLogin, TypeOK, ActorId
  <2> QED
    BY <1>6, <2>4, <2>5, <2>6 DEF HandleLogin, TypeOK, OversizeLast, NotYetOpen, netVars, clientVars
<1>7. ASSUME NEW c \in ConnId, HandleLogout(c)
      PROVE  Typed'
  <2>1. /\ connToCharacter' \in [ConnId -> Nat]
        /\ actors' \subseteq ActorId
        /\ out' \in [ConnId -> Seq(ServerPacket)]
    BY <1>7, OnDisconnectType DEF HandleLogout
  <2>2. batch' \in Seq({"login", "logout"}) /\ disconnected' \in [ConnId -> BOOLEAN]
    BY <1>7 DEF HandleLogout, NextPacket, TypeOK
  <2>3. UNCHANGED <<connections, nextConnectionId, nextActorId, peer, inbox, said, stream>>
    BY <1>7 DEF HandleLogout, wireVars, clientVars
  <2> QED
    BY <1>7, <2>1, <2>2, <2>3 DEF HandleLogout, TypeOK, OversizeLast, NotYetOpen, clientVars
<1>8. ASSUME NEW c \in ConnId, RemoveDisconnected(c)
      PROVE  Typed'
  <2>1. /\ connToCharacter' \in [ConnId -> Nat]
        /\ actors' \subseteq ActorId
        /\ out' \in [ConnId -> Seq(ServerPacket)]
    BY <1>8, OnDisconnectType DEF RemoveDisconnected
  <2>2. inbox' \in [ConnId -> Seq(ClientPacket)]
    BY <1>8 DEF RemoveDisconnected, TypeOK
  <2>3. OversizeLast'
    <3>1. \A d \in ConnId : inbox'[d] = IF d = c THEN <<>> ELSE inbox[d]
      BY <1>8 DEF RemoveDisconnected, TypeOK
    <3> QED
      BY <1>8, <3>1 DEF RemoveDisconnected, OversizeLast, clientVars
  <2> QED
    BY <1>8, <2>1, <2>2, <2>3 DEF RemoveDisconnected, TypeOK, NotYetOpen, loopVars, clientVars
<1>9. ASSUME NEW c \in ConnId, NEW m \in ClientPacket, ClientSend(c, m)
      PROVE  Typed'
  <2>1. inbox[c] \in Seq(ClientPacket) /\ Append(inbox[c], m) \in Seq(ClientPacket)
    BY DEF TypeOK
  <2>2. \A d \in ConnId : inbox'[d] = IF d = c THEN Append(inbox[c], m) ELSE inbox[d]
    BY <1>9 DEF ClientSend, TypeOK
  <2>3. inbox' \in [ConnId -> Seq(ClientPacket)]
    BY <1>9, <2>1 DEF ClientSend, TypeOK
  <2>4. OversizeLast'
    <3> SUFFICES ASSUME NEW d \in ConnId, NEW i \in 1 .. Len(inbox'[d]), inbox'[d][i] = "oversize"
                 PROVE  i = Len(inbox'[d]) /\ (peer[d] # "closed" => said'[d] = "oversize")
      BY <1>9 DEF ClientSend, OversizeLast
    <3>1. CASE d # c
      BY <1>9, <2>2, <3>1 DEF ClientSend, TypeOK, OversizeLast
    <3>2. CASE d = c
      <4> DEFINE s == inbox[c]
      <4>0. inbox'[c] = Append(s, m) /\ s \in Seq(ClientPacket)
        BY <2>1, <2>2
      <4> HIDE DEF s
      <4>1. Len(inbox'[c]) = Len(s) + 1 /\ Len(s) \in Nat
        BY <4>0
      <4>2. \A j \in 1 .. Len(s) : inbox'[c][j] = s[j]
        BY <4>0
      <4>3. \A j \in 1 .. Len(s) : s[j] # "oversize"
        BY <1>9 DEF ClientSend, OversizeLast, s
      <4>4. i = Len(inbox'[c])
        BY <3>2, <4>1, <4>2, <4>3
      <4>5. inbox'[c][Len(inbox'[c])] = m
        BY <4>0, <4>1
      <4> QED
        BY <1>9, <3>2, <4>4, <4>5 DEF ClientSend, TypeOK
    <3> QED
      BY <3>1, <3>2
  <2>5. said' \in [ConnId -> ClientPacket \cup {"none"}] /\ sent' \in 0 .. MaxSends
    BY <1>9, ConstantsAssumption DEF ClientSend, TypeOK
  <2> QED
    BY <1>9, <2>3, <2>4, <2>5 DEF ClientSend, TypeOK, NotYetOpen, loopVars, netVars, gameVars
<1>10. ASSUME NEW c \in ConnId, ClientReceive(c)
       PROVE  Typed'
  <2>1. out[c] \in Seq(ServerPacket) /\ out[c] # <<>>
    BY <1>10 DEF ClientReceive, TypeOK
  <2>2. Head(out[c]) \in ServerPacket /\ Tail(out[c]) \in Seq(ServerPacket)
    BY <2>1
  <2>3. Apply(otherActors[c], Head(out[c])) \subseteq ActorId
    BY <2>2 DEF Apply, ServerPacket, TypeOK
  <2>4. out' \in [ConnId -> Seq(ServerPacket)] /\ otherActors' \in [ConnId -> SUBSET ActorId]
    BY <1>10, <2>2, <2>3 DEF ClientReceive, TypeOK
  <2> QED
    BY <1>10, <2>4 DEF ClientReceive, TypeOK, OversizeLast, NotYetOpen, loopVars, netVars, gameVars
<1>11. ASSUME NEW c \in ConnId, ClientClose(c)
       PROVE  Typed'
  <2>1. PICK n \in 0 .. Len(inbox[c]) : inbox' = [inbox EXCEPT ![c] = SubSeq(@, 1, n)]
    BY <1>11 DEF ClientClose
  <2>2. inbox[c] \in Seq(ClientPacket) /\ n \in Nat /\ n <= Len(inbox[c])
    BY DEF TypeOK
  <2>3. /\ SubSeq(inbox[c], 1, n) \in Seq(ClientPacket)
        /\ Len(SubSeq(inbox[c], 1, n)) = n
        /\ \A i \in 1 .. n : SubSeq(inbox[c], 1, n)[i] = inbox[c][i]
    BY <2>2
  <2>4. inbox' \in [ConnId -> Seq(ClientPacket)]
    BY <2>1, <2>3 DEF TypeOK
  <2>5. OversizeLast'
    <3> SUFFICES ASSUME NEW d \in ConnId, NEW i \in 1 .. Len(inbox'[d]), inbox'[d][i] = "oversize"
                 PROVE  i = Len(inbox'[d]) /\ (peer'[d] # "closed" => said'[d] = "oversize")
      BY DEF OversizeLast
    <3>1. CASE d # c
      BY <1>11, <2>1, <3>1 DEF ClientClose, TypeOK, OversizeLast
    <3>2. CASE d = c
      <4>1. inbox'[c] = SubSeq(inbox[c], 1, n) /\ peer'[c] = "closed"
        BY <1>11, <2>1 DEF ClientClose, TypeOK
      <4>2. i \in 1 .. n /\ i \in 1 .. Len(inbox[c]) /\ inbox[c][i] = "oversize"
        BY <2>2, <2>3, <3>2, <4>1
      <4>3. i = Len(inbox[c])
        BY <4>2 DEF OversizeLast
      <4> QED
        BY <2>2, <2>3, <3>2, <4>1, <4>2, <4>3
    <3> QED
      BY <3>1, <3>2
  <2>6. /\ out' \in [ConnId -> Seq(ServerPacket)]
        /\ stream' \in [ConnId -> {"whole", "gaps", "torn"}]
        /\ peer' \in [ConnId -> {"none", "open", "closed"}]
        /\ said' \in [ConnId -> ClientPacket \cup {"none"}]
        /\ otherActors' \in [ConnId -> SUBSET ActorId]
    BY <1>11 DEF ClientClose, TypeOK
  <2> QED
    BY <1>11, <2>4, <2>5, <2>6 DEF ClientClose, TypeOK, NotYetOpen, loopVars, netVars, gameVars
<1>12. ASSUME NEW c \in ConnId, SendFails(c)
       PROVE  Typed'
  BY <1>12 DEF SendFails, TypeOK, OversizeLast, NotYetOpen, loopVars, netVars, gameVars, clientVars
<1>13. ASSUME NEW c \in ConnId, SendDropped(c)
       PROVE  Typed'
  <2>1. out' \in [ConnId -> Seq(ServerPacket)]
    BY <1>13, DroppedType
  <2> QED
    BY <1>13, <2>1
    DEF SendDropped, TypeOK, OversizeLast, NotYetOpen, loopVars, netVars, gameVars, clientVars
<1>14. CASE UNCHANGED vars
  BY <1>14
  DEF vars, loopVars, netVars, gameVars, wireVars, clientVars, TypeOK, OversizeLast, NotYetOpen
<1> QED
  BY <1>1, <1>2, <1>3, <1>4, <1>5, <1>6, <1>7, <1>8, <1>9, <1>10, <1>11, <1>12, <1>13, <1>14
  DEF Next, ServerStep, ClientStep

\* Every state of the server, its clients and the bytes between them is of the
\* declared kind; above all, no batch ever holds a packet no handler takes.
THEOREM TypeCorrect == Spec => []TypeOK
<1>1. Spec => []Typed
  BY TypedInit, TypedNext, PTL DEF Spec
<1>2. Typed => TypeOK
  BY DEF Typed
<1> QED
  BY <1>1, <1>2, PTL

-----------------------------------------------------------------------------
(* Characters and their connections. *)

\* Packets wait to be handled only while their connection is being read.
BatchOwned == batch # <<>> => pc = "read" /\ cursor \in connections

\* A connection that was never accepted has nothing.
Unborn ==
  \A c \in ConnId : c >= nextConnectionId =>
    /\ c \notin connections
    /\ ~disconnected[c]
    /\ connToCharacter[c] = NoActor
    /\ out[c] = <<>>
    /\ otherActors[c] = {}

SessionInv == Typed /\ CharactersRegistered /\ NoGhostSession /\ BatchOwned /\ Unborn

\* What onDisconnect comes down to, whether or not there was a character.
LEMMA OnDisconnectEffect ==
  ASSUME TypeOK, NEW c \in ConnId, OnDisconnect(c)
  PROVE  /\ connToCharacter' = [connToCharacter EXCEPT ![c] = NoActor]
         /\ actors' = actors \ {connToCharacter[c]}
         /\ \A d \in ConnId :
              out'[d] = IF connToCharacter[c] # NoActor /\ d \in Others(c) /\ Hears(d)
                        THEN Append(out[d], Despawn(connToCharacter[c]))
                        ELSE out[d]
<1>1. CASE connToCharacter[c] = NoActor
  <2>1. connToCharacter' = connToCharacter /\ actors' = actors /\ out' = out
    BY <1>1 DEF OnDisconnect
  <2> QED
    BY <1>1, <2>1 DEF TypeOK, ActorId, NoActor
<1>2. CASE connToCharacter[c] # NoActor
  BY <1>2 DEF OnDisconnect, Broadcast
<1> QED
  BY <1>1, <1>2

\* What handleLogin puts on every stream.
LEMMA LoginEffect ==
  ASSUME TypeOK, NEW c \in ConnId, HandleLogin(c), NEW d \in ConnId
  PROVE  out'[d] = IF d = c
                   THEN IF OtherCharacters(c) # {} /\ Hears(c)
                        THEN Append(out[c], ActorList(OtherCharacters(c)))
                        ELSE out[c]
                   ELSE IF d \in Others(c) /\ Hears(d)
                        THEN Append(out[d], Spawn(nextActorId))
                        ELSE out[d]
<1>1. \A e \in ConnId : Broadcast(c, Spawn(nextActorId))[e] =
        IF e \in Others(c) /\ Hears(e) THEN Append(out[e], Spawn(nextActorId)) ELSE out[e]
  BY DEF Broadcast
<1>2. c \notin Others(c)
  BY DEF Others
<1>3. DOMAIN Broadcast(c, Spawn(nextActorId)) = ConnId
  BY DEF Broadcast
<1> QED
  BY <1>1, <1>2, <1>3 DEF HandleLogin

LEMMA SessionInit == Init => SessionInv
<1> SUFFICES ASSUME Init PROVE SessionInv
  OBVIOUS
<1>1. Typed
  BY TypedInit
<1>2. CharactersRegistered /\ NoGhostSession /\ BatchOwned /\ Unborn
  BY DEF Init, CharactersRegistered, NoGhostSession, BatchOwned, Unborn, NoActor
<1> QED
  BY <1>1, <1>2 DEF SessionInv

LEMMA SessionNext == SessionInv /\ [Next]_vars => SessionInv'
<1> SUFFICES ASSUME SessionInv, [Next]_vars
             PROVE  SessionInv'
  OBVIOUS
<1>0. Typed' /\ TypeOK
  BY TypedNext DEF SessionInv, Typed
<1> USE DEF SessionInv
<1> DEFINE Rest == CharactersRegistered /\ NoGhostSession /\ BatchOwned /\ Unborn
<1>1. CASE Accept
  BY <1>0, <1>1
  DEF Accept, CharactersRegistered, NoGhostSession, BatchOwned, Unborn, TypeOK, ConnId,
      loopVars, gameVars, wireVars
<1>2. CASE BeginRead
  BY <1>0, <1>2
  DEF BeginRead, CharactersRegistered, NoGhostSession, BatchOwned, Unborn, TypeOK, ConnId,
      netVars, gameVars, wireVars, clientVars
<1>3. CASE EndRead
  BY <1>0, <1>3
  DEF EndRead, CharactersRegistered, NoGhostSession, BatchOwned, Unborn, TypeOK, ConnId,
      netVars, gameVars, wireVars, clientVars
<1>4. CASE EndPoll
  BY <1>0, <1>4
  DEF EndPoll, ToRemove, CharactersRegistered, NoGhostSession, BatchOwned, Unborn, TypeOK, ConnId,
      netVars, gameVars, wireVars, clientVars
<1>5. ASSUME NEW c \in ConnId, ReadConnection(c)
      PROVE  Rest'
  <2>1. PICK n \in 0 .. Len(inbox[c]) : Read(c, n)
    BY <1>5 DEF ReadConnection
  <2>2. /\ pc = "read" /\ pc' = "read" /\ c \in connections /\ cursor < c /\ cursor' = c
        /\ \A d \in ConnId : d # c => disconnected'[d] = disconnected[d]
        /\ UNCHANGED <<connections, nextConnectionId, connToCharacter, actors, nextActorId,
                       out, otherActors>>
    BY <1>0, <2>1 DEF Read, NextToRead, TypeOK, gameVars, clientVars
  <2>3. CharactersRegistered'
    BY <2>2 DEF CharactersRegistered
  <2>4. NoGhostSession'
    BY <1>0, <2>2 DEF NoGhostSession, TypeOK, ConnId
  <2>5. BatchOwned' /\ Unborn'
    BY <2>2 DEF BatchOwned, Unborn
  <2> QED
    BY <2>3, <2>4, <2>5
<1>6. ASSUME NEW c \in ConnId, HandleLogin(c)
      PROVE  Rest'
  <2>1. pc = "read" /\ c = cursor /\ c \in connections
    BY <1>6 DEF HandleLogin, NextPacket, BatchOwned
  <2>2. /\ connToCharacter' = [connToCharacter EXCEPT ![c] = nextActorId]
        /\ actors' = actors \cup {nextActorId}
        /\ nextActorId' = nextActorId + 1
        /\ UNCHANGED <<pc, cursor, netVars, otherActors>>
    BY <1>6 DEF HandleLogin, clientVars
  <2>3. CharactersRegistered'
    <3>1. nextActorId \notin actors /\ nextActorId \in Nat \ {0}
      BY <1>0 DEF CharactersRegistered, TypeOK, ActorId
    <3>2. \A a \in actors' : a < nextActorId'
      BY <1>0, <2>2 DEF CharactersRegistered, TypeOK, ActorId
    <3>3. \A d \in ConnId : connToCharacter'[d] # NoActor => connToCharacter'[d] \in actors'
      BY <1>0, <2>2 DEF CharactersRegistered, TypeOK
    <3>4. \A d \in ConnId : connToCharacter[d] # nextActorId
      BY <3>1 DEF CharactersRegistered, NoActor
    <3>5. ASSUME NEW d \in ConnId, NEW e \in ConnId, connToCharacter'[d] # NoActor,
                 connToCharacter'[d] = connToCharacter'[e]
          PROVE  d = e
      <4>1. \A x \in ConnId : connToCharacter'[x] = IF x = c THEN nextActorId ELSE connToCharacter[x]
        BY <1>0, <2>2 DEF TypeOK
      <4> QED
        BY <3>4, <3>5, <4>1 DEF CharactersRegistered
    <3> QED
      BY <3>2, <3>3, <3>5 DEF CharactersRegistered
  <2>4. NoGhostSession'
    BY <1>0, <2>1, <2>2 DEF NoGhostSession, TypeOK, ConnId, netVars
  <2>5. BatchOwned'
    BY <2>1, <2>2 DEF BatchOwned, netVars
  <2>6. Unborn'
    <3> SUFFICES ASSUME NEW d \in ConnId, d >= nextConnectionId
                 PROVE  connToCharacter'[d] = NoActor /\ out'[d] = <<>>
      BY <2>2 DEF Unborn, netVars
    <3>1. d \notin connections /\ d # c /\ connToCharacter[d] = NoActor /\ out[d] = <<>>
      BY <2>1 DEF Unborn
    <3>2. out'[d] = out[d]
      BY <1>0, <1>6, <3>1, LoginEffect DEF Others
    <3> QED
      BY <1>0, <2>2, <3>1, <3>2 DEF TypeOK
  <2> QED
    BY <2>3, <2>4, <2>5, <2>6
<1>7. ASSUME NEW c \in ConnId, OnDisconnect(c), c \in connections,
             UNCHANGED <<nextConnectionId, nextActorId, otherActors>>
      PROVE  /\ CharactersRegistered'
             /\ \A d \in ConnId : d >= nextConnectionId =>
                  connToCharacter'[d] = NoActor /\ out'[d] = <<>>
  <2>1. /\ connToCharacter' = [connToCharacter EXCEPT ![c] = NoActor]
        /\ actors' = actors \ {connToCharacter[c]}
        /\ \A d \in ConnId :
              out'[d] = IF connToCharacter[c] # NoActor /\ d \in Others(c) /\ Hears(d)
                        THEN Append(out[d], Despawn(connToCharacter[c]))
                        ELSE out[d]
    BY <1>0, <1>7, OnDisconnectEffect
  <2>2. \A d \in ConnId : connToCharacter'[d] = IF d = c THEN NoActor ELSE connToCharacter[d]
    BY <1>0, <2>1 DEF TypeOK
  <2>3. CharactersRegistered'
    BY <1>7, <2>1, <2>2 DEF CharactersRegistered
  <2>4. \A d \in ConnId : d >= nextConnectionId => connToCharacter'[d] = NoActor /\ out'[d] = <<>>
    BY <2>1, <2>2 DEF Unborn, Others
  <2> QED
    BY <2>3, <2>4
<1>8. ASSUME NEW c \in ConnId, HandleLogout(c)
      PROVE  Rest'
  <2>1. pc = "read" /\ c = cursor /\ c \in connections
    BY <1>8 DEF HandleLogout, NextPacket, BatchOwned
  <2>2. /\ OnDisconnect(c)
        /\ disconnected' = [disconnected EXCEPT ![c] = TRUE]
        /\ UNCHANGED <<pc, cursor, connections, nextConnectionId, nextActorId, otherActors>>
    BY <1>8 DEF HandleLogout, clientVars
  <2>3. /\ CharactersRegistered'
        /\ \A d \in ConnId : d >= nextConnectionId =>
             connToCharacter'[d] = NoActor /\ out'[d] = <<>>
    BY <1>7, <2>1, <2>2
  <2>4. connToCharacter' = [connToCharacter EXCEPT ![c] = NoActor]
    BY <1>0, <2>2, OnDisconnectEffect
  <2>5. NoGhostSession'
    BY <1>0, <2>1, <2>2, <2>4 DEF NoGhostSession, TypeOK
  <2>6. BatchOwned' /\ Unborn'
    BY <1>0, <2>1, <2>2, <2>3 DEF BatchOwned, Unborn, TypeOK
  <2> QED
    BY <2>3, <2>5, <2>6
<1>9. ASSUME NEW c \in ConnId, RemoveDisconnected(c)
      PROVE  Rest'
  <2>1. /\ pc = "remove" /\ c \in connections
        /\ OnDisconnect(c)
        /\ connections' = connections \ {c}
        /\ UNCHANGED <<pc, cursor, batch, nextConnectionId, disconnected, nextActorId, otherActors>>
    BY <1>9 DEF RemoveDisconnected, ToRemove, loopVars, clientVars
  <2>2. /\ CharactersRegistered'
        /\ \A d \in ConnId : d >= nextConnectionId =>
             connToCharacter'[d] = NoActor /\ out'[d] = <<>>
    BY <1>7, <2>1
  <2>3. connToCharacter' = [connToCharacter EXCEPT ![c] = NoActor]
    BY <1>0, <2>1, OnDisconnectEffect
  <2>4. NoGhostSession'
    BY <1>0, <2>1, <2>3 DEF NoGhostSession, TypeOK
  <2>5. BatchOwned' /\ Unborn'
    BY <2>1, <2>2 DEF BatchOwned, Unborn
  <2> QED
    BY <2>2, <2>4, <2>5
<1>10. ASSUME NEW c \in ConnId, NEW m \in ClientPacket, ClientSend(c, m)
       PROVE  Rest'
  BY <1>10
  DEF ClientSend, CharactersRegistered, NoGhostSession, BatchOwned, Unborn,
      loopVars, netVars, gameVars
<1>11. ASSUME NEW c \in ConnId, peer[c] = "open",
              \A d \in ConnId : d # c => out'[d] = out[d] /\ otherActors'[d] = otherActors[d],
              UNCHANGED <<loopVars, netVars, gameVars>>
       PROVE  Rest'
  <2>1. c < nextConnectionId
    BY <1>0, <1>11 DEF Typed, NotYetOpen, TypeOK, ConnId
  <2>2. Unborn'
    <3>1. \A d \in ConnId : d >= nextConnectionId => d # c
      BY <1>0, <2>1 DEF TypeOK, ConnId
    <3>2. UNCHANGED <<connections, nextConnectionId, disconnected, connToCharacter>>
      BY <1>11 DEF netVars, gameVars
    <3> QED
      BY <1>11, <3>1, <3>2 DEF Unborn
  <2> QED
    BY <1>11, <2>2 DEF CharactersRegistered, NoGhostSession, BatchOwned, loopVars, netVars, gameVars
<1>12. ASSUME NEW c \in ConnId, ClientReceive(c)
       PROVE  Rest'
  BY <1>0, <1>11, <1>12 DEF ClientReceive, TypeOK
<1>13. ASSUME NEW c \in ConnId, ClientClose(c)
       PROVE  Rest'
  BY <1>0, <1>11, <1>13 DEF ClientClose, TypeOK
<1>14. ASSUME NEW c \in ConnId, SendFails(c)
       PROVE  Rest'
  BY <1>14
  DEF SendFails, CharactersRegistered, NoGhostSession, BatchOwned, Unborn,
      loopVars, netVars, gameVars, clientVars
<1>15. ASSUME NEW c \in ConnId, SendDropped(c)
       PROVE  Rest'
  BY <1>15
  DEF SendDropped, CharactersRegistered, NoGhostSession, BatchOwned, Unborn,
      loopVars, netVars, gameVars, clientVars
<1>16. CASE UNCHANGED vars
  BY <1>0, <1>16
  DEF vars, loopVars, netVars, gameVars, wireVars, clientVars, CharactersRegistered,
      NoGhostSession, BatchOwned, Unborn
<1> QED
  BY <1>0, <1>1, <1>2, <1>3, <1>4, <1>5, <1>6, <1>8, <1>9, <1>10, <1>12, <1>13, <1>14, <1>15, <1>16
  DEF Next, ServerStep, ClientStep

\* In every reachable state the map of characters and the actor registry agree:
\* no connection points at an actor that is gone, no two share one, and the next
\* id is new.
THEOREM RegistryConsistent == Spec => []CharactersRegistered
<1>1. Spec => []SessionInv
  BY SessionInit, SessionNext, PTL DEF Spec
<1>2. SessionInv => CharactersRegistered
  BY DEF SessionInv
<1> QED
  BY <1>1, <1>2, PTL

\* No sequence of logins and logouts in one batch, and no oversize frame, leaves
\* a character behind whose connection is gone or given up.
THEOREM NoGhosts == Spec => []NoGhostSession
<1>1. Spec => []SessionInv
  BY SessionInit, SessionNext, PTL DEF Spec
<1>2. SessionInv => NoGhostSession
  BY DEF SessionInv
<1> QED
  BY <1>1, <1>2, PTL

-----------------------------------------------------------------------------
(* The clients' lists of players. *)

\* No packet in flight and no list names an id that was not given out.
IdsGivenOut ==
  \A c \in ConnId :
    /\ \A a \in otherActors[c] : a < nextActorId
    /\ \A i \in 1 .. Len(out[c]) : \A a \in out[c][i].ids : a < nextActorId

RosterInv == SessionInv /\ IdsGivenOut /\ RosterComplete /\ NoPhantoms

\* Only ids that were given out can become known.
LEMMA KnownGivenOut ==
  ASSUME TypeOK, IdsGivenOut, NEW c \in ConnId, NEW a, WillKnow(c, a)
  PROVE  a \in 1 .. (nextActorId - 1)
<1>1. a \in ActorId
  <2>1. \A i \in 1 .. Len(out[c]) : out[c][i].ids \subseteq ActorId
    <3>1. out[c] \in Seq(ServerPacket)
      BY DEF TypeOK
    <3>2. \A i \in 1 .. Len(out[c]) : out[c][i] \in ServerPacket
      BY <3>1
    <3> QED
      BY <3>2 DEF ServerPacket
  <2> QED
    BY <2>1 DEF WillKnow, KnowsAfter, TypeOK
<1>2. a < nextActorId
  BY DEF WillKnow, KnowsAfter, IdsGivenOut
<1> QED
  BY <1>1, <1>2 DEF ActorId, TypeOK

\* How a despawn changes what the others will know.
LEMMA DespawnEffect ==
  ASSUME TypeOK, NEW c \in ConnId, OnDisconnect(c), UNCHANGED otherActors,
         NEW d \in ConnId, d # c, Follows(d), NEW a
  PROVE  KnowsAfter(out'[d], otherActors'[d], a) <=>
           WillKnow(d, a) /\ ~(connToCharacter[c] # NoActor /\ a = connToCharacter[c])
<1> DEFINE b == connToCharacter[c]
<1>1. d \in Others(c) /\ Hears(d)
  BY DEF Others, Follows, Hears
<1>2. out'[d] = IF b # NoActor THEN Append(out[d], Despawn(b)) ELSE out[d]
  BY <1>1, OnDisconnectEffect
<1>3. CASE b = NoActor
  BY <1>2, <1>3 DEF WillKnow
<1>4. CASE b # NoActor
  <2>1. Despawn(b) \in ServerPacket /\ out[d] \in Seq(ServerPacket)
    BY <1>4, PacketTypes DEF TypeOK, ActorId, NoActor
  <2>2. KnowsAfter(Append(out[d], Despawn(b)), otherActors[d], a) <=>
          IF a \in Despawn(b).ids THEN Despawn(b).type # "despawn"
          ELSE KnowsAfter(out[d], otherActors[d], a)
    BY <2>1, KnowsAppend
  <2> QED
    BY <1>2, <1>4, <2>2 DEF WillKnow, Despawn
<1> QED
  BY <1>3, <1>4

\* How a login changes what everyone will know.
LEMMA LoginKnowledge ==
  ASSUME TypeOK, NEW c \in ConnId, HandleLogin(c), NEW d \in ConnId, Follows(d), NEW a
  PROVE  KnowsAfter(out'[d], otherActors'[d], a) <=>
           \/ WillKnow(d, a)
           \/ IF d = c THEN a \in OtherCharacters(c) ELSE a = nextActorId
<1>1. otherActors' = otherActors /\ out[d] \in Seq(ServerPacket) /\ Hears(d)
  BY DEF HandleLogin, clientVars, TypeOK, Follows, Hears
<1>2. CASE d # c
  <2>1. out'[d] = Append(out[d], Spawn(nextActorId))
    BY <1>1, <1>2, LoginEffect DEF Others, Follows
  <2>2. Spawn(nextActorId) \in ServerPacket
    BY PacketTypes DEF TypeOK
  <2>3. KnowsAfter(Append(out[d], Spawn(nextActorId)), otherActors[d], a) <=>
          IF a \in Spawn(nextActorId).ids THEN Spawn(nextActorId).type # "despawn"
          ELSE KnowsAfter(out[d], otherActors[d], a)
    BY <1>1, <2>2, KnowsAppend
  <2> QED
    BY <1>1, <1>2, <2>1, <2>3 DEF WillKnow, Spawn
<1>3. CASE d = c
  <2> DEFINE m == ActorList(OtherCharacters(c))
  <2>1. m \in ServerPacket
    BY ListType
  <2>2. KnowsAfter(Append(out[c], m), otherActors[c], a) <=>
          IF a \in m.ids THEN m.type # "despawn" ELSE KnowsAfter(out[c], otherActors[c], a)
    BY <1>1, <1>3, <2>1, KnowsAppend
  <2>3. out'[c] = IF OtherCharacters(c) # {} THEN Append(out[c], m) ELSE out[c]
    BY <1>1, <1>3, LoginEffect
  <2> QED
    BY <1>1, <1>3, <2>2, <2>3 DEF WillKnow, ActorList
<1> QED
  BY <1>2, <1>3

\* A packet that names only ids given out keeps the streams that way.
LEMMA GivenOutAppend ==
  ASSUME NEW q \in Seq(ServerPacket), NEW m \in ServerPacket, NEW n \in Nat,
         \A i \in 1 .. Len(q) : \A a \in q[i].ids : a < n,
         \A a \in m.ids : a < n
  PROVE  \A i \in 1 .. Len(Append(q, m)) : \A a \in Append(q, m)[i].ids : a < n
<1>1. \A i \in 1 .. Len(Append(q, m)) : Append(q, m)[i] = IF i = Len(q) + 1 THEN m ELSE q[i]
  OBVIOUS
<1>2. \A i \in 1 .. Len(Append(q, m)) : i = Len(q) + 1 \/ i \in 1 .. Len(q)
  OBVIOUS
<1> QED
  BY <1>1, <1>2

LEMMA RosterInit == Init => RosterInv
<1> SUFFICES ASSUME Init PROVE RosterInv
  OBVIOUS
<1>1. SessionInv
  BY SessionInit
<1>2. IdsGivenOut /\ RosterComplete /\ NoPhantoms
  BY DEF Init, IdsGivenOut, RosterComplete, NoPhantoms, Follows
<1> QED
  BY <1>1, <1>2 DEF RosterInv

\* Steps that touch no list, no stream and no character, and after which nobody
\* follows who did not before.
LEMMA RosterIdle ==
  ASSUME RosterInv,
         UNCHANGED <<connToCharacter, actors, nextActorId, out, otherActors>>,
         \A c \in ConnId : Follows(c)' => Follows(c)
  PROVE  (IdsGivenOut /\ RosterComplete /\ NoPhantoms)'
BY DEF RosterInv, IdsGivenOut, RosterComplete, NoPhantoms, WillKnow

\* A character goes, and with it the claim of its connection to be kept informed.
LEMMA RosterLeave ==
  ASSUME RosterInv, NEW c \in ConnId, OnDisconnect(c),
         UNCHANGED <<nextActorId, otherActors>>,
         ~Follows(c)',
         \A d \in ConnId : Follows(d)' => Follows(d)
  PROVE  (IdsGivenOut /\ RosterComplete /\ NoPhantoms)'
<1>0. TypeOK /\ CharactersRegistered
  BY DEF RosterInv, SessionInv, Typed
<1>1. /\ \A d \in ConnId : connToCharacter'[d] = IF d = c THEN NoActor ELSE connToCharacter[d]
      /\ actors' = actors \ {connToCharacter[c]}
      /\ \A d \in ConnId :
           out'[d] = IF connToCharacter[c] # NoActor /\ d \in Others(c) /\ Hears(d)
                     THEN Append(out[d], Despawn(connToCharacter[c]))
                     ELSE out[d]
  BY <1>0, OnDisconnectEffect DEF TypeOK
<1>2. ASSUME NEW d \in ConnId, Follows(d)', NEW a
      PROVE  KnowsAfter(out'[d], otherActors'[d], a) <=>
               WillKnow(d, a) /\ ~(connToCharacter[c] # NoActor /\ a = connToCharacter[c])
  BY <1>0, <1>2, DespawnEffect
<1>3. IdsGivenOut'
  <2> SUFFICES ASSUME NEW d \in ConnId
               PROVE  \A i \in 1 .. Len(out'[d]) : \A a \in out'[d][i].ids : a < nextActorId
    BY DEF RosterInv, IdsGivenOut
  <2>1. CASE out'[d] = out[d]
    BY <2>1 DEF RosterInv, IdsGivenOut
  <2>2. CASE out'[d] = Append(out[d], Despawn(connToCharacter[c])) /\ connToCharacter[c] # NoActor
    <3>1. connToCharacter[c] \in ActorId /\ connToCharacter[c] < nextActorId
      BY <1>0, <2>2 DEF CharactersRegistered, TypeOK
    <3>2. Despawn(connToCharacter[c]) \in ServerPacket /\ Despawn(connToCharacter[c]).ids = {connToCharacter[c]}
      BY <3>1, PacketTypes DEF Despawn
    <3>3. out[d] \in Seq(ServerPacket) /\ nextActorId \in Nat
      BY <1>0 DEF TypeOK, ActorId
    <3>4. \A i \in 1 .. Len(out[d]) : \A a \in out[d][i].ids : a < nextActorId
      BY DEF RosterInv, IdsGivenOut
    <3> QED
      BY <2>2, <3>1, <3>2, <3>3, <3>4, GivenOutAppend
  <2> QED
    BY <1>1, <2>1, <2>2
<1>4. RosterComplete'
  <2> SUFFICES ASSUME NEW d \in ConnId, NEW e \in ConnId, Follows(d)', d # e,
                      connToCharacter'[d] # NoActor, connToCharacter'[e] # NoActor
               PROVE  KnowsAfter(out'[d], otherActors'[d], connToCharacter'[e])
    BY DEF RosterComplete, WillKnow
  <2>1. d # c /\ e # c /\ connToCharacter'[d] = connToCharacter[d] /\ connToCharacter'[e] = connToCharacter[e]
    BY <1>1
  <2>2. WillKnow(d, connToCharacter[e])
    BY <2>1 DEF RosterInv, RosterComplete
  <2>3. connToCharacter[e] # connToCharacter[c]
    BY <1>0, <2>1 DEF CharactersRegistered
  <2>4. KnowsAfter(out'[d], otherActors'[d], connToCharacter[e])
    BY <1>2, <2>2, <2>3 DEF WillKnow
  <2> QED
    BY <2>1, <2>4 DEF WillKnow
<1>5. NoPhantoms'
  <2> SUFFICES ASSUME NEW d \in ConnId, Follows(d)', NEW a \in 1 .. (nextActorId - 1), KnowsAfter(out'[d], otherActors'[d], a)
               PROVE  a \in actors' /\ a # connToCharacter'[d]
    BY DEF NoPhantoms, WillKnow
  <2>1. WillKnow(d, a) /\ ~(connToCharacter[c] # NoActor /\ a = connToCharacter[c])
    BY <1>2
  <2>2. a \in actors /\ a # connToCharacter[d] /\ d # c
    BY <2>1 DEF RosterInv, NoPhantoms
  <2>3. a # connToCharacter[c]
    BY <2>1 DEF NoActor
  <2> QED
    BY <1>1, <2>2, <2>3
<1> QED
  BY <1>3, <1>4, <1>5

\* A new character is announced to those that follow and told of the others.
LEMMA RosterLogin ==
  ASSUME RosterInv, NEW c \in ConnId, HandleLogin(c)
  PROVE  (IdsGivenOut /\ RosterComplete /\ NoPhantoms)'
<1> DEFINE n == nextActorId
<1>0. TypeOK /\ CharactersRegistered /\ IdsGivenOut /\ n \in Nat \ {0} /\ n \notin actors
  BY DEF RosterInv, SessionInv, Typed, TypeOK, ActorId, CharactersRegistered
<1>1. /\ \A d \in ConnId : connToCharacter'[d] = IF d = c THEN n ELSE connToCharacter[d]
      /\ actors' = actors \cup {n}
      /\ nextActorId' = n + 1
      /\ otherActors' = otherActors
      /\ \A d \in ConnId : Follows(d)' <=> Follows(d)
  BY <1>0 DEF HandleLogin, TypeOK, netVars, clientVars, Follows, Hears
<1>2. ASSUME NEW d \in ConnId, Follows(d)', NEW a
      PROVE  KnowsAfter(out'[d], otherActors'[d], a) <=>
               \/ WillKnow(d, a)
               \/ IF d = c THEN a \in OtherCharacters(c) ELSE a = n
  BY <1>0, <1>1, <1>2, LoginKnowledge
<1>3. \A a \in OtherCharacters(c) : a \in actors /\ a < n
  BY <1>0 DEF OtherCharacters, CharactersRegistered
<1>4. IdsGivenOut'
  <2> SUFFICES ASSUME NEW d \in ConnId
               PROVE  \A i \in 1 .. Len(out'[d]) : \A a \in out'[d][i].ids : a < n + 1
    <3>1. \A d \in ConnId : \A a \in otherActors[d] : a < n + 1
      BY <1>0 DEF IdsGivenOut, TypeOK, ActorId
    <3> QED
      BY <1>1, <3>1 DEF IdsGivenOut
  <2>0. /\ out[d] \in Seq(ServerPacket)
        /\ \A i \in 1 .. Len(out[d]) : \A a \in out[d][i].ids : a < n + 1
    <3>1. out[d] \in Seq(ServerPacket)
      BY <1>0 DEF TypeOK
    <3>2. \A i \in 1 .. Len(out[d]) : out[d][i].ids \subseteq Nat
      <4>1. \A i \in 1 .. Len(out[d]) : out[d][i] \in ServerPacket
        BY <3>1
      <4> QED
        BY <4>1 DEF ServerPacket, ActorId
    <3>3. \A i \in 1 .. Len(out[d]) : \A a \in out[d][i].ids : a < n
      BY <1>0 DEF IdsGivenOut
    <3> QED
      BY <1>0, <3>1, <3>2, <3>3
  <2>1. CASE out'[d] = out[d]
    BY <2>0, <2>1
  <2>2. CASE out'[d] = Append(out[d], ActorList(OtherCharacters(c)))
    <3>1. ActorList(OtherCharacters(c)) \in ServerPacket
      BY <1>0, ListType
    <3>2. \A a \in ActorList(OtherCharacters(c)).ids : a < n + 1
      <4>1. OtherCharacters(c) \subseteq Nat
        BY <1>0 DEF OtherCharacters, TypeOK
      <4> QED
        BY <1>0, <1>3, <4>1 DEF ActorList
    <3> QED
      BY <1>0, <2>0, <2>2, <3>1, <3>2, GivenOutAppend
  <2>3. CASE out'[d] = Append(out[d], Spawn(n))
    <3>1. Spawn(n) \in ServerPacket /\ \A a \in Spawn(n).ids : a < n + 1
      BY <1>0, PacketTypes DEF Spawn, TypeOK
    <3> QED
      BY <1>0, <2>0, <2>3, <3>1, GivenOutAppend
  <2> QED
    BY <1>0, <2>1, <2>2, <2>3, LoginEffect
<1>5. RosterComplete'
  <2> SUFFICES ASSUME NEW d \in ConnId, NEW e \in ConnId, Follows(d)', d # e,
                      connToCharacter'[d] # NoActor, connToCharacter'[e] # NoActor
               PROVE  KnowsAfter(out'[d], otherActors'[d], connToCharacter'[e])
    BY DEF RosterComplete, WillKnow
  <2> DEFINE a == connToCharacter'[e]
  <2>1. CASE d = c
    <3>1. a \in OtherCharacters(c)
      BY <1>1, <2>1 DEF OtherCharacters
    <3>2. \A x : x \in OtherCharacters(c) => KnowsAfter(out'[d], otherActors'[d], x)
      BY <1>2, <2>1
    <3> QED
      BY <3>1, <3>2 DEF WillKnow
  <2>2. CASE e = c
    <3>1. KnowsAfter(out'[d], otherActors'[d], n)
      BY <1>2, <2>2
    <3> QED
      BY <1>1, <2>2, <3>1 DEF WillKnow
  <2>3. CASE d # c /\ e # c
    <3>1. WillKnow(d, connToCharacter[e])
      BY <1>1, <2>3 DEF RosterInv, RosterComplete
    <3>2. KnowsAfter(out'[d], otherActors'[d], connToCharacter[e])
      BY <1>2, <3>1 DEF WillKnow
    <3> QED
      BY <1>1, <2>3, <3>2 DEF WillKnow
  <2> QED
    BY <2>1, <2>2, <2>3
<1>6. NoPhantoms'
  <2> SUFFICES ASSUME NEW d \in ConnId, Follows(d)', NEW a \in Nat, KnowsAfter(out'[d], otherActors'[d], a)
               PROVE  a \in actors' /\ a # connToCharacter'[d]
    BY <1>0, <1>1 DEF NoPhantoms, WillKnow
  <2>1. WillKnow(d, a) => a \in actors /\ a # connToCharacter[d] /\ a < n
    BY <1>0, <1>1, KnownGivenOut DEF RosterInv, NoPhantoms, CharactersRegistered
  <2>2. connToCharacter[d] # n
    BY <1>0 DEF CharactersRegistered, NoActor
  <2>3. CASE d = c
    <3>1. WillKnow(d, a) \/ a \in OtherCharacters(c)
      BY <1>2, <2>3
    <3>2. a \in actors
      BY <1>3, <2>1, <3>1
    <3> QED
      BY <1>0, <1>1, <2>3, <3>2
  <2>4. CASE d # c
    <3>1. WillKnow(d, a) \/ a = n
      BY <1>2, <2>4
    <3> QED
      BY <1>1, <2>1, <2>2, <2>4, <3>1
  <2> QED
    BY <2>3, <2>4
<1> QED
  BY <1>4, <1>5, <1>6

\* A client reading along: its list moves, what it will know does not.
LEMMA RosterReceive ==
  ASSUME RosterInv, NEW c \in ConnId, ClientReceive(c)
  PROVE  (IdsGivenOut /\ RosterComplete /\ NoPhantoms)'
<1> DEFINE h == Head(out[c])
<1>0. TypeOK /\ IdsGivenOut
  BY DEF RosterInv, SessionInv, Typed
<1>1. /\ UNCHANGED <<connToCharacter, actors, nextActorId>>
      /\ \A d \in ConnId : Follows(d)' <=> Follows(d)
  BY DEF ClientReceive, gameVars, netVars, Follows, Hears
<1>2. /\ \A d \in ConnId \ {c} : out'[d] = out[d] /\ otherActors'[d] = otherActors[d]
      /\ out'[c] = Tail(out[c])
      /\ otherActors'[c] = Apply(otherActors[c], h)
  BY <1>0 DEF ClientReceive, TypeOK
<1>3. out[c] \in Seq(ServerPacket) /\ out[c] # <<>>
  BY <1>0 DEF ClientReceive, TypeOK
<1>4. \A d \in ConnId, a \in Nat :
        KnowsAfter(out'[d], otherActors'[d], a) <=> WillKnow(d, a)
  <2>1. \A a : KnowsAfter(Tail(out[c]), Apply(otherActors[c], h), a) <=>
               KnowsAfter(out[c], otherActors[c], a)
    BY <1>3, KnowsTail
  <2> QED
    BY <1>2, <2>1 DEF WillKnow
<1>5. IdsGivenOut'
  <2>1. \A i \in 1 .. Len(out[c]) : \A a \in out[c][i].ids : a < nextActorId
    BY <1>0 DEF IdsGivenOut
  <2>2. \A a \in otherActors'[c] : a < nextActorId
    <3>1. h = out[c][1] /\ 1 \in 1 .. Len(out[c])
      BY <1>3
    <3>2. \A a \in otherActors[c] : a < nextActorId
      BY <1>0 DEF IdsGivenOut
    <3> QED
      BY <1>2, <2>1, <3>1, <3>2 DEF Apply
  <2>3. \A i \in 1 .. Len(out'[c]) : \A a \in out'[c][i].ids : a < nextActorId
    <3>1. \A i \in 1 .. Len(Tail(out[c])) :
            Tail(out[c])[i] = out[c][i + 1] /\ i + 1 \in 1 .. Len(out[c])
      BY <1>3
    <3> QED
      BY <1>2, <2>1, <3>1
  <2> QED
    BY <1>0, <1>1, <1>2, <2>2, <2>3 DEF IdsGivenOut
<1>6. RosterComplete'
  <2>1. \A d \in ConnId : connToCharacter[d] \in Nat
    BY <1>0 DEF TypeOK
  <2> QED
    BY <1>1, <1>4, <2>1 DEF RosterInv, RosterComplete, WillKnow
<1>7. NoPhantoms'
  <2> SUFFICES ASSUME NEW d \in ConnId, Follows(d)', NEW a \in 1 .. (nextActorId - 1),
                      KnowsAfter(out'[d], otherActors'[d], a)
               PROVE  a \in actors /\ a # connToCharacter[d]
    BY <1>1 DEF NoPhantoms, WillKnow
  <2>1. WillKnow(d, a)
    BY <1>4
  <2> QED
    BY <1>1, <2>1 DEF RosterInv, NoPhantoms
<1> QED
  BY <1>5, <1>6, <1>7

LEMMA RosterNext == RosterInv /\ [Next]_vars => RosterInv'
<1> SUFFICES ASSUME RosterInv, [Next]_vars
             PROVE  (IdsGivenOut /\ RosterComplete /\ NoPhantoms)'
  BY SessionNext DEF RosterInv
<1>0. TypeOK /\ SessionInv /\ IdsGivenOut
  BY DEF RosterInv, SessionInv, Typed
<1>1. CASE Accept
  <2> DEFINE c == nextConnectionId
  <2>1. /\ UNCHANGED <<connToCharacter, actors, nextActorId, out, otherActors>>
        /\ c \in ConnId
        /\ connToCharacter[c] = NoActor /\ out[c] = <<>> /\ otherActors[c] = {}
    BY <1>0, <1>1 DEF Accept, gameVars, wireVars, SessionInv, Unborn, TypeOK
  <2>2. \A d \in ConnId \ {c} : Follows(d)' => Follows(d)
    BY <1>0, <1>1 DEF Accept, Follows, Hears, TypeOK, wireVars
  <2>3. \A a : ~WillKnow(c, a)
    BY <2>1 DEF WillKnow, KnowsAfter
  <2>4. IdsGivenOut'
    BY <1>0, <2>1 DEF IdsGivenOut
  <2>5. RosterComplete'
    BY <2>1, <2>2 DEF RosterInv, RosterComplete, WillKnow
  <2>6. NoPhantoms'
    BY <2>1, <2>2, <2>3 DEF RosterInv, NoPhantoms, WillKnow
  <2> QED
    BY <2>4, <2>5, <2>6
<1>2. CASE BeginRead \/ EndRead \/ EndPoll
  BY <1>2, RosterIdle
  DEF BeginRead, EndRead, EndPoll, netVars, gameVars, wireVars, clientVars, Follows, Hears
<1>3. ASSUME NEW c \in ConnId, ReadConnection(c)
      PROVE  (IdsGivenOut /\ RosterComplete /\ NoPhantoms)'
  <2>1. PICK n \in 0 .. Len(inbox[c]) : Read(c, n)
    BY <1>3 DEF ReadConnection
  <2>2. UNCHANGED <<connToCharacter, actors, nextActorId, out, otherActors, connections, stream, peer>>
    BY <2>1 DEF Read, gameVars, clientVars
  <2>3. \A d \in ConnId : disconnected[d] => disconnected'[d]
    BY <1>0, <2>1 DEF Read, TypeOK
  <2>4. \A d \in ConnId : Follows(d)' => Follows(d)
    BY <2>2, <2>3 DEF Follows, Hears
  <2> QED
    BY <2>2, <2>4, RosterIdle
<1>4. ASSUME NEW c \in ConnId, HandleLogin(c)
      PROVE  (IdsGivenOut /\ RosterComplete /\ NoPhantoms)'
  BY <1>4, RosterLogin
<1>5. ASSUME NEW c \in ConnId, HandleLogout(c)
      PROVE  (IdsGivenOut /\ RosterComplete /\ NoPhantoms)'
  <2>1. /\ OnDisconnect(c)
        /\ disconnected' = [disconnected EXCEPT ![c] = TRUE]
        /\ UNCHANGED <<connections, nextActorId, stream, peer, otherActors>>
    BY <1>5 DEF HandleLogout, clientVars
  <2>2. ~Follows(c)' /\ \A d \in ConnId : Follows(d)' => Follows(d)
    BY <1>0, <2>1 DEF Follows, Hears, TypeOK
  <2> QED
    BY <2>1, <2>2, RosterLeave
<1>6. ASSUME NEW c \in ConnId, RemoveDisconnected(c)
      PROVE  (IdsGivenOut /\ RosterComplete /\ NoPhantoms)'
  <2>1. /\ OnDisconnect(c)
        /\ connections' = connections \ {c}
        /\ UNCHANGED <<disconnected, nextActorId, stream, peer, otherActors>>
    BY <1>6 DEF RemoveDisconnected, clientVars
  <2>2. ~Follows(c)' /\ \A d \in ConnId : Follows(d)' => Follows(d)
    BY <2>1 DEF Follows, Hears
  <2> QED
    BY <2>1, <2>2, RosterLeave
<1>7. ASSUME NEW c \in ConnId, NEW m \in ClientPacket, ClientSend(c, m)
      PROVE  (IdsGivenOut /\ RosterComplete /\ NoPhantoms)'
  BY <1>7, RosterIdle DEF ClientSend, netVars, gameVars, Follows, Hears
<1>8. ASSUME NEW c \in ConnId, ClientReceive(c)
      PROVE  (IdsGivenOut /\ RosterComplete /\ NoPhantoms)'
  BY <1>8, RosterReceive
<1>9. ASSUME NEW c \in ConnId, ClientClose(c)
      PROVE  (IdsGivenOut /\ RosterComplete /\ NoPhantoms)'
  <2>1. /\ UNCHANGED <<connToCharacter, actors, nextActorId, connections, disconnected>>
        /\ ~Follows(c)'
        /\ \A d \in ConnId \ {c} : /\ Follows(d)' => Follows(d)
                                   /\ out'[d] = out[d]
                                   /\ otherActors'[d] = otherActors[d]
        /\ out'[c] = <<>> /\ otherActors'[c] = {}
    BY <1>0, <1>9 DEF ClientClose, TypeOK, gameVars, netVars, Follows, Hears
  <2>2. IdsGivenOut'
    BY <1>0, <2>1 DEF IdsGivenOut
  <2>3. RosterComplete'
    BY <2>1 DEF RosterInv, RosterComplete, WillKnow
  <2>4. NoPhantoms'
    BY <2>1 DEF RosterInv, NoPhantoms, WillKnow
  <2> QED
    BY <2>2, <2>3, <2>4
<1>10. ASSUME NEW c \in ConnId, SendFails(c)
       PROVE  (IdsGivenOut /\ RosterComplete /\ NoPhantoms)'
  <2>1. UNCHANGED <<connToCharacter, actors, nextActorId, out, otherActors, netVars, peer>>
    BY <1>10 DEF SendFails, gameVars, clientVars
  <2>2. \A d \in ConnId : stream'[d] = "whole" => stream[d] = "whole"
    BY <1>0, <1>10 DEF SendFails, TypeOK
  <2>3. \A d \in ConnId : Follows(d)' => Follows(d)
    BY <2>1, <2>2 DEF Follows, Hears, netVars
  <2> QED
    BY <2>1, <2>3, RosterIdle
<1>11. ASSUME NEW c \in ConnId, SendDropped(c)
       PROVE  (IdsGivenOut /\ RosterComplete /\ NoPhantoms)'
  <2>1. /\ UNCHANGED <<connToCharacter, actors, nextActorId, otherActors, netVars, peer>>
        /\ stream' = [stream EXCEPT ![c] = "gaps"]
    BY <1>11 DEF SendDropped, gameVars, clientVars
  <2>2. ~Follows(c)' /\ \A d \in ConnId : Follows(d)' => Follows(d)
    BY <1>0, <2>1 DEF Follows, netVars, TypeOK
  <2>3. IdsGivenOut'
    BY <1>0, <1>11, <2>1, DroppedType DEF IdsGivenOut
  <2>4. \A d \in ConnId \ {c} : out'[d] = out[d]
    BY <1>0, <1>11, DroppedType
  <2>5. RosterComplete'
    BY <2>1, <2>2, <2>4 DEF RosterInv, RosterComplete, WillKnow
  <2>6. NoPhantoms'
    BY <2>1, <2>2, <2>4 DEF RosterInv, NoPhantoms, WillKnow
  <2> QED
    BY <2>3, <2>5, <2>6
<1>12. CASE UNCHANGED vars
  BY <1>12, RosterIdle
  DEF vars, loopVars, netVars, gameVars, wireVars, clientVars, Follows, Hears
<1> QED
  BY <1>1, <1>2, <1>3, <1>4, <1>5, <1>6, <1>7, <1>8, <1>9, <1>10, <1>11, <1>12
  DEF Next, ServerStep, ClientStep

\* However logins, spawns and lists cross on their way, a player that is logged
\* in and keeps reading misses none of the other players.
THEOREM RostersComplete == Spec => []RosterComplete
<1>1. Spec => []RosterInv
  BY RosterInit, RosterNext, PTL DEF Spec
<1>2. RosterInv => RosterComplete
  BY DEF RosterInv
<1> QED
  BY <1>1, <1>2, PTL

\* And it is not left with an actor the server no longer has, nor with itself.
THEOREM RostersSound == Spec => []NoPhantoms
<1>1. Spec => []RosterInv
  BY RosterInit, RosterNext, PTL DEF Spec
<1>2. RosterInv => NoPhantoms
  BY DEF RosterInv
<1> QED
  BY <1>1, <1>2, PTL

-----------------------------------------------------------------------------
(* Orphans.  Clients that log out before they log in again keep the packets *)
(* on their way alternating, and a character is never replaced.             *)

\* No login follows another in q, none meets the character a, and where the last
\* word s of the client allows it another one, that one will not either.
Alternates(q, a, s) ==
  /\ \A i \in 1 .. (Len(q) - 1) : q[i] = "login" => q[i + 1] # "login"
  /\ q # <<>> /\ a # NoActor => q[1] # "login"
  /\ s \in {"none", "logout"} => IF q = <<>> THEN a = NoActor ELSE q[Len(q)] # "login"

LEMMA AlternatesTail ==
  ASSUME NEW q \in Seq(ClientPacket), q # <<>>, NEW a, NEW b, NEW s,
         Alternates(q, a, s), q[1] = "login" \/ b = NoActor
  PROVE  Alternates(Tail(q), b, s)
<1>1. Len(Tail(q)) = Len(q) - 1 /\ Len(q) \in Nat \ {0}
  OBVIOUS
<1>2. \A i \in 1 .. Len(Tail(q)) : Tail(q)[i] = q[i + 1]
  OBVIOUS
<1>3. Tail(q) \in Seq(ClientPacket)
  OBVIOUS
<1>4. Tail(q) = <<>> <=> Len(q) = 1
  <2>1. Tail(q) # <<>> => Len(Tail(q)) # 0
    BY <1>3, EmptySeq
  <2>2. Tail(q) = <<>> => Len(Tail(q)) = 0
    BY EmptySeq
  <2> QED
    BY <1>1, <2>1, <2>2
<1> QED
  BY <1>1, <1>2, <1>4 DEF Alternates

LEMMA AlternatesAppend ==
  ASSUME NEW q \in Seq(ClientPacket), NEW m \in ClientPacket, NEW a, NEW s,
         Alternates(q, a, s), m = "login" => s \in {"none", "logout"}
  PROVE  Alternates(Append(q, m), a, m)
<1>1. Len(Append(q, m)) = Len(q) + 1 /\ Len(q) \in Nat /\ Append(q, m) # <<>>
  OBVIOUS
<1>2. \A i \in 1 .. Len(q) : Append(q, m)[i] = q[i]
  OBVIOUS
<1>3. Append(q, m)[Len(q) + 1] = m
  OBVIOUS
<1>4. q = <<>> <=> Len(q) = 0
  OBVIOUS
<1> QED
  BY <1>1, <1>2, <1>3, <1>4 DEF Alternates

\* The start of such a sequence, of a client that writes no more.
LEMMA AlternatesPrefix ==
  ASSUME NEW q \in Seq(ClientPacket), NEW p \in Seq(ClientPacket), NEW a, NEW s, NEW t,
         Alternates(q, a, s), t \notin {"none", "logout"},
         Len(p) <= Len(q), \A i \in 1 .. Len(p) : p[i] = q[i]
  PROVE  Alternates(p, a, t)
<1>1. Len(p) \in Nat /\ Len(q) \in Nat /\ (p # <<>> => Len(p) # 0 /\ q # <<>>)
  OBVIOUS
<1> QED
  BY <1>1 DEF Alternates

\* What a client wrote that no handler has seen yet.
Pending(c) == (IF cursor = c THEN batch ELSE <<>>) \o inbox[c]

\* The client's last word: one that closed its end writes no more.
LastWord(c) == IF peer[c] = "closed" THEN "closed" ELSE said[c]

OrphanInv ==
  /\ SessionInv
  /\ NoOrphans
  /\ \A c \in ConnId \ twice : Alternates(Pending(c), connToCharacter[c], LastWord(c))

LEMMA PendingType ==
  ASSUME TypeOK, NEW c \in ConnId
  PROVE  Pending(c) \in Seq(ClientPacket)
<1>1. inbox[c] \in Seq(ClientPacket) /\ batch \in Seq(ClientPacket) /\ <<>> \in Seq(ClientPacket)
  BY DEF TypeOK, ClientPacket
<1> QED
  BY <1>1 DEF Pending

\* Steps that hand over, write and give away nothing of c.
LEMMA OrphanIdle ==
  ASSUME OrphanInv, NEW c \in ConnId \ twice,
         Pending(c)' = Pending(c), connToCharacter'[c] = connToCharacter[c],
         LastWord(c)' = LastWord(c)
  PROVE  Alternates(Pending(c), connToCharacter[c], LastWord(c))'
BY DEF OrphanInv, Alternates

\* What the handlers do to the packets still to be handled, whichever it is.
LEMMA PendingHandled ==
  ASSUME TypeOK, NEW c \in ConnId, c = cursor, batch # <<>>,
         batch' = Tail(batch), UNCHANGED <<cursor, inbox>>
  PROVE  /\ Pending(c)' = Tail(Pending(c))
         /\ Pending(c) # <<>>
         /\ Pending(c)[1] = Head(batch)
         /\ \A d \in ConnId \ {c} : Pending(d)' = Pending(d)
<1> DEFINE s == inbox[c]
<1>1. batch \in Seq(ClientPacket) /\ s \in Seq(ClientPacket)
  BY DEF TypeOK, ClientPacket
<1>2. Len(batch) \in Nat \ {0} /\ Len(s) \in Nat
  BY <1>1
<1>3. Pending(c) = batch \o s /\ Pending(c)' = Tail(batch) \o s
  BY DEF Pending
<1>4. Tail(batch) \o s = Tail(batch \o s)
  <2> DEFINE l == Tail(batch) \o s
             r == Tail(batch \o s)
  <2>1. l \in Seq(ClientPacket) /\ r \in Seq(ClientPacket)
    BY <1>1, <1>2
  <2>2. Len(l) = Len(r)
    BY <1>1, <1>2
  <2>3. \A i \in 1 .. Len(l) : l[i] = r[i]
    BY <1>1, <1>2
  <2> HIDE DEF l, r
  <2>4. l = r
    BY <2>1, <2>2, <2>3, SeqEqual
  <2> QED
    BY <2>4 DEF l, r
<1>5. (batch \o s)[1] = batch[1] /\ batch \o s # <<>>
  <2>1. Len(batch \o s) # 0 /\ (batch \o s)[1] = batch[1]
    BY <1>1, <1>2, ConcatProperties
  <2> QED
    BY <2>1
<1>6. Pending(c)' = Tail(Pending(c)) /\ Pending(c) # <<>> /\ Pending(c)[1] = batch[1]
  BY <1>3, <1>4, <1>5
<1>7. batch[1] = Head(batch)
  BY <1>1
<1>8. \A d \in ConnId \ {c} : Pending(d)' = Pending(d)
  BY DEF Pending
<1> QED
  BY <1>6, <1>7, <1>8

\* What a read does: it moves packets, and may lose the oversize one at the end.
LEMMA PendingRead ==
  ASSUME Typed, NEW c \in ConnId, NEW n \in 0 .. Len(inbox[c]), Read(c, n)
  PROVE  /\ \A d \in ConnId \ {c} : Pending(d)' = Pending(d)
         /\ \/ Pending(c)' = Pending(c)
            \/ /\ Pending(c)' \in Seq(ClientPacket)
               /\ Len(Pending(c)') <= Len(Pending(c))
               /\ \A i \in 1 .. Len(Pending(c)') : Pending(c)'[i] = Pending(c)[i]
               /\ LastWord(c) \notin {"none", "logout"}
<1> DEFINE s == inbox[c]
           oversize == n > 0 /\ s[n] = "oversize"
<1>1. s \in Seq(ClientPacket) /\ Len(s) \in Nat /\ n \in Nat /\ n <= Len(s)
  BY DEF Typed, TypeOK
<1>2. batch = <<>> /\ cursor' = c
  BY DEF Read, NextToRead
<1>3. inbox' = [inbox EXCEPT ![c] = SubSeq(s, n + 1, Len(s))]
  BY DEF Read
<1>4. inbox'[c] = SubSeq(s, n + 1, Len(s)) /\ \A d \in ConnId \ {c} : inbox'[d] = inbox[d]
  BY <1>3 DEF Typed, TypeOK
<1>5. ASSUME NEW d \in ConnId PROVE Pending(d) = inbox[d]
  BY <1>2, ConcatEmptySeq DEF Pending, Typed, TypeOK
<1>6. ASSUME NEW d \in ConnId \ {c} PROVE Pending(d)' = inbox[d]
  BY <1>2, <1>4, ConcatEmptySeq DEF Pending, Typed, TypeOK
<1>7. Pending(c)' = batch' \o SubSeq(s, n + 1, Len(s))
  BY <1>2, <1>4 DEF Pending
<1>8. CASE ~oversize
  <2>1. batch' = SubSeq(s, 1, n)
    BY <1>8 DEF Read
  <2>2. SubSeq(s, 1, n) \o SubSeq(s, n + 1, Len(s)) = SubSeq(s, 1, Len(s))
    <3>1. 1 \in 1 .. Len(s) + 1 /\ n \in (1 - 1) .. Len(s) /\ Len(s) \in n .. Len(s)
      BY <1>1
    <3> HIDE DEF s
    <3> QED
      BY <1>1, <3>1, ConcatAdjacentSubSeq
  <2>3. SubSeq(s, 1, Len(s)) = s
    BY <1>1, SubSeqFull
  <2> QED
    BY <1>5, <1>6, <1>7, <2>1, <2>2, <2>3
<1>9. CASE oversize
  <2>1. batch' = SubSeq(s, 1, n - 1)
    BY <1>9 DEF Read
  <2>2. n = Len(s) /\ (peer[c] # "closed" => said[c] = "oversize")
    BY <1>1, <1>9 DEF Typed, OversizeLast
  <2>3. SubSeq(s, n + 1, Len(s)) = <<>>
    BY <1>1, <2>2, SubSeqEmpty
  <2>4. SubSeq(s, 1, n - 1) \in Seq(ClientPacket)
    BY <1>1, <1>9
  <2>5. Pending(c)' = SubSeq(s, 1, n - 1)
    BY <1>7, <2>1, <2>3, <2>4, ConcatEmptySeq
  <2>6. Len(SubSeq(s, 1, n - 1)) <= Len(s)
        /\ \A i \in 1 .. Len(SubSeq(s, 1, n - 1)) : SubSeq(s, 1, n - 1)[i] = s[i]
    BY <1>1, <1>9
  <2> QED
    BY <1>5, <1>6, <2>2, <2>4, <2>5, <2>6 DEF LastWord
<1> QED
  BY <1>8, <1>9

LEMMA AppendToConcat ==
  ASSUME NEW T, NEW s \in Seq(T), NEW t \in Seq(T), NEW m \in T
  PROVE  s \o Append(t, m) = Append(s \o t, m)
<1>1. Append(t, m) = t \o <<m>> /\ Append(s \o t, m) = (s \o t) \o <<m>>
  BY ConcatProperties, AppendIsConcat
<1>2. <<m>> \in Seq(T)
  OBVIOUS
<1> QED
  BY <1>1, <1>2, ConcatAssociative

LEMMA OrphanInit == Init => OrphanInv
<1> SUFFICES ASSUME Init PROVE OrphanInv
  OBVIOUS
<1>1. SessionInv /\ NoOrphans
  BY SessionInit DEF Init, NoOrphans
<1>2. ASSUME NEW c \in ConnId
      PROVE  Alternates(Pending(c), connToCharacter[c], LastWord(c))
  <2>1. Pending(c) = <<>> \o <<>>
    BY DEF Init, Pending
  <2>2. Pending(c) = <<>> /\ Len(Pending(c)) = 0
    BY <2>1, EmptySeq, ConcatEmptySeq
  <2>3. connToCharacter[c] = NoActor
    BY DEF Init
  <2> QED
    BY <2>2, <2>3 DEF Alternates
<1> QED
  BY <1>1, <1>2 DEF OrphanInv

LEMMA OrphanNext == OrphanInv /\ [Next]_vars => OrphanInv'
<1> SUFFICES ASSUME OrphanInv, [Next]_vars
             PROVE  OrphanInv'
  OBVIOUS
<1>0. SessionInv /\ SessionInv' /\ Typed /\ TypeOK
  BY SessionNext DEF OrphanInv, SessionInv, Typed
<1> DEFINE Rest == /\ NoOrphans
                   /\ \A c \in ConnId \ twice :
                        Alternates(Pending(c), connToCharacter[c], LastWord(c))
<1>a. ASSUME NEW c \in ConnId \ twice
      PROVE  /\ Alternates(Pending(c), connToCharacter[c], LastWord(c))
             /\ Pending(c) \in Seq(ClientPacket)
  BY <1>0, PendingType DEF OrphanInv
<1>b. ASSUME UNCHANGED <<connToCharacter, actors, twice>>
      PROVE  NoOrphans'
  BY <1>b DEF OrphanInv, NoOrphans
<1>1. ASSUME Accept
      PROVE  Rest'
  <2>1. ASSUME NEW c \in ConnId \ twice
        PROVE  Alternates(Pending(c), connToCharacter[c], LastWord(c))'
    <3>1. Pending(c)' = Pending(c) /\ connToCharacter'[c] = connToCharacter[c]
      BY <1>1 DEF Accept, Pending, loopVars, gameVars, wireVars
    <3>2. LastWord(c)' = LastWord(c)
      BY <1>0, <1>1 DEF Accept, LastWord, TypeOK, Typed, NotYetOpen, ConnId
    <3> QED
      BY <2>1, <3>1, <3>2, OrphanIdle
  <2> QED
    BY <1>1, <1>b, <2>1 DEF Accept, gameVars
<1>2. ASSUME \/ BeginRead \/ EndRead \/ EndPoll \/ UNCHANGED vars
             \/ \E c \in ConnId : ClientReceive(c) \/ SendFails(c) \/ SendDropped(c)
      PROVE  Rest'
  <2>1. UNCHANGED <<connToCharacter, actors, twice, batch, inbox, peer, said>>
    BY <1>2
    DEF BeginRead, EndRead, EndPoll, ClientReceive, SendFails, SendDropped, vars, loopVars, netVars, gameVars,
        wireVars, clientVars
  <2>2. cursor' = cursor \/ batch = <<>>
    BY <1>0, <1>2
    DEF BeginRead, EndRead, EndPoll, ClientReceive, SendFails, SendDropped, vars, loopVars, SessionInv, BatchOwned
  <2>3. ASSUME NEW c \in ConnId \ twice
        PROVE  Alternates(Pending(c), connToCharacter[c], LastWord(c))'
    <3>1. Pending(c)' = Pending(c) /\ connToCharacter'[c] = connToCharacter[c] /\ LastWord(c)' = LastWord(c)
      BY <2>1, <2>2 DEF Pending, LastWord
    <3> QED
      BY <2>3, <3>1, OrphanIdle
  <2> QED
    BY <1>b, <2>1, <2>3
<1>3. ASSUME NEW c \in ConnId, ReadConnection(c)
      PROVE  Rest'
  <2>1. PICK n \in 0 .. Len(inbox[c]) : Read(c, n)
    BY <1>3 DEF ReadConnection
  <2>2. UNCHANGED <<connToCharacter, actors, twice, peer, said>>
    BY <2>1 DEF Read, gameVars, clientVars
  <2>3. \A d \in ConnId : connToCharacter'[d] = connToCharacter[d] /\ LastWord(d)' = LastWord(d)
    BY <2>2 DEF LastWord
  <2>4. /\ \A d \in ConnId \ {c} : Pending(d)' = Pending(d)
        /\ \/ Pending(c)' = Pending(c)
           \/ /\ Pending(c)' \in Seq(ClientPacket)
              /\ Len(Pending(c)') <= Len(Pending(c))
              /\ \A i \in 1 .. Len(Pending(c)') : Pending(c)'[i] = Pending(c)[i]
              /\ LastWord(c) \notin {"none", "logout"}
    BY <1>0, <2>1, PendingRead
  <2>5. ASSUME NEW d \in ConnId \ twice
        PROVE  Alternates(Pending(d), connToCharacter[d], LastWord(d))'
    <3>1. CASE Pending(d)' = Pending(d)
      BY <2>3, <2>5, <3>1, OrphanIdle
    <3>2. CASE Pending(d)' # Pending(d)
      <4>1. Pending(d)' \in Seq(ClientPacket)
        BY <2>4, <3>2
      <4>2. LastWord(d)' \notin {"none", "logout"}
        BY <2>3, <2>4, <3>2
      <4>3. Len(Pending(d)') <= Len(Pending(d))
            /\ \A i \in 1 .. Len(Pending(d)') : Pending(d)'[i] = Pending(d)[i]
        BY <2>4, <3>2
      <4>4. Pending(d) \in Seq(ClientPacket) /\ Alternates(Pending(d), connToCharacter[d], LastWord(d))
        BY <1>a, <2>5
      <4>5. Alternates(Pending(d)', connToCharacter[d], LastWord(d)')
        BY <4>1, <4>2, <4>3, <4>4, AlternatesPrefix
      <4> QED
        BY <2>3, <4>5
    <3> QED
      BY <3>1, <3>2
  <2> QED
    BY <1>b, <2>2, <2>5
<1>4. ASSUME NEW c \in ConnId, HandleLogin(c)
      PROVE  Rest'
  <2>1. /\ c = cursor /\ batch # <<>> /\ Head(batch) = "login" /\ batch' = Tail(batch)
        /\ connToCharacter' = [connToCharacter EXCEPT ![c] = nextActorId]
        /\ actors' = actors \cup {nextActorId}
        /\ UNCHANGED <<cursor, inbox, peer, said, twice>>
    BY <1>4 DEF HandleLogin, NextPacket, clientVars
  <2>2. /\ Pending(c)' = Tail(Pending(c)) /\ Pending(c) # <<>> /\ Pending(c)[1] = "login"
        /\ \A d \in ConnId \ {c} : Pending(d)' = Pending(d)
    BY <1>0, <2>1, PendingHandled
  <2>3. \A d \in ConnId : connToCharacter'[d] = IF d = c THEN nextActorId ELSE connToCharacter[d]
    BY <1>0, <2>1 DEF TypeOK
  <2>5. \A d \in ConnId : LastWord(d)' = LastWord(d)
    BY <2>1 DEF LastWord
  <2>6. ASSUME c \notin twice
        PROVE  connToCharacter[c] = NoActor
    BY <1>a, <2>2, <2>6 DEF Alternates
  <2>7. NoOrphans'
    <3> SUFFICES ASSUME twice = {}, NEW a \in actors'
                 PROVE  \E d \in ConnId : connToCharacter'[d] = a
      BY <2>1 DEF NoOrphans
    <3>1. CASE a = nextActorId
      BY <2>3, <3>1
    <3>2. CASE a \in actors
      <4>1. PICK d \in ConnId : connToCharacter[d] = a
        BY <3>2 DEF OrphanInv, NoOrphans
      <4>2. a # NoActor
        BY <1>0, <3>2 DEF TypeOK, ActorId, NoActor
      <4>3. d # c
        BY <2>6, <4>1, <4>2
      <4> QED
        BY <2>3, <4>1, <4>3
    <3> QED
      BY <2>1, <3>1, <3>2
  <2>8. ASSUME NEW d \in ConnId \ twice
        PROVE  Alternates(Pending(d), connToCharacter[d], LastWord(d))'
    <3>1. CASE d # c
      BY <2>2, <2>3, <2>5, <2>8, <3>1, OrphanIdle
    <3>2. CASE d = c
      <4>1. Alternates(Tail(Pending(c)), connToCharacter'[c], LastWord(c))
        BY <1>a, <2>2, <2>8, <3>2, AlternatesTail
      <4> QED
        BY <2>2, <2>5, <3>2, <4>1
    <3> QED
      BY <3>1, <3>2
  <2> QED
    BY <2>1, <2>7, <2>8
<1>5. ASSUME NEW c \in ConnId, OnDisconnect(c), UNCHANGED twice
      PROVE  /\ NoOrphans'
             /\ connToCharacter'[c] = NoActor
             /\ \A d \in ConnId \ {c} : connToCharacter'[d] = connToCharacter[d]
  <2>1. actors' = actors \ {connToCharacter[c]}
        /\ \A d \in ConnId : connToCharacter'[d] = IF d = c THEN NoActor ELSE connToCharacter[d]
    BY <1>0, <1>5, OnDisconnectEffect DEF TypeOK
  <2> QED
    BY <1>5, <2>1 DEF OrphanInv, NoOrphans
<1>6. ASSUME NEW c \in ConnId, HandleLogout(c)
      PROVE  Rest'
  <2>1. /\ c = cursor /\ batch # <<>> /\ Head(batch) = "logout" /\ batch' = Tail(batch)
        /\ OnDisconnect(c)
        /\ UNCHANGED <<cursor, inbox, peer, said, twice>>
    BY <1>6 DEF HandleLogout, NextPacket, clientVars
  <2>2. /\ Pending(c)' = Tail(Pending(c)) /\ Pending(c) # <<>> /\ Pending(c)[1] = "logout"
        /\ \A d \in ConnId \ {c} : Pending(d)' = Pending(d)
    BY <1>0, <2>1, PendingHandled
  <2>3. /\ NoOrphans'
        /\ connToCharacter'[c] = NoActor
        /\ \A d \in ConnId \ {c} : connToCharacter'[d] = connToCharacter[d]
    BY <1>5, <2>1
  <2>4. \A d \in ConnId : LastWord(d)' = LastWord(d)
    BY <2>1 DEF LastWord
  <2>5. ASSUME NEW d \in ConnId \ twice
        PROVE  Alternates(Pending(d), connToCharacter[d], LastWord(d))'
    <3>1. CASE d # c
      BY <2>2, <2>3, <2>4, <2>5, <3>1, OrphanIdle
    <3>2. CASE d = c
      <4>1. Alternates(Tail(Pending(c)), NoActor, LastWord(c))
        BY <1>a, <2>2, <2>5, <3>2, AlternatesTail
      <4> QED
        BY <2>2, <2>3, <2>4, <3>2, <4>1
    <3> QED
      BY <3>1, <3>2
  <2> QED
    BY <2>1, <2>3, <2>5
<1>7. ASSUME NEW c \in ConnId, RemoveDisconnected(c)
      PROVE  Rest'
  <2>1. /\ pc = "remove"
        /\ OnDisconnect(c)
        /\ inbox' = [inbox EXCEPT ![c] = <<>>]
        /\ UNCHANGED <<cursor, batch, peer, said, twice>>
    BY <1>7 DEF RemoveDisconnected, loopVars, clientVars
  <2>2. batch = <<>> /\ \A d \in ConnId : inbox'[d] = IF d = c THEN <<>> ELSE inbox[d]
    BY <1>0, <2>1 DEF SessionInv, BatchOwned, TypeOK
  <2>3. /\ NoOrphans'
        /\ connToCharacter'[c] = NoActor
        /\ \A d \in ConnId \ {c} : connToCharacter'[d] = connToCharacter[d]
    BY <1>5, <2>1
  <2>4. \A d \in ConnId : LastWord(d)' = LastWord(d)
    BY <2>1 DEF LastWord
  <2>5. Pending(c)' = <<>> /\ \A d \in ConnId \ {c} : Pending(d)' = Pending(d)
    <3>1. <<>> \o <<>> = <<>>
      BY EmptySeq, ConcatEmptySeq
    <3> QED
      BY <2>1, <2>2, <3>1 DEF Pending
  <2>6. ASSUME NEW d \in ConnId \ twice
        PROVE  Alternates(Pending(d), connToCharacter[d], LastWord(d))'
    <3>1. CASE d # c
      BY <2>3, <2>4, <2>5, <2>6, <3>1, OrphanIdle
    <3>2. CASE d = c
      BY <2>3, <2>5, <3>2, EmptySeq DEF Alternates
    <3> QED
      BY <3>1, <3>2
  <2> QED
    BY <2>1, <2>3, <2>6
<1>8. ASSUME NEW c \in ConnId, NEW m \in ClientPacket, ClientSend(c, m)
      PROVE  Rest'
  <2>1. /\ peer[c] = "open" /\ said[c] # "oversize"
        /\ inbox' = [inbox EXCEPT ![c] = Append(@, m)]
        /\ said' = [said EXCEPT ![c] = m]
        /\ twice' = IF m = "login" /\ said[c] = "login" THEN twice \cup {c} ELSE twice
        /\ UNCHANGED <<cursor, batch, connToCharacter, actors, peer>>
    BY <1>8 DEF ClientSend, loopVars, gameVars
  <2>2. twice \subseteq twice' /\ NoOrphans'
    BY <2>1 DEF OrphanInv, NoOrphans
  <2>3. \A d \in ConnId : connToCharacter'[d] = connToCharacter[d]
    BY <2>1
  <2>4. ASSUME NEW d \in ConnId \ twice'
        PROVE  Alternates(Pending(d), connToCharacter[d], LastWord(d))'
    <3>0. d \in ConnId \ twice
      BY <2>2
    <3>1. CASE d # c
      <4>1. Pending(d)' = Pending(d) /\ LastWord(d)' = LastWord(d)
        BY <1>0, <2>1, <3>1 DEF Pending, LastWord, TypeOK
      <4> QED
        BY <2>3, <3>0, <4>1, OrphanIdle
    <3>2. CASE d = c
      <4>1. Pending(c)' = Append(Pending(c), m)
        <5>1. inbox'[c] = Append(inbox[c], m)
          BY <1>0, <2>1 DEF TypeOK
        <5>2. inbox[c] \in Seq(ClientPacket) /\ batch \in Seq(ClientPacket)
          BY <1>0 DEF TypeOK, ClientPacket
        <5> DEFINE b == IF cursor = c THEN batch ELSE <<>>
        <5>3. b \in Seq(ClientPacket)
          BY <5>2, EmptySeq
        <5>4. Pending(c) = b \o inbox[c] /\ Pending(c)' = b \o Append(inbox[c], m)
          BY <2>1, <5>1 DEF Pending
        <5> HIDE DEF b
        <5> QED
          BY <5>2, <5>3, <5>4, AppendToConcat
      <4>2. LastWord(c)' = m
        BY <1>0, <2>1 DEF LastWord, TypeOK
      <4>3. m = "login" => LastWord(c) \in {"none", "logout"}
        BY <1>0, <2>1, <2>4, <3>2 DEF LastWord, TypeOK, ClientPacket
      <4>4. Alternates(Append(Pending(c), m), connToCharacter[c], m)
        BY <1>a, <3>0, <3>2, <4>3, AlternatesAppend
      <4> QED
        BY <2>3, <3>2, <4>1, <4>2, <4>4
    <3> QED
      BY <3>1, <3>2
  <2> QED
    BY <2>2, <2>4
<1>9. ASSUME NEW c \in ConnId, ClientClose(c)
      PROVE  Rest'
  <2>1. PICK n \in 0 .. Len(inbox[c]) : inbox' = [inbox EXCEPT ![c] = SubSeq(@, 1, n)]
    BY <1>9 DEF ClientClose
  <2>2. /\ peer' = [peer EXCEPT ![c] = "closed"]
        /\ said' = [said EXCEPT ![c] = "none"]
        /\ UNCHANGED <<cursor, batch, connToCharacter, actors, twice>>
    BY <1>9 DEF ClientClose, loopVars, gameVars
  <2>3. \A d \in ConnId : connToCharacter'[d] = connToCharacter[d]
    BY <2>2
  <2>4. ASSUME NEW d \in ConnId \ twice
        PROVE  Alternates(Pending(d), connToCharacter[d], LastWord(d))'
    <3>1. CASE d # c
      <4>1. Pending(d)' = Pending(d) /\ LastWord(d)' = LastWord(d)
        BY <1>0, <2>1, <2>2, <3>1 DEF Pending, LastWord, TypeOK
      <4> QED
        BY <2>3, <2>4, <4>1, OrphanIdle
    <3>2. CASE d = c
      <4> DEFINE b == IF cursor = c THEN batch ELSE <<>>
                 s == inbox[c]
                 p == SubSeq(s, 1, n)
      <4>1. b \in Seq(ClientPacket) /\ s \in Seq(ClientPacket) /\ p \in Seq(ClientPacket)
        BY <1>0 DEF TypeOK, ClientPacket
      <4>2. Len(p) = n /\ n \in Nat /\ n <= Len(s) /\ \A i \in 1 .. n : p[i] = s[i]
        BY <4>1
      <4>3. Pending(c) = b \o s /\ Pending(c)' = b \o p
        BY <1>0, <2>1, <2>2 DEF Pending, TypeOK
      <4>4. LastWord(c)' = "closed"
        BY <1>0, <2>2 DEF LastWord, TypeOK
      <4> HIDE DEF b, s, p
      <4>5. /\ b \o p \in Seq(ClientPacket) /\ b \o s \in Seq(ClientPacket)
            /\ Len(b \o p) <= Len(b \o s)
            /\ \A i \in 1 .. Len(b \o p) : (b \o p)[i] = (b \o s)[i]
        BY <4>1, <4>2
      <4>6. Alternates(b \o s, connToCharacter[c], LastWord(c))
        BY <1>a, <2>4, <3>2, <4>3
      <4>7. Alternates(b \o p, connToCharacter[c], "closed")
        BY <4>5, <4>6, AlternatesPrefix
      <4> QED
        BY <2>3, <3>2, <4>3, <4>4, <4>7
    <3> QED
      BY <3>1, <3>2
  <2> QED
    BY <1>b, <2>2, <2>4
<1> QED
  BY <1>0, <1>1, <1>2, <1>3, <1>4, <1>6, <1>7, <1>8, <1>9
  DEF Next, ServerStep, ClientStep, OrphanInv

\* While every client logs out before it logs in again, no character is left in
\* the registry that no connection plays, whatever the batches look like.
THEOREM OrphansNeedTwoLogins == Spec => []NoOrphans
<1>1. Spec => []OrphanInv
  BY OrphanInit, OrphanNext, PTL DEF Spec
<1>2. OrphanInv => NoOrphans
  BY DEF OrphanInv
<1> QED
  BY <1>1, <1>2, PTL

-----------------------------------------------------------------------------
(* The asynchronous rosters implement the instantaneous ones of Presence.   *)

Feed == {c \in ConnId : Follows(c)}

Believed(c) == {a \in 1 .. (nextActorId - 1) : WillKnow(c, a)}

View == [c \in ConnId |-> IF Follows(c) THEN Believed(c) ELSE {}]

\* Steps that change neither who follows, nor who plays what, nor what anyone
\* will know, are no steps of Presence.
LEMMA PromiseStutter ==
  ASSUME UNCHANGED <<connToCharacter, actors, nextActorId>>,
         \A c \in ConnId : /\ Follows(c)' <=> Follows(c)
                           /\ \A a \in 1 .. (nextActorId - 1) : WillKnow(c, a)' <=> WillKnow(c, a)
  PROVE  UNCHANGED Promise!vars
<1>1. Feed' = Feed
  BY DEF Feed
<1>2. \A c \in ConnId : Believed(c)' = Believed(c)
  BY DEF Believed
<1>3. View' = View
  BY <1>2 DEF View
<1> QED
  BY <1>1, <1>3 DEF Promise!vars, Feed, View, Believed

\* One client stops following, or had stopped already.
LEMMA PromiseDetach ==
  ASSUME UNCHANGED <<connToCharacter, actors, nextActorId>>, NEW c \in ConnId, ~Follows(c)',
         \A d \in ConnId \ {c} :
           /\ Follows(d)' <=> Follows(d)
           /\ \A a \in 1 .. (nextActorId - 1) : WillKnow(d, a)' <=> WillKnow(d, a)
  PROVE  Promise!Detach(c)
<1>1. Feed' = Feed \ {c}
  BY DEF Feed
<1>2. \A d \in ConnId \ {c} : Believed(d)' = Believed(d)
  BY DEF Believed
<1>3. View' = [View EXCEPT ![c] = {}]
  BY <1>2 DEF View
<1> QED
  BY <1>1, <1>3 DEF Promise!Detach, Feed, View, Believed

\* A connection that gives up its character, if it has one, and stops following.
LEMMA PromiseLeave ==
  ASSUME RosterInv, NEW c \in ConnId, OnDisconnect(c), UNCHANGED <<nextActorId, otherActors>>,
         ~Follows(c)', \A d \in ConnId \ {c} : Follows(d)' <=> Follows(d)
  PROVE  Promise!Leave(c) \/ Promise!Detach(c)
<1>0. TypeOK
  BY DEF RosterInv, SessionInv, Typed
<1>1. /\ connToCharacter' = [connToCharacter EXCEPT ![c] = NoActor]
      /\ actors' = actors \ {connToCharacter[c]}
  BY <1>0, OnDisconnectEffect
<1>2. ASSUME NEW d \in ConnId \ {c}, Follows(d)', NEW a
      PROVE  WillKnow(d, a)' <=>
               WillKnow(d, a) /\ ~(connToCharacter[c] # NoActor /\ a = connToCharacter[c])
  BY <1>0, <1>2, DespawnEffect DEF WillKnow
<1>3. Feed' = Feed \ {c}
  BY DEF Feed
<1>4. CASE connToCharacter[c] # NoActor
  <2>1. ASSUME NEW d \in ConnId \ {c}, Follows(d)
        PROVE  Believed(d)' = Believed(d) \ {connToCharacter[c]}
    BY <1>2, <1>4, <2>1 DEF Believed
  <2>2. View' = [d \in ConnId |-> IF d = c THEN {} ELSE View[d] \ {connToCharacter[c]}]
    BY <2>1 DEF View
  <2> QED
    BY <1>1, <1>3, <1>4, <2>2 DEF Promise!Leave, Feed, View, Believed
<1>5. CASE connToCharacter[c] = NoActor
  <2>1. connToCharacter' = connToCharacter /\ actors' = actors
    BY <1>5 DEF OnDisconnect
  <2>2. \A d \in ConnId \ {c} : \A a \in 1 .. (nextActorId - 1) : Follows(d)' =>
          (WillKnow(d, a)' <=> WillKnow(d, a))
    BY <1>2, <1>5
  <2>3. ASSUME NEW d \in ConnId \ {c}, Follows(d)
        PROVE  Believed(d)' = Believed(d)
    BY <2>2, <2>3 DEF Believed
  <2>4. View' = [View EXCEPT ![c] = {}]
    BY <2>3 DEF View
  <2> QED
    BY <1>3, <2>1, <2>4 DEF Promise!Detach, Feed, View, Believed
<1> QED
  BY <1>4, <1>5

\* A new character: its client learns who is there, everyone else of it.
LEMMA PromiseEnter ==
  ASSUME RosterInv, NEW c \in ConnId, HandleLogin(c)
  PROVE  Promise!Enter(c)
<1> DEFINE n == nextActorId
<1>0. TypeOK /\ IdsGivenOut /\ CharactersRegistered /\ n \in Nat \ {0}
  BY DEF RosterInv, SessionInv, Typed, TypeOK, ActorId
<1>1. /\ connToCharacter' = [connToCharacter EXCEPT ![c] = n]
      /\ actors' = actors \cup {n}
      /\ nextActorId' = n + 1
      /\ \A d \in ConnId : Follows(d)' <=> Follows(d)
  BY DEF HandleLogin, netVars, clientVars, Follows, Hears
<1>2. ASSUME NEW d \in ConnId, Follows(d), NEW a
      PROVE  WillKnow(d, a)' <=>
               \/ WillKnow(d, a)
               \/ IF d = c THEN a \in OtherCharacters(c) ELSE a = n
  BY <1>0, <1>2, LoginKnowledge DEF WillKnow
<1>3. ASSUME NEW d \in ConnId, NEW a, WillKnow(d, a)
      PROVE  a \in 1 .. (n - 1)
  BY <1>0, <1>3, KnownGivenOut
<1>4. OtherCharacters(c) \subseteq 1 .. (n - 1)
  <2> SUFFICES ASSUME NEW a \in OtherCharacters(c)
               PROVE  a \in 1 .. (n - 1)
    OBVIOUS
  <2>1. a \in actors
    BY <1>0 DEF OtherCharacters, CharactersRegistered
  <2>2. a \in Nat \ {0} /\ a < n
    BY <1>0, <2>1 DEF CharactersRegistered, TypeOK, ActorId
  <2> QED
    BY <1>0, <2>2
<1>5. ASSUME NEW d \in ConnId, Follows(d)
      PROVE  Believed(d)' = Believed(d) \cup (IF d = c THEN OtherCharacters(c) ELSE {n})
  <2> DEFINE new == IF d = c THEN OtherCharacters(c) ELSE {n}
  <2>1. Believed(d)' = {a \in 1 .. n : WillKnow(d, a)'}
    BY <1>0, <1>1 DEF Believed
  <2>2. \A a \in 1 .. n : WillKnow(d, a)' <=> WillKnow(d, a) \/ a \in new
    BY <1>2, <1>5
  <2>3. new \subseteq 1 .. n /\ \A a : WillKnow(d, a) => a \in 1 .. (n - 1)
    BY <1>0, <1>3, <1>4
  <2>4. 1 .. (n - 1) \subseteq 1 .. n
    BY <1>0
  <2> QED
    BY <2>1, <2>2, <2>3, <2>4 DEF Believed
<1>6. Feed' = Feed
  BY <1>1 DEF Feed
<1>7. View' = [d \in ConnId |-> IF d \notin Feed THEN View[d]
                               ELSE View[d] \cup (IF d = c THEN OtherCharacters(c) ELSE {n})]
  BY <1>1, <1>5 DEF View, Feed
<1>8. Promise!Players(c) = OtherCharacters(c)
  BY DEF Promise!Players, OtherCharacters
<1> QED
  BY <1>1, <1>6, <1>7, <1>8 DEF Promise!Enter, Feed, View, Believed

LEMMA PromiseInit == Init => Promise!Init
<1> SUFFICES ASSUME Init PROVE Promise!Init
  OBVIOUS
<1>1. \A c \in ConnId : ~Follows(c)
  BY DEF Init, Follows
<1> QED
  BY <1>1 DEF Init, Promise!Init

LEMMA PromiseNext == RosterInv /\ [Next]_vars => [Promise!Next]_(Promise!vars)
<1> SUFFICES ASSUME RosterInv, [Next]_vars
             PROVE  Promise!Next \/ UNCHANGED Promise!vars
  OBVIOUS
<1>0. TypeOK /\ SessionInv
  BY DEF RosterInv, SessionInv, Typed
<1>1. CASE Accept
  <2>0. PICK c \in ConnId : c = nextConnectionId
    BY <1>1 DEF Accept
  <2>1. /\ UNCHANGED <<connToCharacter, actors, nextActorId, out, otherActors>>
        /\ c \notin connections
        /\ connToCharacter[c] = NoActor /\ out[c] = <<>> /\ otherActors[c] = {}
    BY <1>0, <1>1, <2>0 DEF Accept, gameVars, wireVars, SessionInv, Unborn, TypeOK
  <2>2. \A d \in ConnId \ {c} : Follows(d)' <=> Follows(d)
    BY <1>0, <1>1, <2>0 DEF Accept, Follows, Hears, TypeOK, wireVars
  <2>3. ~Follows(c) /\ \A a : ~WillKnow(c, a)
    BY <2>1 DEF Follows, WillKnow, KnowsAfter
  <2>4. \A d \in ConnId : Believed(d)' = Believed(d)
    BY <2>1 DEF Believed, WillKnow
  <2>5. Believed(c) = {}
    BY <2>3 DEF Believed
  <2>6. View' = View /\ View[c] = {}
    BY <2>1, <2>2, <2>3, <2>4, <2>5 DEF View
  <2>7. CASE Follows(c)'
    <3>1. Feed' = Feed \cup {c}
      BY <2>1, <2>2, <2>7 DEF Feed
    <3>2. Promise!Attach(c)
      BY <2>1, <2>6, <3>1 DEF Promise!Attach, Feed, View, Believed
    <3> QED
      BY <2>1, <3>2 DEF Promise!Next
  <2>8. CASE ~Follows(c)'
    <3>1. Feed' = Feed
      BY <2>2, <2>3, <2>8 DEF Feed
    <3> QED
      BY <2>1, <2>6, <3>1 DEF Promise!vars, Feed, View, Believed
  <2> QED
    BY <2>7, <2>8
<1>2. ASSUME \/ BeginRead \/ EndRead \/ EndPoll \/ UNCHANGED vars
             \/ \E c \in ConnId : \E m \in ClientPacket : ClientSend(c, m)
      PROVE  UNCHANGED Promise!vars
  <2>1. UNCHANGED <<connToCharacter, actors, nextActorId, out, otherActors, netVars, stream, peer>>
    BY <1>2
    DEF BeginRead, EndRead, EndPoll, ClientSend, vars, netVars, gameVars, wireVars, clientVars
  <2> QED
    BY <2>1, PromiseStutter DEF Follows, Hears, netVars, WillKnow
<1>3. ASSUME NEW c \in ConnId, ReadConnection(c)
      PROVE  Promise!Next \/ UNCHANGED Promise!vars
  <2>1. PICK n \in 0 .. Len(inbox[c]) : Read(c, n)
    BY <1>3 DEF ReadConnection
  <2>2. UNCHANGED <<connToCharacter, actors, nextActorId, out, otherActors, connections, stream, peer>>
    BY <2>1 DEF Read, gameVars, clientVars
  <2>3. \A d \in ConnId \ {c} : disconnected'[d] = disconnected[d]
    BY <1>0, <2>1 DEF Read, TypeOK
  <2>4. disconnected'[c] \/ disconnected'[c] = disconnected[c]
    BY <1>0, <2>1 DEF Read, TypeOK
  <2>5. CASE disconnected'[c]
    <3>1. Promise!Detach(c)
      BY <2>2, <2>3, <2>5, PromiseDetach DEF Follows, Hears, WillKnow
    <3> QED
      BY <3>1 DEF Promise!Next
  <2>6. CASE disconnected'[c] = disconnected[c]
    BY <2>2, <2>3, <2>6, PromiseStutter DEF Follows, Hears, WillKnow
  <2> QED
    BY <2>4, <2>5, <2>6
<1>4. ASSUME NEW c \in ConnId, HandleLogin(c)
      PROVE  Promise!Next
  BY <1>4, PromiseEnter DEF Promise!Next
<1>5. ASSUME NEW c \in ConnId, HandleLogout(c)
      PROVE  Promise!Next
  <2>1. /\ OnDisconnect(c)
        /\ disconnected' = [disconnected EXCEPT ![c] = TRUE]
        /\ UNCHANGED <<connections, nextActorId, stream, peer, otherActors>>
    BY <1>5 DEF HandleLogout, clientVars
  <2>2. ~Follows(c)' /\ \A d \in ConnId \ {c} : Follows(d)' <=> Follows(d)
    BY <1>0, <2>1 DEF Follows, Hears, TypeOK
  <2> QED
    BY <2>1, <2>2, PromiseLeave DEF Promise!Next
<1>6. ASSUME NEW c \in ConnId, RemoveDisconnected(c)
      PROVE  Promise!Next
  <2>1. /\ OnDisconnect(c)
        /\ connections' = connections \ {c}
        /\ UNCHANGED <<disconnected, nextActorId, stream, peer, otherActors>>
    BY <1>6 DEF RemoveDisconnected, clientVars
  <2>2. ~Follows(c)' /\ \A d \in ConnId \ {c} : Follows(d)' <=> Follows(d)
    BY <2>1 DEF Follows, Hears
  <2> QED
    BY <2>1, <2>2, PromiseLeave DEF Promise!Next
<1>7. ASSUME NEW c \in ConnId, ClientReceive(c)
      PROVE  UNCHANGED Promise!vars
  <2>1. /\ UNCHANGED <<connToCharacter, actors, nextActorId>>
        /\ \A d \in ConnId : Follows(d)' <=> Follows(d)
    BY <1>7 DEF ClientReceive, gameVars, netVars, Follows, Hears
  <2>2. /\ \A d \in ConnId \ {c} : out'[d] = out[d] /\ otherActors'[d] = otherActors[d]
        /\ out'[c] = Tail(out[c])
        /\ otherActors'[c] = Apply(otherActors[c], Head(out[c]))
        /\ out[c] \in Seq(ServerPacket) /\ out[c] # <<>>
    BY <1>0, <1>7 DEF ClientReceive, TypeOK
  <2>3. \A a : WillKnow(c, a)' <=> WillKnow(c, a)
    BY <2>2, KnowsTail DEF WillKnow
  <2>4. \A d \in ConnId : \A a \in 1 .. (nextActorId - 1) : WillKnow(d, a)' <=> WillKnow(d, a)
    BY <2>2, <2>3 DEF WillKnow
  <2> QED
    BY <2>1, <2>4, PromiseStutter
<1>8. ASSUME NEW c \in ConnId, ClientClose(c)
      PROVE  Promise!Next
  <2>1. /\ UNCHANGED <<connToCharacter, actors, nextActorId>>
        /\ ~Follows(c)'
        /\ \A d \in ConnId \ {c} : /\ Follows(d)' <=> Follows(d)
                                   /\ out'[d] = out[d]
                                   /\ otherActors'[d] = otherActors[d]
    BY <1>0, <1>8 DEF ClientClose, TypeOK, gameVars, netVars, Follows, Hears
  <2>2. Promise!Detach(c)
    BY <2>1, PromiseDetach DEF WillKnow
  <2> QED
    BY <2>2 DEF Promise!Next
<1>9. ASSUME NEW c \in ConnId, SendFails(c)
      PROVE  Promise!Next
  <2>1. /\ UNCHANGED <<connToCharacter, actors, nextActorId, out, otherActors>>
        /\ ~Follows(c)'
        /\ \A d \in ConnId \ {c} : Follows(d)' <=> Follows(d)
    BY <1>0, <1>9 DEF SendFails, TypeOK, gameVars, netVars, clientVars, Follows, Hears
  <2>2. Promise!Detach(c)
    BY <2>1, PromiseDetach DEF WillKnow
  <2> QED
    BY <2>2 DEF Promise!Next
<1>10. ASSUME NEW c \in ConnId, SendDropped(c)
       PROVE  Promise!Next
  <2>1. /\ UNCHANGED <<connToCharacter, actors, nextActorId, otherActors>>
        /\ ~Follows(c)'
        /\ \A d \in ConnId \ {c} : Follows(d)' <=> Follows(d)
    BY <1>0, <1>10 DEF SendDropped, TypeOK, gameVars, netVars, clientVars, Follows
  <2>2. \A d \in ConnId \ {c} : out'[d] = out[d]
    BY <1>0, <1>10, DroppedType
  <2>3. Promise!Detach(c)
    BY <2>1, <2>2, PromiseDetach DEF WillKnow
  <2> QED
    BY <2>3 DEF Promise!Next
<1> QED
  BY <1>1, <1>2, <1>3, <1>4, <1>5, <1>6, <1>7, <1>8, <1>9, <1>10
  DEF Next, ServerStep, ClientStep

\* The server keeps its promise: seen through what each client will know once it
\* has read its stream, every run of the server is one of Presence, in which
\* players see each other come and go at once.
THEOREM PromiseHolds == Spec => PromiseKept
<1>1. Spec => []RosterInv
  BY RosterInit, RosterNext, PTL DEF Spec
<1> QED
  BY <1>1, PromiseInit, PromiseNext, PTL DEF Spec, PromiseKept, Promise!Spec
=============================================================================
