------------------------------ MODULE Sessions ------------------------------
(***************************************************************************)
(* The session core of the game server: TcpServer's poll loop, the part of *)
(* GameServer that gives a connection a character and takes it away, the   *)
(* actor registry, and the list of other players every client keeps from   *)
(* the spawn, despawn and list packets it is sent.                         *)
(*                                                                         *)
(* The server is one thread, so a packet handler is one action; clients    *)
(* and the network move between any two of them.  One iteration of poll    *)
(* is pc = "io" (accepts and timers), "read" (the range-for over the       *)
(* connections, at position cursor), then "remove" (removeDisconnected).   *)
(*                                                                         *)
(* Left out because no property here depends on it: names and stats in the *)
(* packets, replies that never touch a client's list of players (login     *)
(* response, skill list, chat, combat), ids wrapping at 2^32.              *)
(***************************************************************************)
EXTENDS Integers, Sequences

CONSTANTS
  MaxConns,  \* bound: how many connections are ever accepted
  MaxSends   \* bound: how many session packets the clients ever send, together

ASSUME ConstantsAssumption ==
  /\ MaxConns \in Nat \ {0}
  /\ MaxSends \in Nat \ {0}

ConnId == 1 .. MaxConns
ActorId == Nat \ {0}

\* No character, in connToCharacter; 0 is never handed out as an actor id.
NoActor == 0

\* What a client can write: the two session packets, and a frame whose length
\* prefix exceeds MAX_PACKET_SIZE.
ClientPacket == {"login", "logout", "oversize"}

\* What a client reads that changes its list of other players.
ServerPacket == [type : {"spawn", "despawn", "list"}, ids : SUBSET ActorId]

Spawn(a) == [type |-> "spawn", ids |-> {a}]
Despawn(a) == [type |-> "despawn", ids |-> {a}]
ActorList(S) == [type |-> "list", ids |-> S]

VARIABLES
  pc,                \* phase of the iteration of GameServer::run
  cursor,            \* the connection being read, 0 before the first
  batch,             \* packets parsed from cursor's buffer, not yet handled
  connections,       \* keys of TcpServer::connections_
  nextConnectionId,  \* TcpServer::nextConnectionId_
  disconnected,      \* Connection::disconnected_
  connToCharacter,   \* GameServer::connToCharacter_ (the character's id)
  actors,            \* keys of ActorManager::actors_
  nextActorId,       \* ActorManager::nextActorId_
  inbox,             \* bytes on their way to the server, as whole frames
  out,               \* bytes on their way to the client, as whole packets
  stream,            \* what failed sends left of the bytes to the client: whole, gaps or torn
  peer,              \* the client's end of the connection
  said,              \* the last session packet the client wrote
  twice,             \* history: the clients that logged in again while logged in
  sent,              \* how many packets the clients wrote
  otherActors        \* TestBot::otherActors_, as the set of its ids

loopVars == <<pc, cursor, batch>>
netVars == <<connections, nextConnectionId, disconnected>>
gameVars == <<connToCharacter, actors, nextActorId>>
wireVars == <<inbox, out, stream>>
clientVars == <<peer, said, twice, sent, otherActors>>
vars == <<loopVars, netVars, gameVars, wireVars, clientVars>>

Init ==
  /\ pc = "io"
  /\ cursor = 0
  /\ batch = <<>>
  /\ connections = {}
  /\ nextConnectionId = 1
  /\ disconnected = [c \in ConnId |-> FALSE]
  /\ connToCharacter = [c \in ConnId |-> NoActor]
  /\ actors = {}
  /\ nextActorId = 1
  /\ inbox = [c \in ConnId |-> <<>>]
  /\ out = [c \in ConnId |-> <<>>]
  /\ stream = [c \in ConnId |-> "whole"]
  /\ peer = [c \in ConnId |-> "none"]
  /\ said = [c \in ConnId |-> "none"]
  /\ twice = {}
  /\ sent = 0
  /\ otherActors = [c \in ConnId |-> {}]

-----------------------------------------------------------------------------
(* Sending.  Connection::sendPacket writes to the socket and its callers   *)
(* ignore the result.  What is written reaches the client as long as it    *)
(* keeps its end open, but for what the non-blocking socket has no room    *)
(* for: a frame of which nothing was taken is dropped whole, and the next  *)
(* one follows in its place; after a frame that was cut short the client   *)
(* can no longer tell where the next one begins.                           *)

Hears(c) == peer[c] = "open" /\ stream[c] # "torn"

\* broadcastExcept's recipients: every open connection, logged in or not.
Others(c) == {d \in connections \ {c} : ~disconnected[d]}

Broadcast(c, m) ==
  [d \in ConnId |-> IF d \in Others(c) /\ Hears(d) THEN Append(out[d], m) ELSE out[d]]

\* A reply or broadcast to c throws would_block part of the way through, and
\* nobody looks at the result.
SendFails(c) ==
  /\ c \in connections
  /\ Hears(c)
  /\ stream' = [stream EXCEPT ![c] = "torn"]
  /\ UNCHANGED <<loopVars, netVars, gameVars, inbox, out, clientVars>>

\* Or at its first byte: it is as if the last packet to c had not been written.
SendDropped(c) ==
  /\ c \in connections
  /\ Hears(c) /\ out[c] # <<>>
  /\ out' = [out EXCEPT ![c] = SubSeq(@, 1, Len(@) - 1)]
  /\ stream' = [stream EXCEPT ![c] = "gaps"]
  /\ UNCHANGED <<loopVars, netVars, gameVars, inbox, clientVars>>

-----------------------------------------------------------------------------
(* The poll loop. *)

\* io_.poll() runs handleAccept for a client that connected.
Accept ==
  /\ pc = "io"
  /\ nextConnectionId \in ConnId
  /\ connections' = connections \cup {nextConnectionId}
  /\ peer' = [peer EXCEPT ![nextConnectionId] = "open"]
  /\ nextConnectionId' = nextConnectionId + 1
  /\ UNCHANGED <<loopVars, disconnected, gameVars, wireVars, said, twice, sent, otherActors>>

BeginRead ==
  /\ pc = "io"
  /\ pc' = "read"
  /\ cursor' = 0
  /\ UNCHANGED <<batch, netVars, gameVars, wireVars, clientVars>>

\* The range-for is past the packets of one connection and reaches the next.
NextToRead(c) ==
  /\ pc = "read"
  /\ batch = <<>>
  /\ c \in connections
  /\ cursor < c
  /\ \A d \in connections : cursor < d => c <= d

\* readFromSocket brings in n more frames (0: would_block, part of a frame, or
\* the end of the stream, which read as the same -1), and getCompletePackets
\* parses them up to a frame that is too large, for which it disconnects.
\* A connection already marked as disconnected is not read.
Read(c, n) ==
  /\ NextToRead(c)
  /\ n = 0 \/ ~disconnected[c]
  /\ LET tooLarge == n > 0 /\ inbox[c][n] = "oversize"
     IN  /\ batch' = SubSeq(inbox[c], 1, IF tooLarge THEN n - 1 ELSE n)
         /\ disconnected' = [disconnected EXCEPT ![c] = @ \/ tooLarge]
  /\ inbox' = [inbox EXCEPT ![c] = SubSeq(@, n + 1, Len(@))]
  /\ cursor' = c
  /\ UNCHANGED <<pc, connections, nextConnectionId, gameVars, out, stream, clientVars>>

ReadConnection(c) == \E n \in 0 .. Len(inbox[c]) : Read(c, n)

EndRead ==
  /\ pc = "read"
  /\ batch = <<>>
  /\ \A d \in connections : d <= cursor
  /\ pc' = "remove"
  /\ UNCHANGED <<cursor, batch, netVars, gameVars, wireVars, clientVars>>

-----------------------------------------------------------------------------
(* GameServer's handlers for the packets of the batch. *)

NextPacket(m) == pc = "read" /\ batch # <<>> /\ Head(batch) = m

\* Faulty: a connection without a character gets into the list.
OtherCharactersWithNone(c) == {connToCharacter[d] : d \in ConnId \ {c}}

\* Faulty: the search starts at the connection's own place in the map.
OtherCharactersNewer(c) == {connToCharacter[d] : d \in (c + 1) .. MaxConns} \ {NoActor}

\* The characters of everyone but c.
OtherCharacters(c) == {connToCharacter[d] : d \in ConnId \ {c}} \ {NoActor}

\* A new character for the connection, whatever it had before; a spawn for the
\* other connections; the characters already there for this one, if any.
HandleLogin(c) ==
  /\ NextPacket("login")
  /\ c = cursor
  /\ actors' = actors \cup {nextActorId}
  /\ nextActorId' = nextActorId + 1
  /\ connToCharacter' = [connToCharacter EXCEPT ![c] = nextActorId]
  /\ LET spawned == Broadcast(c, Spawn(nextActorId))
         there   == OtherCharacters(c)
     IN  out' = IF there # {} /\ Hears(c)
                THEN [spawned EXCEPT ![c] = Append(@, ActorList(there))]
                ELSE spawned
  /\ batch' = Tail(batch)
  /\ UNCHANGED <<pc, cursor, netVars, inbox, stream, clientVars>>

\* Faulty: the map entry is left behind.
OnDisconnectNoErase(c) ==
  IF connToCharacter[c] = NoActor
  THEN UNCHANGED <<connToCharacter, actors, out>>
  ELSE /\ out' = Broadcast(c, Despawn(connToCharacter[c]))
       /\ actors' = actors \ {connToCharacter[c]}
       /\ UNCHANGED connToCharacter

\* Faulty: the actor is left behind.
OnDisconnectNoRemove(c) ==
  IF connToCharacter[c] = NoActor
  THEN UNCHANGED <<connToCharacter, actors, out>>
  ELSE /\ out' = Broadcast(c, Despawn(connToCharacter[c]))
       /\ connToCharacter' = [connToCharacter EXCEPT ![c] = NoActor]
       /\ UNCHANGED actors

\* Faulty: nobody is told.
OnDisconnectSilent(c) ==
  /\ actors' = actors \ {connToCharacter[c]}
  /\ connToCharacter' = [connToCharacter EXCEPT ![c] = NoActor]
  /\ UNCHANGED out

\* GameServer::onDisconnect: without a character it does nothing.
OnDisconnect(c) ==
  IF connToCharacter[c] = NoActor
  THEN UNCHANGED <<connToCharacter, actors, out>>
  ELSE /\ out' = Broadcast(c, Despawn(connToCharacter[c]))
       /\ actors' = actors \ {connToCharacter[c]}
       /\ connToCharacter' = [connToCharacter EXCEPT ![c] = NoActor]

\* Faulty: the connection is not marked.
HandleLogoutKeepsOpen(c) ==
  /\ NextPacket("logout")
  /\ c = cursor
  /\ OnDisconnect(c)
  /\ batch' = Tail(batch)
  /\ UNCHANGED <<pc, cursor, netVars, nextActorId, inbox, stream, clientVars>>

\* The character goes at once, the connection is only marked: the rest of its
\* batch is still handled.
HandleLogout(c) ==
  /\ NextPacket("logout")
  /\ c = cursor
  /\ OnDisconnect(c)
  /\ disconnected' = [disconnected EXCEPT ![c] = TRUE]
  /\ batch' = Tail(batch)
  /\ UNCHANGED <<pc, cursor, connections, nextConnectionId, nextActorId, inbox, stream, clientVars>>

-----------------------------------------------------------------------------
(* removeDisconnected.  The socket goes with the connection, and with it   *)
(* what was still to be read from it.                                      *)

ToRemove == {c \in connections : disconnected[c]}

\* Faulty: relies on handleLogout to have taken the character away.
RemoveDisconnectedOnly(c) ==
  /\ pc = "remove"
  /\ c \in ToRemove
  /\ \A d \in ToRemove : c <= d
  /\ connections' = connections \ {c}
  /\ inbox' = [inbox EXCEPT ![c] = <<>>]
  /\ UNCHANGED <<loopVars, nextConnectionId, disconnected, gameVars, out, stream, clientVars>>

RemoveDisconnected(c) ==
  /\ pc = "remove"
  /\ c \in ToRemove
  /\ \A d \in ToRemove : c <= d
  /\ OnDisconnect(c)
  /\ connections' = connections \ {c}
  /\ inbox' = [inbox EXCEPT ![c] = <<>>]
  /\ UNCHANGED <<loopVars, nextConnectionId, disconnected, nextActorId, stream, clientVars>>

EndPoll ==
  /\ pc = "remove"
  /\ ToRemove = {}
  /\ pc' = "io"
  /\ cursor' = 0
  /\ UNCHANGED <<batch, netVars, gameVars, wireVars, clientVars>>

-----------------------------------------------------------------------------
(* Clients. *)

\* A client writes one packet.  Past an oversize frame nothing it writes can be
\* read any more, so it stops there.
ClientSend(c, m) ==
  /\ peer[c] = "open"
  /\ c \in connections
  /\ sent < MaxSends
  /\ said[c] # "oversize"
  /\ inbox' = [inbox EXCEPT ![c] = Append(@, m)]
  /\ said' = [said EXCEPT ![c] = m]
  /\ twice' = IF m = "login" /\ said[c] = "login" THEN twice \cup {c} ELSE twice
  /\ sent' = sent + 1
  /\ UNCHANGED <<loopVars, netVars, gameVars, out, stream, peer, otherActors>>

\* TestBot::handlePacket: a spawn or a list adds, a despawn takes away.
Apply(S, m) == IF m.type = "despawn" THEN S \ m.ids ELSE S \cup m.ids

ClientReceive(c) ==
  /\ peer[c] = "open"
  /\ out[c] # <<>>
  /\ otherActors' = [otherActors EXCEPT ![c] = Apply(@, Head(out[c]))]
  /\ out' = [out EXCEPT ![c] = Tail(@)]
  /\ UNCHANGED <<loopVars, netVars, gameVars, inbox, stream, peer, said, twice, sent>>

\* TestBot::disconnect closes the socket and says nothing.  What the client had
\* written may or may not have left; the stream to it, its list of players and
\* the rest of its memory are gone (reconnect starts afresh, as a new client).
ClientClose(c) ==
  /\ peer[c] = "open"
  /\ peer' = [peer EXCEPT ![c] = "closed"]
  /\ \E n \in 0 .. Len(inbox[c]) : inbox' = [inbox EXCEPT ![c] = SubSeq(@, 1, n)]
  /\ out' = [out EXCEPT ![c] = <<>>]
  /\ otherActors' = [otherActors EXCEPT ![c] = {}]
  /\ stream' = [stream EXCEPT ![c] = "whole"]
  /\ said' = [said EXCEPT ![c] = "none"]
  /\ UNCHANGED <<loopVars, netVars, gameVars, twice, sent>>

-----------------------------------------------------------------------------
ServerStep ==
  \/ BeginRead
  \/ EndRead
  \/ EndPoll
  \/ \E c \in ConnId :
       \/ ReadConnection(c)
       \/ HandleLogin(c)
       \/ HandleLogout(c)
       \/ RemoveDisconnected(c)

ClientStep ==
  \E c \in ConnId :
    \/ \E m \in ClientPacket : ClientSend(c, m)
    \/ ClientReceive(c)
    \/ ClientClose(c)
    \/ SendFails(c)
    \/ SendDropped(c)

Next == Accept \/ ServerStep \/ ClientStep

Spec == Init /\ [][Next]_vars
-----------------------------------------------------------------------------
(* Properties. *)

TypeOK ==
  /\ pc \in {"io", "read", "remove"}
  /\ cursor \in 0 .. MaxConns
  /\ batch \in Seq({"login", "logout"})
  /\ connections \subseteq ConnId
  /\ nextConnectionId \in 1 .. (MaxConns + 1)
  /\ disconnected \in [ConnId -> BOOLEAN]
  /\ nextActorId \in ActorId
  /\ connToCharacter \in [ConnId -> Nat]
  /\ actors \subseteq ActorId
  /\ inbox \in [ConnId -> Seq(ClientPacket)]
  /\ out \in [ConnId -> Seq(ServerPacket)]
  /\ stream \in [ConnId -> {"whole", "gaps", "torn"}]
  /\ peer \in [ConnId -> {"none", "open", "closed"}]
  /\ said \in [ConnId -> ClientPacket \cup {"none"}]
  /\ twice \subseteq ConnId
  /\ sent \in 0 .. MaxSends
  /\ otherActors \in [ConnId -> SUBSET ActorId]

\* A connection that still counts: broadcasts go to it and its client hears them
\* all.
Follows(c) == c \in connections /\ ~disconnected[c] /\ peer[c] = "open" /\ stream[c] = "whole"

\* A client whose list is S and that then reads all of q ends up with a in its
\* list: the last packet that names a adds it, or none names it and it is there.
KnowsAfter(q, S, a) ==
  \/ \E i \in 1 .. Len(q) :
       /\ a \in q[i].ids
       /\ q[i].type # "despawn"
       /\ \A j \in (i + 1) .. Len(q) : a \notin q[j].ids
  \/ /\ a \in S
     /\ \A i \in 1 .. Len(q) : a \notin q[i].ids

WillKnow(c, a) == KnowsAfter(out[c], otherActors[c], a)

\* connToCharacter_ and the actor registry agree: the character of a connection
\* is registered, is nobody else's, and an id is not handed out again.
CharactersRegistered ==
  /\ \A a \in actors : a < nextActorId
  /\ \A c \in ConnId : connToCharacter[c] # NoActor => connToCharacter[c] \in actors
  /\ \A c, d \in ConnId :
       connToCharacter[c] # NoActor /\ connToCharacter[c] = connToCharacter[d] => c = d

\* As long as every client logs out before it logs in again, an actor without a
\* connection does not exist, however the two are packed into batches.
NoOrphans == twice = {} => \A a \in actors : \E c \in ConnId : connToCharacter[c] = a

\* A character never outlives its connection, whatever the batch that ended it
\* went on to ask: between two polls the connection is open and not given up.
NoGhostSession ==
  \A c \in ConnId : connToCharacter[c] # NoActor =>
    /\ c \in connections
    /\ disconnected[c] => pc \in {"read", "remove"} /\ c <= cursor

\* A player that is logged in has been told of every other player, or is about
\* to read of it, wherever spawn broadcasts and its own list crossed.
RosterComplete ==
  \A c, d \in ConnId :
    Follows(c) /\ c # d /\ connToCharacter[c] # NoActor /\ connToCharacter[d] # NoActor
      => WillKnow(c, connToCharacter[d])

\* No client is left believing in an actor that is gone, nor meets itself.
NoPhantoms ==
  \A c \in ConnId : Follows(c) =>
    \A a \in 1 .. (nextActorId - 1) : WillKnow(c, a) => a \in actors /\ a # connToCharacter[c]

\* The asynchronous rosters implement the instantaneous ones of Presence.
Promise == INSTANCE Presence WITH
  Conn <- ConnId, None <- NoActor,
  owner <- connToCharacter, there <- actors,
  feed <- {c \in ConnId : Follows(c)},
  view <- [c \in ConnId |->
             IF Follows(c) THEN {a \in 1 .. (nextActorId - 1) : WillKnow(c, a)} ELSE {}],
  next <- nextActorId

PromiseKept == Promise!Spec
=============================================================================
