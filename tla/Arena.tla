------------------------------- MODULE Arena -------------------------------
(***************************************************************************)
(* Combat between the clients of the server: the fights of Combat, begun   *)
(* by requests of connections that come and go, and what each client is    *)
(* told of them.  Who is registered changes with logins and logouts, and   *)
(* what a client knows when it reads of a fight is what it has read before.*)
(*                                                                         *)
(* The poll loop, torn streams and clients that hang up are in Sessions;   *)
(* here a handler may run whenever its connection is there.  A client is   *)
(* what it has been sent: packets come in order, so that its state is a    *)
(* function of how many of them it has read.  Packets that change nothing  *)
(* it keeps of hit points and players are left out: skill results and      *)
(* lists, chat.                                                            *)
(***************************************************************************)
EXTENDS Combat

CONSTANTS
  Conn,     \* bound: the connections that are ever accepted
  NoActor,  \* no character, no actor id yet
  MaxBlows  \* bound: how often anybody's hit points may be changed

ASSUME ArenaAssumption ==
  /\ NoActor \notin Fighter
  /\ MaxBlows \in Nat

VARIABLES
  connections,   \* TcpServer::connections_
  disconnected,  \* Connection::disconnected_: the marked ones, there or gone
  character,     \* GameServer::connToCharacter_
  created,       \* the actors whose ids ActorManager has given out
  sent,          \* what was written to a connection that is there, in order
  unreported,    \* history: whose hit points changed since an attack result gave them
  blows          \* how often hit points were changed

arenaVars == <<vars, connections, disconnected, character, created, sent, unreported, blows>>

LoginResponse(a, h) == [type |-> "login", actor |-> a, hp |-> h]
Spawn(S) == [type |-> "spawn", ids |-> S]   \* a spawn, or the list at login
Despawn(a) == [type |-> "despawn", ids |-> {a}]
AttackResult(a, t, h) == [type |-> "attack", attacker |-> a, target |-> t, hp |-> h]

\* The server starts empty; what Combat keeps of an actor is in place for when
\* it is created.
ArenaInit ==
  /\ actors = {}
  /\ hp = [a \in Fighter |-> MaxHp]
  /\ published = <<>>
  /\ obits = [a \in Fighter |-> 0]
  /\ fatal = [a \in Fighter |-> "nothing"]
  /\ connections = {}
  /\ disconnected = {}
  /\ character = [c \in Conn |-> NoActor]
  /\ created = {}
  /\ sent = [c \in Conn |-> <<>>]
  /\ unreported = {}
  /\ blows = 0

-----------------------------------------------------------------------------
(* TestBot::handlePacket: a client that has read the first n packets of s. *)

\* actorId_ is a.
GoesBy(s, n, a) ==
  \E k \in 1 .. n :
    /\ s[k].type = "login" /\ s[k].actor = a
    /\ \A j \in k + 1 .. n : s[j].type # "login"

\* actorId_ is still 0.
Nobody(s, n) == \A k \in 1 .. n : s[k].type # "login"

\* a is among otherActors_.
Knows(s, n, a) ==
  \E k \in 1 .. n :
    /\ s[k].type = "spawn" /\ a \in s[k].ids
    /\ \A j \in k + 1 .. n : ~(s[j].type = "despawn" /\ a \in s[j].ids)

\* Whether p sets actorInfo_.current_hp of a client that goes by a, if a login
\* response, or would if it did.
IsAbout(p, a) == (p.type = "login" /\ p.actor = a) \/ (p.type = "attack" /\ p.target = a)

\* actorInfo_.current_hp is h, if a is the client's own.
HasHp(s, n, a, h) ==
  \E k \in 1 .. n :
    /\ IsAbout(s[k], a) /\ s[k].hp = h
    /\ \A j \in k + 1 .. n : ~IsAbout(s[j], a)

-----------------------------------------------------------------------------
(* Sessions, as far as fights depend on them. *)

\* A step without a part in any fight.
Quiet == published' = <<>> /\ UNCHANGED <<actors, hp, obits, fatal>>

\* broadcast and broadcastExcept: to the connections in D that are not marked.
Broadcast(D, m) ==
  [c \in Conn |-> IF c \in (connections \cap D) \ disconnected THEN Append(sent[c], m) ELSE sent[c]]

Accept(c) ==
  /\ c \notin connections /\ c \notin disconnected
  /\ connections' = connections \cup {c}
  /\ Quiet
  /\ UNCHANGED <<disconnected, character, created, sent, unreported, blows>>

\* Faulty: the dead are left out of the list a newcomer gets.
ThereAlive(c) == {a \in {character[d] : d \in Conn \ {c}} \ {NoActor} : IsAlive(a)}

\* Whom the list for c names.
There(c) == {character[d] : d \in Conn \ {c}} \ {NoActor}

\* The response and the list go to the connection even if it is marked.
HandleLogin(c, a) ==
  /\ c \in connections
  /\ a \in Fighter \ created
  /\ created' = created \cup {a}
  /\ actors' = actors \cup {a}
  /\ character' = [character EXCEPT ![c] = a]
  /\ LET told == Broadcast(Conn \ {c}, Spawn({a}))
         list == IF There(c) = {} THEN <<>> ELSE <<Spawn(There(c))>>
     IN  sent' = [told EXCEPT ![c] = Append(@, LoginResponse(a, hp[a])) \o list]
  /\ published' = <<>>
  /\ UNCHANGED <<hp, obits, fatal, connections, disconnected, unreported, blows>>

Despawned(c) ==
  IF character[c] = NoActor THEN sent ELSE Broadcast(Conn \ {c}, Despawn(character[c]))

OnDisconnect(c) ==
  /\ IF character[c] = NoActor THEN Quiet ELSE Leave(character[c])
  /\ character' = [character EXCEPT ![c] = NoActor]

HandleLogout(c) ==
  /\ c \in connections
  /\ OnDisconnect(c)
  /\ sent' = Despawned(c)
  /\ disconnected' = disconnected \cup {c}
  /\ UNCHANGED <<connections, created, unreported, blows>>

\* A frame that is too large marks the connection, whose character stays until
\* the end of the poll.
TooLarge(c) ==
  /\ c \in connections
  /\ disconnected' = disconnected \cup {c}
  /\ Quiet
  /\ UNCHANGED <<connections, character, created, sent, unreported, blows>>

RemoveDisconnected(c) ==
  /\ c \in connections \cap disconnected
  /\ OnDisconnect(c)
  /\ sent' = [Despawned(c) EXCEPT ![c] = <<>>]
  /\ connections' = connections \ {c}
  /\ UNCHANGED <<disconnected, created, unreported, blows>>

-----------------------------------------------------------------------------
(* Fights. *)

Strike == blows < MaxBlows /\ blows' = blows + 1

\* Faulty: the result is made up before the attack is carried out.
AttackEarly(c, t) ==
  /\ Strike
  /\ c \in connections
  /\ HandleAttack(character[c], t)
  /\ sent' = Broadcast(Conn, AttackResult(character[c], t, hp[t]))
  /\ unreported' = unreported \ {t}
  /\ UNCHANGED <<connections, disconnected, character, created>>

\* handleAttack to its end: whoever is connected hears of the attack, hit or
\* not, with the hit points the target is left with.
Attack(c, t) ==
  /\ Strike
  /\ c \in connections
  /\ HandleAttack(character[c], t)
  /\ sent' = Broadcast(Conn, AttackResult(character[c], t, hp'[t]))
  /\ unreported' = unreported \ {t}
  /\ UNCHANGED <<connections, disconnected, character, created>>

Changed == {a \in Fighter : hp'[a] # hp[a]}

\* A skill's result does not say what the target is left with.
Cast(c, t) ==
  /\ Strike
  /\ c \in connections
  /\ HandleSkillRequest(character[c], t)
  /\ unreported' = unreported \cup Changed
  /\ UNCHANGED <<connections, disconnected, character, created, sent>>

\* What else the classes let a caller do to registered actors, on the server's
\* thread: the server makes none of these calls today.
Elsewhere ==
  /\ Strike
  /\ \E a \in actors :
       \/ ProcessSkill(a)
       \/ OnLevelUp(a)
       \/ \E n \in Hits : TakeDamage(a, n)
       \/ \E n \in Heals : Heal(a, n)
       \/ \E t \in actors : ProcessAttack(a, t)
  /\ unreported' = unreported \cup Changed
  /\ UNCHANGED <<connections, disconnected, character, created, sent>>

ArenaNext ==
  \/ Elsewhere
  \/ \E c \in Conn :
       \/ Accept(c)
       \/ HandleLogout(c)
       \/ TooLarge(c)
       \/ RemoveDisconnected(c)
       \/ \E a \in Fighter : HandleLogin(c, a) \/ Attack(c, a) \/ Cast(c, a)

ArenaSpec == ArenaInit /\ [][ArenaNext]_arenaVars

-----------------------------------------------------------------------------
(* Properties. *)

Packet ==
  [type : {"login"}, actor : Fighter, hp : 0 .. MaxHp]
    \cup [type : {"spawn", "despawn"}, ids : SUBSET Fighter]
    \cup [type : {"attack"}, attacker : Fighter, target : Fighter, hp : 0 .. MaxHp]

\* Characters are registered actors, of one connection each, which is there;
\* and the rest has its type.
ArenaTypeOK ==
  /\ TypeOK
  /\ connections \subseteq Conn /\ disconnected \subseteq Conn
  /\ character \in [Conn -> Fighter \cup {NoActor}]
  /\ \A c \in Conn : character[c] # NoActor => c \in connections /\ character[c] \in actors
  /\ \A c, d \in Conn : c # d /\ character[c] # NoActor => character[c] # character[d]
  /\ actors \subseteq created /\ created \subseteq Fighter
  /\ sent \in [Conn -> Seq(Packet)]
  /\ unreported \subseteq Fighter
  /\ blows \in 0 .. MaxBlows

\* The actors nobody plays, left behind by a second login.
Orphans == actors \ {character[c] : c \in Conn}

\* Whoever is logged in and reads of an attack knows both sides by then, itself
\* being one of them or not, unless one is an orphan: spawns and lists are ahead
\* of every result that names the actor, and despawns behind.
FightersKnown ==
  \A c \in Conn : \A i \in 1 .. Len(sent[c]) :
    sent[c][i].type = "attack" /\ ~Nobody(sent[c], i - 1) =>
      \A a \in {sent[c][i].attacker, sent[c][i].target} :
        GoesBy(sent[c], i - 1, a) \/ Knows(sent[c], i - 1, a) \/ a \in Orphans

\* A client that is connected knows, once it has read what it was sent, which
\* actor it plays, and its hit points, unless they have changed otherwise than
\* by an attack request since.
OwnHpRight ==
  \A c \in connections \ disconnected :
    LET s == sent[c]
        a == character[c]
    IN  IF a = NoActor
        THEN Nobody(s, Len(s))
        ELSE /\ GoesBy(s, Len(s), a)
             /\ a \notin unreported => HasHp(s, Len(s), a, hp[a])
=============================================================================
