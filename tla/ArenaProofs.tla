---------------------------- MODULE ArenaProofs ----------------------------
(***************************************************************************)
(* What clients know of fights, for any fighters, connections and number   *)
(* of blows.                                                               *)
(*                                                                         *)
(* A client's knowledge is a matter of the last packet that bears on it,   *)
(* and streams only grow at the end.  So there is a lemma on what a packet *)
(* more does to each kind of knowledge, an invariant of what connected     *)
(* clients know when they have read everything (View), and a proof that    *)
(* every handler writes what keeps it.  FightersKnown, which is about      *)
(* every beginning of a stream, follows from View when a result is added.  *)
(***************************************************************************)
EXTENDS Arena, CombatProofs

-----------------------------------------------------------------------------
(* Packets. *)

LEMMA PacketTypes ==
  ASSUME NEW a \in Fighter, NEW t \in Fighter, NEW h \in 0 .. MaxHp, NEW S \in SUBSET Fighter
  PROVE  /\ LoginResponse(a, h) \in Packet
         /\ Spawn(S) \in Packet
         /\ Despawn(a) \in Packet
         /\ AttackResult(a, t, h) \in Packet
  BY DEF LoginResponse, Spawn, Despawn, AttackResult, Packet

\* What a client that has read n packets knows does not depend on those behind.
LEMMA BeginningCounts ==
  ASSUME NEW s \in Seq(Packet), NEW m \in Packet, NEW n \in 0 .. Len(s), NEW a
  PROVE  /\ Nobody(Append(s, m), n) <=> Nobody(s, n)
         /\ GoesBy(Append(s, m), n, a) <=> GoesBy(s, n, a)
         /\ Knows(Append(s, m), n, a) <=> Knows(s, n, a)
  <1>1. \A k \in 1 .. n : Append(s, m)[k] = s[k]
    OBVIOUS
  <1>2. \A k \in 1 .. n : \A j \in k + 1 .. n : j \in 1 .. n
    OBVIOUS
  <1> QED
    BY <1>1, <1>2 DEF Nobody, GoesBy, Knows

\* What a packet more does to the knowledge at the end.
LEMMA OnePacketMore ==
  ASSUME NEW s \in Seq(Packet), NEW m \in Packet, NEW a
  PROVE  LET t == Append(s, m)
         IN  /\ m.type # "login" => (Nobody(t, Len(t)) <=> Nobody(s, Len(s)))
             /\ m.type # "login" => (GoesBy(t, Len(t), a) <=> GoesBy(s, Len(s), a))
             /\ m.type = "login" /\ m.actor = a => GoesBy(t, Len(t), a)
             /\ m.type = "spawn" /\ a \in m.ids => Knows(t, Len(t), a)
             /\ ~(m.type = "despawn" /\ a \in m.ids) /\ Knows(s, Len(s), a) => Knows(t, Len(t), a)
  <1> DEFINE t == Append(s, m)
  <1>1. /\ Len(t) = Len(s) + 1 /\ Len(s) \in Nat
        /\ t[Len(t)] = m
        /\ \A k \in 1 .. Len(s) : t[k] = s[k]
    OBVIOUS
  <1>2. \A k \in 1 .. Len(t) : k \in 1 .. Len(s) \/ k = Len(t)
    BY <1>1
  <1>3. \A k \in 1 .. Len(s) : \A j : j \in k + 1 .. Len(t) <=> j \in k + 1 .. Len(s) \/ j = Len(t)
    BY <1>1
  <1>4. Len(t) + 1 .. Len(t) = {} /\ Len(t) \in 1 .. Len(t) /\ \A k \in 1 .. Len(s) : k \in 1 .. Len(t)
    BY <1>1
  <1>5. \A k \in 1 .. Len(s) : \A j \in k + 1 .. Len(s) : j \in 1 .. Len(s)
    BY <1>1
  <1> HIDE DEF t
  <1>6. m.type # "login" => (Nobody(t, Len(t)) <=> Nobody(s, Len(s)))
    BY <1>1, <1>2, <1>4 DEF Nobody
  <1>7. m.type # "login" => (GoesBy(t, Len(t), a) <=> GoesBy(s, Len(s), a))
    <2>1. ASSUME m.type # "login", GoesBy(s, Len(s), a)
          PROVE  GoesBy(t, Len(t), a)
      <3>1. PICK k \in 1 .. Len(s) :
              /\ s[k].type = "login" /\ s[k].actor = a
              /\ \A j \in k + 1 .. Len(s) : s[j].type # "login"
        BY <2>1 DEF GoesBy
      <3>2. \A j \in k + 1 .. Len(t) : t[j].type # "login"
        BY <1>1, <1>3, <1>5, <2>1, <3>1
      <3>3. t[k] = s[k] /\ k \in 1 .. Len(t)
        BY <1>1, <1>4
      <3> QED
        BY <3>1, <3>2, <3>3 DEF GoesBy
    <2>2. ASSUME m.type # "login", GoesBy(t, Len(t), a)
          PROVE  GoesBy(s, Len(s), a)
      <3>1. PICK k \in 1 .. Len(t) :
              /\ t[k].type = "login" /\ t[k].actor = a
              /\ \A j \in k + 1 .. Len(t) : t[j].type # "login"
        BY <2>2 DEF GoesBy
      <3>2. k \in 1 .. Len(s)
        BY <1>1, <1>2, <2>2, <3>1
      <3>3. \A j \in k + 1 .. Len(s) : s[j].type # "login"
        BY <1>1, <1>3, <1>5, <3>1, <3>2
      <3>4. t[k] = s[k]
        BY <1>1, <3>2
      <3> QED
        BY <3>1, <3>2, <3>3, <3>4 DEF GoesBy
    <2> QED
      BY <2>1, <2>2
  <1>8. m.type = "login" /\ m.actor = a => GoesBy(t, Len(t), a)
    BY <1>1, <1>4 DEF GoesBy
  <1>9. m.type = "spawn" /\ a \in m.ids => Knows(t, Len(t), a)
    BY <1>1, <1>4 DEF Knows
  <1>10. ~(m.type = "despawn" /\ a \in m.ids) /\ Knows(s, Len(s), a) => Knows(t, Len(t), a)
    <2> SUFFICES ASSUME ~(m.type = "despawn" /\ a \in m.ids), Knows(s, Len(s), a)
                 PROVE  Knows(t, Len(t), a)
      OBVIOUS
    <2>1. PICK k \in 1 .. Len(s) :
            /\ s[k].type = "spawn" /\ a \in s[k].ids
            /\ \A j \in k + 1 .. Len(s) : ~(s[j].type = "despawn" /\ a \in s[j].ids)
      BY DEF Knows
    <2>2. \A j \in k + 1 .. Len(t) : ~(t[j].type = "despawn" /\ a \in t[j].ids)
      BY <1>1, <1>3, <1>5, <2>1
    <2>3. t[k] = s[k] /\ k \in 1 .. Len(t)
      BY <1>1, <1>4
    <2> QED
      BY <2>1, <2>2, <2>3 DEF Knows
  <1> QED
    BY <1>6, <1>7, <1>8, <1>9, <1>10 DEF t

LEMMA HpOnePacketMore ==
  ASSUME NEW s \in Seq(Packet), NEW m \in Packet, NEW a, NEW h
  PROVE  LET t == Append(s, m)
         IN  /\ IsAbout(m, a) /\ m.hp = h => HasHp(t, Len(t), a, h)
             /\ ~IsAbout(m, a) /\ HasHp(s, Len(s), a, h) => HasHp(t, Len(t), a, h)
  <1> DEFINE t == Append(s, m)
  <1>1. /\ Len(t) = Len(s) + 1 /\ Len(s) \in Nat
        /\ t[Len(t)] = m
        /\ \A k \in 1 .. Len(s) : t[k] = s[k]
    OBVIOUS
  <1>2. \A k \in 1 .. Len(s) : \A j : j \in k + 1 .. Len(t) <=> j \in k + 1 .. Len(s) \/ j = Len(t)
    BY <1>1
  <1>3. Len(t) + 1 .. Len(t) = {} /\ Len(t) \in 1 .. Len(t) /\ \A k \in 1 .. Len(s) : k \in 1 .. Len(t)
    BY <1>1
  <1>4. \A k \in 1 .. Len(s) : \A j \in k + 1 .. Len(s) : j \in 1 .. Len(s)
    BY <1>1
  <1> HIDE DEF t
  <1>5. IsAbout(m, a) /\ m.hp = h => HasHp(t, Len(t), a, h)
    BY <1>1, <1>3 DEF HasHp
  <1>6. ~IsAbout(m, a) /\ HasHp(s, Len(s), a, h) => HasHp(t, Len(t), a, h)
    BY <1>1, <1>2, <1>3, <1>4 DEF HasHp
  <1> QED
    BY <1>5, <1>6 DEF t

\* Whether everyone in the attack results of s is known to who reads them, O aside.
AllKnown(s, O) ==
  \A i \in 1 .. Len(s) :
    s[i].type = "attack" /\ ~Nobody(s, i - 1) =>
      \A a \in {s[i].attacker, s[i].target} : GoesBy(s, i - 1, a) \/ Knows(s, i - 1, a) \/ a \in O

LEMMA AllKnownOnePacketMore ==
  ASSUME NEW s \in Seq(Packet), NEW m \in Packet, NEW O, NEW P, O \subseteq P, AllKnown(s, O),
         m.type = "attack" /\ ~Nobody(s, Len(s)) =>
           \A a \in {m.attacker, m.target} :
             GoesBy(s, Len(s), a) \/ Knows(s, Len(s), a) \/ a \in P
  PROVE  AllKnown(Append(s, m), P)
  <1> DEFINE t == Append(s, m)
  <1>1. /\ Len(t) = Len(s) + 1 /\ Len(s) \in Nat
        /\ t[Len(t)] = m
        /\ \A k \in 1 .. Len(s) : t[k] = s[k]
    OBVIOUS
  <1>2. ASSUME NEW i \in 1 .. Len(t), t[i].type = "attack", ~Nobody(t, i - 1),
               NEW a \in {t[i].attacker, t[i].target}
        PROVE  GoesBy(t, i - 1, a) \/ Knows(t, i - 1, a) \/ a \in P
    <2>1. i - 1 \in 0 .. Len(s)
      BY <1>1
    <2>2. /\ ~Nobody(s, i - 1)
          /\ GoesBy(t, i - 1, a) <=> GoesBy(s, i - 1, a)
          /\ Knows(t, i - 1, a) <=> Knows(s, i - 1, a)
      BY <1>2, <2>1, BeginningCounts
    <2>3. CASE i = Len(t)
      <3>1. t[i] = m /\ i - 1 = Len(s)
        BY <1>1, <2>3
      <3> QED
        BY <1>2, <2>2, <3>1
    <2>4. CASE i # Len(t)
      <3>1. i \in 1 .. Len(s) /\ t[i] = s[i]
        BY <1>1, <2>4
      <3> QED
        BY <1>2, <2>2, <3>1 DEF AllKnown
    <2> QED
      BY <2>3, <2>4
  <1> QED
    BY <1>2 DEF AllKnown

-----------------------------------------------------------------------------
(* The invariant. *)

\* What was written to a connection goes with it.
NothingLeft == \A c \in Conn \ connections : sent[c] = <<>>

\* A client that is connected and logged in knows everyone else's character.
RosterRight ==
  \A c \in connections \ disconnected :
    character[c] # NoActor => \A a \in There(c) : Knows(sent[c], Len(sent[c]), a)

ArenaInv ==
  /\ Inv
  /\ ArenaTypeOK
  /\ NothingLeft
  /\ RosterRight
  /\ OwnHpRight
  /\ FightersKnown

LEMMA FightersKnownIsAllKnown ==
  FightersKnown <=> \A c \in Conn : AllKnown(sent[c], Orphans)
  BY DEF FightersKnown, AllKnown

LEMMA ArenaInitInv == ArenaInit => ArenaInv
  <1> SUFFICES ASSUME ArenaInit
               PROVE  ArenaInv
    OBVIOUS
  <1>1. Inv
    BY CombatAssumption DEF ArenaInit, Inv, TypeOK, DeathsAnnounced
  <1>2. ArenaTypeOK
    BY <1>1, ArenaAssumption DEF ArenaInit, ArenaTypeOK, Inv
  <1>3. NothingLeft /\ RosterRight /\ OwnHpRight /\ FightersKnown
    BY DEF ArenaInit, NothingLeft, RosterRight, OwnHpRight, FightersKnown
  <1> QED
    BY <1>1, <1>2, <1>3 DEF ArenaInv

-----------------------------------------------------------------------------
(* What steps do to Combat's part. *)

LEMMA QuietKeepsInv == ASSUME Inv, Quiet PROVE Inv'
  BY QuietInv DEF Quiet

\* A fight leaves the registry alone, and is a step of Combat.
LEMMA FightKeepsInv ==
  ASSUME Inv,
         NEW a \in Fighter,
         \/ ProcessSkill(a) \/ OnLevelUp(a)
         \/ \E n \in Hits : TakeDamage(a, n)
         \/ \E n \in Heals : Heal(a, n)
         \/ \E t \in Fighter : ProcessAttack(a, t) \/ HandleAttack(a, t) \/ HandleSkillRequest(a, t)
  PROVE  Inv' /\ actors' = actors
  <1>1. Next
    BY DEF Next
  <1>2. actors' = actors
    BY DEF ProcessSkill, HandleAreaSkill, HandleSelfSkill, OnLevelUp, TakeDamage, Heal,
           ProcessAttack, HandleBasicAttack, HandleSkillAttack, HandleAttack, HandleSkillRequest
  <1> QED
    BY <1>1, <1>2, NextInv

\* An attack touches nobody's hit points but the target's.
LEMMA AttackTouchesTarget ==
  ASSUME TypeOK, NEW a \in Fighter, NEW t \in Fighter, HandleAttack(a, t), NEW x \in Fighter \ {t}
  PROVE  hp'[x] = hp[x]
  <1>1. hp \in [Fighter -> 0 .. MaxHp]
    BY DEF TypeOK
  <1>2. Dodged \/ Hit(a, t, <<>>)
    BY DEF HandleAttack, HandleBasicAttack
  <1> QED
    BY <1>1, <1>2 DEF Dodged, Hit, Hurt

\* What OnDisconnect takes away, and what it leaves.
LEMMA OnDisconnectEffect ==
  ASSUME ArenaInv, NEW c \in Conn, OnDisconnect(c)
  PROVE  /\ Inv'
         /\ hp' = hp
         /\ actors' = actors \ {character[c]}
         /\ character' = [character EXCEPT ![c] = NoActor]
         /\ Orphans \subseteq Orphans'
  <1>1. /\ character \in [Conn -> Fighter \cup {NoActor}]
        /\ actors \subseteq Fighter
        /\ character[c] # NoActor => character[c] \in actors
    BY DEF ArenaInv, ArenaTypeOK, TypeOK
  <1>2. character' = [character EXCEPT ![c] = NoActor]
    BY DEF OnDisconnect
  <1>3. Inv' /\ hp' = hp /\ actors' = actors \ {character[c]}
    <2>1. CASE character[c] = NoActor
      <3>1. Quiet
        BY <2>1 DEF OnDisconnect
      <3>2. actors \ {character[c]} = actors
        BY <1>1, <2>1, ArenaAssumption
      <3> QED
        BY <3>1, <3>2, QuietKeepsInv DEF Quiet, ArenaInv
    <2>2. CASE character[c] # NoActor
      <3>1. Leave(character[c]) /\ character[c] \in Fighter
        BY <1>1, <2>2 DEF OnDisconnect
      <3>2. Next
        BY <3>1 DEF Next
      <3>3. Inv'
        BY <3>2, NextInv DEF ArenaInv
      <3> QED
        BY <3>1, <3>3 DEF Leave
    <2> QED
      BY <2>1, <2>2
  <1>4. Orphans \subseteq Orphans'
    BY <1>1, <1>2, <1>3, ArenaAssumption DEF Orphans
  <1> QED
    BY <1>2, <1>3, <1>4

-----------------------------------------------------------------------------
(* Streams. *)

LEMMA BroadcastEffect ==
  ASSUME ArenaTypeOK, NEW D \in SUBSET Conn, NEW m \in Packet
  PROVE  /\ Broadcast(D, m) \in [Conn -> Seq(Packet)]
         /\ \A d \in Conn :
              Broadcast(D, m)[d] = IF d \in (connections \cap D) \ disconnected
                                   THEN Append(sent[d], m) ELSE sent[d]
  <1>1. \A d \in Conn : sent[d] \in Seq(Packet) /\ Append(sent[d], m) \in Seq(Packet)
    BY DEF ArenaTypeOK
  <1> QED
    BY <1>1 DEF Broadcast

\* A stream stays as it is, or gets a packet that is no attack result.
LEMMA NoNewResult ==
  ASSUME NEW s \in Seq(Packet), NEW m \in Packet, m.type # "attack", NEW t,
         t = s \/ t = Append(s, m), NEW O, NEW P, O \subseteq P, AllKnown(s, O)
  PROVE  AllKnown(t, P)
  <1>1. CASE t = s
    BY <1>1 DEF AllKnown
  <1>2. CASE t = Append(s, m)
    BY <1>2, AllKnownOnePacketMore
  <1> QED
    BY <1>1, <1>2

-----------------------------------------------------------------------------
(* Steps without a packet. *)

\* Where nothing is written, nobody learns anything, or forgets it.
LEMMA NothingRead ==
  ASSUME FightersKnown, UNCHANGED <<actors, character, sent>>
  PROVE  FightersKnown'
  <1>1. Orphans' = Orphans
    BY DEF Orphans
  <1>2. \A c \in Conn : AllKnown(sent[c], Orphans)
    BY FightersKnownIsAllKnown
  <1>3. \A c \in Conn : AllKnown(sent'[c], Orphans')
    BY <1>1, <1>2
  <1> QED
    BY <1>3 DEF FightersKnown, AllKnown

LEMMA AcceptInv == ASSUME ArenaInv, NEW c \in Conn, Accept(c) PROVE ArenaInv'
  <1>1. /\ c \notin connections /\ c \notin disconnected
        /\ connections' = connections \cup {c}
        /\ UNCHANGED <<actors, hp, disconnected, character, created, sent, unreported, blows>>
    BY DEF Accept, Quiet
  <1>2. Inv'
    BY QuietKeepsInv DEF Accept, ArenaInv
  <1>3. ArenaTypeOK'
    BY <1>1, <1>2 DEF ArenaInv, ArenaTypeOK, Inv
  <1>4. NothingLeft'
    BY <1>1 DEF ArenaInv, NothingLeft
  <1>5. sent[c] = <<>> /\ character[c] = NoActor
    BY <1>1 DEF ArenaInv, NothingLeft, ArenaTypeOK
  <1>6. \A d \in connections' \ disconnected' : d = c \/ d \in connections \ disconnected
    BY <1>1
  <1>7. Nobody(<<>>, Len(<<>>))
    BY DEF Nobody
  <1>8. RosterRight'
    BY <1>1, <1>5, <1>6 DEF ArenaInv, RosterRight, There
  <1>9. OwnHpRight'
    BY <1>1, <1>5, <1>6, <1>7 DEF ArenaInv, OwnHpRight
  <1>10. FightersKnown'
    BY <1>1, NothingRead DEF ArenaInv
  <1> QED
    BY <1>2, <1>3, <1>4, <1>8, <1>9, <1>10 DEF ArenaInv

LEMMA TooLargeInv == ASSUME ArenaInv, NEW c \in Conn, TooLarge(c) PROVE ArenaInv'
  <1>1. /\ disconnected' = disconnected \cup {c}
        /\ UNCHANGED <<actors, hp, connections, character, created, sent, unreported, blows>>
    BY DEF TooLarge, Quiet
  <1>2. Inv'
    BY QuietKeepsInv DEF TooLarge, ArenaInv
  <1>3. ArenaTypeOK'
    BY <1>1, <1>2 DEF ArenaInv, ArenaTypeOK, Inv
  <1>4. NothingLeft'
    BY <1>1 DEF ArenaInv, NothingLeft
  <1>5. RosterRight' /\ OwnHpRight'
    BY <1>1 DEF ArenaInv, RosterRight, OwnHpRight, There
  <1>6. FightersKnown'
    BY <1>1, NothingRead DEF ArenaInv
  <1> QED
    BY <1>2, <1>3, <1>4, <1>5, <1>6 DEF ArenaInv

\* A skill, or a call from elsewhere: whose hit points change is marked.
LEMMA UnreportedInv ==
  ASSUME ArenaInv, Inv', actors' = actors, Strike,
         unreported' = unreported \cup Changed,
         UNCHANGED <<connections, disconnected, character, created, sent>>
  PROVE  ArenaInv'
  <1>1. blows' \in 0 .. MaxBlows
    BY ArenaAssumption DEF Strike, ArenaInv, ArenaTypeOK
  <1>2. ArenaTypeOK'
    BY <1>1 DEF ArenaInv, ArenaTypeOK, Inv, Changed
  <1>3. NothingLeft' /\ RosterRight' /\ FightersKnown'
    BY NothingRead DEF ArenaInv, NothingLeft, RosterRight, There
  <1>4. \A a \in Fighter : a \notin unreported' => a \notin unreported /\ hp'[a] = hp[a]
    BY DEF Changed
  <1>5. \A c \in Conn : character[c] # NoActor => character[c] \in Fighter
    BY DEF ArenaInv, ArenaTypeOK
  <1>6. OwnHpRight'
    BY <1>4, <1>5 DEF ArenaInv, OwnHpRight, ArenaTypeOK
  <1> QED
    BY <1>2, <1>3, <1>6 DEF ArenaInv

LEMMA CastInv == ASSUME ArenaInv, NEW c \in Conn, NEW t \in Fighter, Cast(c, t) PROVE ArenaInv'
  <1>1. character[c] \in Fighter /\ HandleSkillRequest(character[c], t)
    BY DEF Cast, HandleSkillRequest, ArenaInv, ArenaTypeOK, TypeOK
  <1>2. Inv' /\ actors' = actors
    BY <1>1, FightKeepsInv DEF ArenaInv
  <1> QED
    BY <1>2, UnreportedInv DEF Cast

LEMMA ElsewhereInv == ASSUME ArenaInv, Elsewhere PROVE ArenaInv'
  <1>1. actors \subseteq Fighter
    BY DEF ArenaInv, ArenaTypeOK, TypeOK
  <1>2. Inv' /\ actors' = actors
    BY <1>1, FightKeepsInv DEF Elsewhere, ArenaInv
  <1> QED
    BY <1>2, UnreportedInv DEF Elsewhere

-----------------------------------------------------------------------------
(* A character goes. *)

\* What of c's going is written to whom.
LEMMA DespawnedEffect ==
  ASSUME ArenaInv, NEW c \in Conn
  PROVE  /\ Despawned(c) \in [Conn -> Seq(Packet)]
         /\ \A d \in Conn :
              Despawned(c)[d] = IF character[c] # NoActor /\ d \in (connections \ {c}) \ disconnected
                                THEN Append(sent[d], Despawn(character[c])) ELSE sent[d]
  <1>1. ArenaTypeOK /\ sent \in [Conn -> Seq(Packet)] /\ connections \subseteq Conn
    BY DEF ArenaInv, ArenaTypeOK
  <1>2. CASE character[c] = NoActor
    BY <1>1, <1>2 DEF Despawned
  <1>3. CASE character[c] # NoActor
    <2>1. Despawn(character[c]) \in Packet
      BY <1>1, <1>3 DEF Despawn, Packet, ArenaTypeOK
    <2>2. Despawned(c) = Broadcast(Conn \ {c}, Despawn(character[c]))
      BY <1>3 DEF Despawned
    <2>3. /\ Broadcast(Conn \ {c}, Despawn(character[c])) \in [Conn -> Seq(Packet)]
          /\ \A d \in Conn :
               Broadcast(Conn \ {c}, Despawn(character[c]))[d] =
                 IF d \in (connections \cap (Conn \ {c})) \ disconnected
                 THEN Append(sent[d], Despawn(character[c])) ELSE sent[d]
      BY <1>1, <2>1, BroadcastEffect
    <2>4. connections \cap (Conn \ {c}) = connections \ {c}
      BY <1>1
    <2> QED
      BY <1>3, <2>2, <2>3, <2>4
  <1> QED
    BY <1>2, <1>3

\* Who is still connected, c not among them, is told of c's character, if any.
LEMMA DespawnInv ==
  ASSUME ArenaInv, NEW c \in Conn, OnDisconnect(c),
         NEW last \in {sent[c], <<>>}, sent' = [Despawned(c) EXCEPT ![c] = last],
         connections' \subseteq connections, disconnected' \subseteq Conn,
         c \notin connections' \ disconnected',
         c \notin connections' => last = <<>>,
         \A d \in Conn \ {c} :
           /\ d \in connections' <=> d \in connections
           /\ d \in disconnected' <=> d \in disconnected,
         UNCHANGED <<created, unreported, blows>>
  PROVE  ArenaInv'
  <1> DEFINE b == character[c]
             m == Despawn(b)
  <1>1. /\ Inv' /\ hp' = hp
        /\ actors' = actors \ {b}
        /\ character' = [character EXCEPT ![c] = NoActor]
        /\ Orphans \subseteq Orphans'
    BY OnDisconnectEffect
  <1>2. /\ sent \in [Conn -> Seq(Packet)]
        /\ character \in [Conn -> Fighter \cup {NoActor}]
        /\ \A d, e \in Conn : d # e /\ character[d] # NoActor => character[d] # character[e]
        /\ connections \subseteq Conn
    BY DEF ArenaInv, ArenaTypeOK
  <1>3. b # NoActor => m \in Packet /\ m.type = "despawn" /\ m.ids = {b}
    BY <1>2, CombatAssumption DEF Despawn, Packet
  <1>4. \A d \in Conn \ {c} :
          /\ character'[d] = character[d]
          /\ sent'[d] = sent[d] \/ (b # NoActor /\ sent'[d] = Append(sent[d], m))
    BY <1>1, <1>2, DespawnedEffect
  <1>5. sent' \in [Conn -> Seq(Packet)] /\ sent'[c] = last
    <2>1. Despawned(c) \in [Conn -> Seq(Packet)]
      BY DespawnedEffect
    <2>2. <<>> \in Seq(Packet) /\ sent[c] \in Seq(Packet)
      BY <1>2
    <2>3. last \in Seq(Packet)
      BY <2>2
    <2> QED
      BY <2>1, <2>3
  <1>6. ArenaTypeOK'
    <2>1. TypeOK'
      BY <1>1 DEF Inv
    <2>2. /\ connections' \subseteq Conn
          /\ character' \in [Conn -> Fighter \cup {NoActor}]
      BY <1>1, <1>2
    <2>3. \A d \in Conn : character'[d] # NoActor => d # c /\ character'[d] = character[d]
      BY <1>1, <1>2
    <2>4. /\ \A d \in Conn : character'[d] # NoActor => d \in connections' /\ character'[d] \in actors'
          /\ \A d, e \in Conn : d # e /\ character'[d] # NoActor => character'[d] # character'[e]
      <3>1. \A d \in Conn : character[d] # NoActor => d \in connections /\ character[d] \in actors
        BY DEF ArenaInv, ArenaTypeOK
      <3>2. \A d \in Conn : character'[d] # NoActor => d \in connections' /\ character[d] # b
        BY <1>2, <2>3, <3>1
      <3> QED
        BY <1>1, <1>2, <2>3, <3>1, <3>2
    <2>5. actors' \subseteq created' /\ created' \subseteq Fighter
      BY <1>1 DEF ArenaInv, ArenaTypeOK
    <2> QED
      BY <1>5, <2>1, <2>2, <2>4, <2>5 DEF ArenaTypeOK, ArenaInv
  <1>7. NothingLeft'
    <2>1. ASSUME NEW d \in Conn \ {c}, d \notin connections
          PROVE  sent'[d] = <<>>
      <3>1. sent[d] = <<>>
        BY <2>1 DEF ArenaInv, NothingLeft
      <3>2. sent'[d] = sent[d]
        BY <1>2, <2>1, DespawnedEffect
      <3> QED
        BY <3>1, <3>2
    <2>2. ASSUME NEW d \in Conn \ connections'
          PROVE  sent'[d] = <<>>
      BY <1>5, <2>1
    <2> QED
      BY <2>2 DEF NothingLeft
  <1>8. ASSUME NEW d \in connections' \ disconnected'
        PROVE  /\ d \in Conn \ {c} /\ d \in connections \ disconnected
               /\ Nobody(sent[d], Len(sent[d])) => Nobody(sent'[d], Len(sent'[d]))
               /\ \A a \in Fighter :
                    /\ GoesBy(sent[d], Len(sent[d]), a) => GoesBy(sent'[d], Len(sent'[d]), a)
                    /\ Knows(sent[d], Len(sent[d]), a) /\ a # b => Knows(sent'[d], Len(sent'[d]), a)
                    /\ HasHp(sent[d], Len(sent[d]), a, hp[a]) => HasHp(sent'[d], Len(sent'[d]), a, hp[a])
    <2>1. d \in Conn \ {c} /\ d \in connections \ disconnected /\ sent[d] \in Seq(Packet)
      BY <1>2
    <2>2. CASE sent'[d] = sent[d]
      BY <2>1, <2>2
    <2>3. CASE b # NoActor /\ sent'[d] = Append(sent[d], m)
      <3>1. \A a \in Fighter : ~IsAbout(m, a)
        BY <1>3, <2>3 DEF IsAbout
      <3>2. m \in Packet /\ m.type = "despawn" /\ m.ids = {b}
        BY <1>3, <2>3
      <3>3. ASSUME NEW a \in Fighter
            PROVE  /\ Nobody(sent[d], Len(sent[d])) => Nobody(sent'[d], Len(sent'[d]))
                   /\ GoesBy(sent[d], Len(sent[d]), a) => GoesBy(sent'[d], Len(sent'[d]), a)
                   /\ Knows(sent[d], Len(sent[d]), a) /\ a # b => Knows(sent'[d], Len(sent'[d]), a)
        <4> HIDE DEF m
        <4> DEFINE s == sent[d]
                   t == Append(s, m)
        <4>1. s \in Seq(Packet) /\ sent'[d] = t
          BY <2>1, <2>3
        <4> HIDE DEF s
        <4>2. /\ m.type # "login" => (Nobody(t, Len(t)) <=> Nobody(s, Len(s)))
              /\ m.type # "login" => (GoesBy(t, Len(t), a) <=> GoesBy(s, Len(s), a))
              /\ ~(m.type = "despawn" /\ a \in m.ids) /\ Knows(s, Len(s), a) => Knows(t, Len(t), a)
          BY <3>2, <4>1, OnePacketMore
        <4> QED
          BY <3>2, <4>1, <4>2 DEF s
      <3>4. ASSUME NEW a \in Fighter
            PROVE  HasHp(sent[d], Len(sent[d]), a, hp[a]) => HasHp(sent'[d], Len(sent'[d]), a, hp[a])
        <4> HIDE DEF m
        <4> DEFINE s == sent[d]
                   t == Append(s, m)
        <4>1. s \in Seq(Packet) /\ sent'[d] = t
          BY <2>1, <2>3
        <4> HIDE DEF s
        <4>2. ~IsAbout(m, a) /\ HasHp(s, Len(s), a, hp[a]) => HasHp(t, Len(t), a, hp[a])
          BY <3>2, <4>1, HpOnePacketMore
        <4> QED
          BY <3>1, <4>1, <4>2 DEF s
      <3>5. b \in Fighter
        BY <1>2, <2>3
      <3> QED
        BY <2>1, <3>3, <3>4, <3>5
    <2> QED
      BY <1>4, <2>1, <2>2, <2>3
  <1>9. RosterRight'
    <2>1. ASSUME NEW d \in connections' \ disconnected', character'[d] # NoActor,
                 NEW a \in There(d)'
          PROVE  Knows(sent'[d], Len(sent'[d]), a)
      <3>1. PICK e \in Conn \ {d} : a = character'[e] /\ a # NoActor
        BY <2>1 DEF There
      <3>2. e # c /\ a = character[e] /\ a # b /\ a \in Fighter
        BY <1>1, <1>2, <3>1
      <3>3. a \in There(d) /\ character[d] # NoActor /\ d \in connections \ disconnected
        BY <1>4, <1>8, <2>1, <3>1, <3>2 DEF There
      <3>4. Knows(sent[d], Len(sent[d]), a)
        BY <3>3 DEF ArenaInv, RosterRight
      <3> QED
        BY <1>8, <3>2, <3>4
    <2> QED
      BY <2>1 DEF RosterRight
  <1>10. OwnHpRight'
    <2>1. ASSUME NEW d \in connections' \ disconnected'
          PROVE  /\ d \in connections \ disconnected
                 /\ character'[d] = character[d]
                 /\ character[d] # NoActor => character[d] \in Fighter
      BY <1>2, <1>4, <1>8
    <2> QED
      BY <1>1, <1>8, <2>1 DEF ArenaInv, OwnHpRight
  <1>11. FightersKnown'
    <2>1. ASSUME NEW d \in Conn
          PROVE  AllKnown(sent'[d], Orphans')
      <3>1. AllKnown(sent[d], Orphans)
        BY FightersKnownIsAllKnown DEF ArenaInv
      <3>2. CASE d = c
        BY <1>1, <1>5, <3>1, <3>2 DEF AllKnown
      <3>3. CASE d # c
        <4> HIDE DEF m
        <4>1. CASE sent'[d] = sent[d]
          BY <1>1, <3>1, <4>1 DEF AllKnown
        <4>2. CASE b # NoActor /\ sent'[d] = Append(sent[d], m)
          BY <1>1, <1>2, <1>3, <3>1, <4>2, NoNewResult
        <4> QED
          BY <1>4, <3>3, <4>1, <4>2
      <3> QED
        BY <3>2, <3>3
    <2> QED
      BY <2>1, FightersKnownIsAllKnown DEF FightersKnown, AllKnown
  <1> QED
    BY <1>1, <1>6, <1>7, <1>9, <1>10, <1>11 DEF ArenaInv

LEMMA LogoutInv == ASSUME ArenaInv, NEW c \in Conn, HandleLogout(c) PROVE ArenaInv'
  <1>1. /\ OnDisconnect(c)
        /\ sent' = Despawned(c)
        /\ connections' = connections /\ c \in connections
        /\ disconnected' = disconnected \cup {c}
        /\ UNCHANGED <<created, unreported, blows>>
    BY DEF HandleLogout
  <1>2. /\ Despawned(c) \in [Conn -> Seq(Packet)]
        /\ Despawned(c)[c] = sent[c]
    BY DespawnedEffect
  <1>3. sent' = [Despawned(c) EXCEPT ![c] = sent[c]]
    BY <1>1, <1>2
  <1>4. disconnected \subseteq Conn
    BY DEF ArenaInv, ArenaTypeOK
  <1> QED
    BY <1>1, <1>3, <1>4, DespawnInv

LEMMA RemoveInv == ASSUME ArenaInv, NEW c \in Conn, RemoveDisconnected(c) PROVE ArenaInv'
  <1>1. /\ OnDisconnect(c)
        /\ sent' = [Despawned(c) EXCEPT ![c] = <<>>]
        /\ connections' = connections \ {c}
        /\ UNCHANGED <<disconnected, created, unreported, blows>>
    BY DEF RemoveDisconnected
  <1>2. disconnected \subseteq Conn
    BY DEF ArenaInv, ArenaTypeOK
  <1> QED
    BY <1>1, <1>2, DespawnInv

-----------------------------------------------------------------------------
(* A character comes. *)

LEMMA LoginInv ==
  ASSUME ArenaInv, NEW c \in Conn, NEW a \in Fighter, HandleLogin(c, a)
  PROVE  ArenaInv'
  <1> DEFINE lr == LoginResponse(a, hp[a])
             sp == Spawn({a})
             ls == Spawn(There(c))
             s1 == Append(sent[c], lr)
  <1>1. /\ c \in connections /\ a \notin created
        /\ created' = created \cup {a} /\ actors' = actors \cup {a}
        /\ character' = [character EXCEPT ![c] = a]
        /\ published' = <<>>
        /\ UNCHANGED <<hp, obits, fatal, connections, disconnected, unreported, blows>>
    BY DEF HandleLogin
  <1>2. /\ TypeOK
        /\ sent \in [Conn -> Seq(Packet)]
        /\ character \in [Conn -> Fighter \cup {NoActor}]
        /\ \A d \in Conn : character[d] # NoActor => d \in connections /\ character[d] \in actors
        /\ \A d, e \in Conn : d # e /\ character[d] # NoActor => character[d] # character[e]
        /\ connections \subseteq Conn
        /\ actors \subseteq created /\ created \subseteq Fighter
        /\ hp \in [Fighter -> 0 .. MaxHp]
    BY DEF ArenaInv, ArenaTypeOK, TypeOK
  <1>3. a # NoActor /\ a \notin actors /\ \A d \in Conn : character[d] # a
    BY <1>1, <1>2, ArenaAssumption
  <1>4. /\ lr \in Packet /\ lr.type = "login" /\ lr.actor = a /\ lr.hp = hp[a]
        /\ sp \in Packet /\ sp.type = "spawn" /\ sp.ids = {a}
        /\ ls \in Packet /\ ls.type = "spawn" /\ ls.ids = There(c)
    <2>1. There(c) \subseteq Fighter
      BY <1>2 DEF There
    <2>2. hp[a] \in 0 .. MaxHp
      BY <1>2
    <2>3. lr \in Packet /\ sp \in Packet /\ ls \in Packet
      BY <2>1, <2>2, PacketTypes
    <2> QED
      BY <2>3 DEF LoginResponse, Spawn
  <1>5. /\ s1 \in Seq(Packet)
        /\ sent'[c] \in Seq(Packet)
        /\ sent'[c] = IF There(c) = {} THEN s1 ELSE Append(s1, ls)
        /\ sent' \in [Conn -> Seq(Packet)]
        /\ \A d \in Conn \ {c} :
             sent'[d] = IF d \in connections \ disconnected THEN Append(sent[d], sp) ELSE sent[d]
    <2> DEFINE told == Broadcast(Conn \ {c}, sp)
               list == IF There(c) = {} THEN <<>> ELSE <<ls>>
    <2>1. /\ told \in [Conn -> Seq(Packet)]
          /\ \A d \in Conn : told[d] = IF d \in (connections \cap (Conn \ {c})) \ disconnected
                                     THEN Append(sent[d], sp) ELSE sent[d]
      <3> HIDE DEF sp
      <3> QED
        BY <1>4, BroadcastEffect DEF ArenaInv
    <2>2. sent' = [told EXCEPT ![c] = Append(told[c], lr) \o list]
      BY DEF HandleLogin
    <2>3. told[c] = sent[c] /\ sent[c] \in Seq(Packet) /\ s1 \in Seq(Packet)
      <3> HIDE DEF told, lr
      <3> QED
        BY <1>2, <1>4, <2>1
    <2>4. s1 \o list = IF There(c) = {} THEN s1 ELSE Append(s1, ls)
      <3> HIDE DEF s1, ls
      <3> QED
        BY <1>4, <2>3
    <2>5. (IF There(c) = {} THEN s1 ELSE Append(s1, ls)) \in Seq(Packet)
      <3> HIDE DEF s1, ls
      <3> QED
        BY <1>4, <2>3
    <2>6. sent' = [told EXCEPT ![c] = IF There(c) = {} THEN s1 ELSE Append(s1, ls)]
      BY <2>2, <2>3, <2>4
    <2> HIDE DEF told, s1, ls, sp
    <2>7. /\ sent' \in [Conn -> Seq(Packet)]
          /\ sent'[c] = IF There(c) = {} THEN s1 ELSE Append(s1, ls)
          /\ \A d \in Conn \ {c} : sent'[d] = told[d]
      BY <2>1, <2>5, <2>6
    <2> QED
      BY <1>2, <2>1, <2>3, <2>5, <2>7
  <1> HIDE DEF lr, sp, ls
  <1>6. Inv'
    BY <1>1, <1>2 DEF ArenaInv, Inv, TypeOK, DeathsAnnounced
  <1>7. ArenaTypeOK'
    <2>1. \A d \in Conn : character'[d] # NoActor => d \in connections' /\ character'[d] \in actors'
      BY <1>1, <1>2
    <2>2. \A d, e \in Conn : d # e /\ character'[d] # NoActor => character'[d] # character'[e]
      BY <1>1, <1>2, <1>3
    <2>3. character' \in [Conn -> Fighter \cup {NoActor}]
      BY <1>1, <1>2
    <2>4. actors' \subseteq created' /\ created' \subseteq Fighter
      BY <1>1, <1>2
    <2> QED
      BY <1>1, <1>5, <1>6, <2>1, <2>2, <2>3, <2>4 DEF ArenaTypeOK, ArenaInv, Inv
  <1>8. NothingLeft'
    BY <1>1, <1>5 DEF ArenaInv, NothingLeft
  <1>9. c \notin disconnected =>
          /\ GoesBy(sent'[c], Len(sent'[c]), a)
          /\ HasHp(sent'[c], Len(sent'[c]), a, hp[a])
          /\ \A x \in There(c) : Knows(sent'[c], Len(sent'[c]), x)
    <2>1. GoesBy(s1, Len(s1), a) /\ HasHp(s1, Len(s1), a, hp[a])
      <3>1. IsAbout(lr, a)
        BY <1>4 DEF IsAbout
      <3>2. sent[c] \in Seq(Packet)
        BY <1>2
      <3> QED
        BY <1>4, <3>1, <3>2, OnePacketMore, HpOnePacketMore
    <2>2. CASE There(c) = {}
      BY <1>5, <2>1, <2>2
    <2>3. CASE There(c) # {}
      <3>1. ~IsAbout(ls, a)
        BY <1>4 DEF IsAbout
      <3>2. sent'[c] = Append(s1, ls)
        BY <1>5, <2>3
      <3> HIDE DEF s1
      <3>3. GoesBy(sent'[c], Len(sent'[c]), a)
        BY <1>4, <1>5, <2>1, <3>2, OnePacketMore
      <3>4. HasHp(sent'[c], Len(sent'[c]), a, hp[a])
        BY <1>4, <1>5, <2>1, <3>1, <3>2, HpOnePacketMore
      <3>5. \A x \in There(c) : Knows(sent'[c], Len(sent'[c]), x)
        BY <1>4, <1>5, <3>2, OnePacketMore
      <3> QED
        BY <3>3, <3>4, <3>5
    <2> QED
      BY <2>2, <2>3
  <1>10. ASSUME NEW d \in (connections \ disconnected) \ {c}
         PROVE  /\ Nobody(sent[d], Len(sent[d])) => Nobody(sent'[d], Len(sent'[d]))
                /\ Knows(sent'[d], Len(sent'[d]), a)
                /\ \A x \in Fighter :
                     /\ GoesBy(sent[d], Len(sent[d]), x) => GoesBy(sent'[d], Len(sent'[d]), x)
                     /\ Knows(sent[d], Len(sent[d]), x) => Knows(sent'[d], Len(sent'[d]), x)
                     /\ HasHp(sent[d], Len(sent[d]), x, hp[x]) => HasHp(sent'[d], Len(sent'[d]), x, hp[x])
    <2> DEFINE s == sent[d]
               t == Append(s, sp)
    <2>1. s \in Seq(Packet) /\ sent'[d] = t
      BY <1>2, <1>5
    <2> HIDE DEF s
    <2>2. \A x \in Fighter : ~IsAbout(sp, x)
      BY <1>4 DEF IsAbout
    <2>3. Nobody(s, Len(s)) => Nobody(t, Len(t))
      BY <1>4, <2>1, OnePacketMore
    <2>4. Knows(t, Len(t), a)
      BY <1>4, <2>1, OnePacketMore
    <2>5. ASSUME NEW x \in Fighter
          PROVE  /\ GoesBy(s, Len(s), x) => GoesBy(t, Len(t), x)
                 /\ Knows(s, Len(s), x) => Knows(t, Len(t), x)
      BY <1>4, <2>1, OnePacketMore
    <2>6. ASSUME NEW x \in Fighter
          PROVE  HasHp(s, Len(s), x, hp[x]) => HasHp(t, Len(t), x, hp[x])
      BY <1>4, <2>1, <2>2, HpOnePacketMore
    <2> QED
      BY <2>1, <2>3, <2>4, <2>5, <2>6 DEF s
  <1>11. RosterRight'
    <2>1. ASSUME NEW d \in connections' \ disconnected', character'[d] # NoActor,
                 NEW x \in There(d)'
          PROVE  Knows(sent'[d], Len(sent'[d]), x)
      <3>1. PICK e \in Conn \ {d} : x = character'[e] /\ x # NoActor
        BY <2>1 DEF There
      <3>2. CASE d = c
        <4>1. x \in There(c)
          BY <1>1, <1>2, <3>1, <3>2 DEF There
        <4> QED
          BY <1>1, <1>9, <3>2, <4>1
      <3>3. CASE d # c /\ e = c
        BY <1>1, <1>2, <1>10, <3>1, <3>3
      <3>4. CASE d # c /\ e # c
        <4>1. x \in There(d) /\ x \in Fighter /\ character[d] # NoActor
          BY <1>1, <1>2, <2>1, <3>1, <3>4 DEF There
        <4>2. Knows(sent[d], Len(sent[d]), x)
          BY <1>1, <4>1 DEF ArenaInv, RosterRight
        <4> QED
          BY <1>1, <1>10, <3>4, <4>1, <4>2
      <3> QED
        BY <3>2, <3>3, <3>4
    <2> QED
      BY <2>1 DEF RosterRight
  <1>12. OwnHpRight'
    <2>1. character'[c] = a
      BY <1>1, <1>2
    <2>2. \A d \in (connections \ disconnected) \ {c} :
            /\ character'[d] = character[d]
            /\ character[d] # NoActor => character[d] \in Fighter
      BY <1>1, <1>2
    <2>3. \A d \in connections' \ disconnected' : d = c \/ d \in (connections \ disconnected) \ {c}
      BY <1>1
    <2> QED
      BY <1>1, <1>3, <1>9, <1>10, <2>1, <2>2, <2>3 DEF ArenaInv, OwnHpRight
  <1>13. FightersKnown'
    <2>1. Orphans \subseteq Orphans'
      BY <1>1, <1>2, <1>3 DEF Orphans
    <2>2. ASSUME NEW d \in Conn
          PROVE  AllKnown(sent'[d], Orphans')
      <3>1. AllKnown(sent[d], Orphans) /\ sent[d] \in Seq(Packet)
        BY <1>2, FightersKnownIsAllKnown DEF ArenaInv
      <3>2. CASE d = c
        <4>1. AllKnown(s1, Orphans')
          BY <1>2, <1>4, <2>1, <3>1, <3>2, NoNewResult
        <4> HIDE DEF s1
        <4>2. sent'[c] = s1 \/ sent'[c] = Append(s1, ls)
          BY <1>5
        <4> QED
          BY <1>4, <1>5, <3>2, <4>1, <4>2, NoNewResult
      <3>3. CASE d # c
        <4>1. sent'[d] = sent[d] \/ sent'[d] = Append(sent[d], sp)
          BY <1>5, <3>3
        <4> QED
          BY <1>4, <2>1, <3>1, <4>1, NoNewResult
      <3> QED
        BY <3>2, <3>3
    <2> QED
      BY <2>2, FightersKnownIsAllKnown DEF FightersKnown, AllKnown
  <1> QED
    BY <1>6, <1>7, <1>8, <1>11, <1>12, <1>13 DEF ArenaInv
-----------------------------------------------------------------------------
(* An attack and its result. *)

LEMMA StrikeInv ==
  ASSUME ArenaInv, NEW c \in Conn, NEW t \in Fighter, Attack(c, t)
  PROVE  ArenaInv'
  <1> DEFINE a == character[c]
             m == AttackResult(a, t, hp'[t])
  <1>1. /\ HandleAttack(a, t)
        /\ sent' = Broadcast(Conn, m)
        /\ unreported' = unreported \ {t}
        /\ UNCHANGED <<connections, disconnected, character, created>>
    BY DEF Attack
  <1>2. /\ TypeOK
        /\ sent \in [Conn -> Seq(Packet)]
        /\ character \in [Conn -> Fighter \cup {NoActor}]
        /\ connections \subseteq Conn
        /\ a \in actors /\ t \in actors
        /\ actors \subseteq Fighter
    BY <1>1 DEF ArenaInv, ArenaTypeOK, TypeOK, HandleAttack
  <1>3. Inv' /\ actors' = actors
    BY <1>1, <1>2, FightKeepsInv DEF ArenaInv
  <1>4. \A x \in Fighter \ {t} : hp'[x] = hp[x]
    BY <1>1, <1>2, AttackTouchesTarget
  <1>5. m \in Packet /\ m.type = "attack" /\ m.attacker = a /\ m.target = t /\ m.hp = hp'[t]
    <2>1. a \in Fighter /\ hp'[t] \in 0 .. MaxHp
      BY <1>2, <1>3 DEF Inv, TypeOK
    <2>2. m \in Packet
      BY <2>1, PacketTypes
    <2> QED
      BY <2>2 DEF AttackResult
  <1> HIDE DEF m
  <1>6. /\ sent' \in [Conn -> Seq(Packet)]
        /\ \A d \in Conn :
             sent'[d] = IF d \in connections \ disconnected THEN Append(sent[d], m) ELSE sent[d]
    <2>1. connections \cap Conn = connections
      BY <1>2
    <2>2. Conn \in SUBSET Conn /\ ArenaTypeOK
      BY DEF ArenaInv
    <2>3. /\ Broadcast(Conn, m) \in [Conn -> Seq(Packet)]
          /\ \A d \in Conn : Broadcast(Conn, m)[d] = IF d \in (connections \cap Conn) \ disconnected
                                                    THEN Append(sent[d], m) ELSE sent[d]
      BY <1>5, <2>2, BroadcastEffect
    <2> QED
      BY <1>1, <2>1, <2>3
  <1>7. ArenaTypeOK'
    <2>1. blows' \in 0 .. MaxBlows
      BY ArenaAssumption DEF Attack, Strike, ArenaInv, ArenaTypeOK
    <2> QED
      BY <1>1, <1>3, <1>6, <2>1 DEF ArenaInv, ArenaTypeOK, Inv
  <1>8. NothingLeft'
    BY <1>1, <1>6 DEF ArenaInv, NothingLeft
  <1>9. ASSUME NEW d \in connections \ disconnected
        PROVE  /\ sent[d] \in Seq(Packet) /\ sent'[d] = Append(sent[d], m)
               /\ Nobody(sent'[d], Len(sent'[d])) <=> Nobody(sent[d], Len(sent[d]))
               /\ \A x \in Fighter :
                    /\ GoesBy(sent'[d], Len(sent'[d]), x) <=> GoesBy(sent[d], Len(sent[d]), x)
                    /\ Knows(sent[d], Len(sent[d]), x) => Knows(sent'[d], Len(sent'[d]), x)
    <2>1. d \in Conn /\ sent[d] \in Seq(Packet) /\ sent'[d] = Append(sent[d], m)
      BY <1>2, <1>6
    <2>2. m \in Packet /\ m.type # "login" /\ m.type # "despawn"
      BY <1>5
    <2>3. Nobody(sent'[d], Len(sent'[d])) <=> Nobody(sent[d], Len(sent[d]))
      BY <2>1, <2>2, OnePacketMore
    <2>4. ASSUME NEW x \in Fighter
          PROVE  /\ GoesBy(sent'[d], Len(sent'[d]), x) <=> GoesBy(sent[d], Len(sent[d]), x)
                 /\ Knows(sent[d], Len(sent[d]), x) => Knows(sent'[d], Len(sent'[d]), x)
      BY <2>1, <2>2, OnePacketMore
    <2> QED
      BY <2>1, <2>3, <2>4
  <1>10. RosterRight'
    <2>1. ASSUME NEW d \in connections \ disconnected, character[d] # NoActor, NEW x \in There(d)
          PROVE  Knows(sent'[d], Len(sent'[d]), x)
      <3>1. x \in Fighter
        BY <1>2 DEF There
      <3>2. Knows(sent[d], Len(sent[d]), x)
        BY <2>1 DEF ArenaInv, RosterRight
      <3> QED
        BY <1>9, <3>1, <3>2
    <2> QED
      BY <1>1, <2>1 DEF RosterRight, There
  <1>11. OwnHpRight'
    <2>1. ASSUME NEW d \in connections \ disconnected, NEW x \in Fighter, x = character[d],
                 x \notin unreported'
          PROVE  HasHp(sent'[d], Len(sent'[d]), x, hp'[x])
      <3>1. CASE x = t
        <4>1. IsAbout(m, x) /\ m.hp = hp'[x]
          BY <1>5, <3>1 DEF IsAbout
        <4> QED
          BY <1>5, <1>9, <4>1, HpOnePacketMore
      <3>2. CASE x # t
        <4>1. ~IsAbout(m, x)
          BY <1>5, <3>2 DEF IsAbout
        <4>2. x \notin unreported /\ hp'[x] = hp[x] /\ x # NoActor
          BY <1>1, <1>4, <2>1, <3>2, ArenaAssumption
        <4>3. HasHp(sent[d], Len(sent[d]), x, hp'[x])
          BY <2>1, <4>2 DEF ArenaInv, OwnHpRight
        <4> QED
          BY <1>5, <1>9, <4>1, <4>3, HpOnePacketMore
      <3> QED
        BY <3>1, <3>2
    <2>2. ASSUME NEW d \in connections \ disconnected
          PROVE  /\ character[d] = NoActor => Nobody(sent'[d], Len(sent'[d]))
                 /\ character[d] # NoActor =>
                      character[d] \in Fighter /\ GoesBy(sent'[d], Len(sent'[d]), character[d])
      <3>1. character[d] = NoActor \/ (character[d] # NoActor /\ character[d] \in Fighter)
        BY <1>2
      <3> QED
        BY <1>9, <3>1 DEF ArenaInv, OwnHpRight
    <2> QED
      BY <1>1, <2>1, <2>2 DEF OwnHpRight
  <1>12. FightersKnown'
    <2>1. Orphans' = Orphans
      BY <1>1, <1>3 DEF Orphans
    <2>2. ASSUME NEW d \in Conn
          PROVE  AllKnown(sent'[d], Orphans)
      <3>1. AllKnown(sent[d], Orphans)
        BY FightersKnownIsAllKnown DEF ArenaInv
      <3>2. CASE d \notin connections \ disconnected
        BY <1>6, <3>1, <3>2 DEF AllKnown
      <3>3. CASE d \in connections \ disconnected
        <4>1. ASSUME ~Nobody(sent[d], Len(sent[d])), NEW x \in {a, t}
              PROVE  \/ GoesBy(sent[d], Len(sent[d]), x)
                     \/ Knows(sent[d], Len(sent[d]), x)
                     \/ x \in Orphans
          <5>1. x \in actors /\ x \in Fighter /\ x # NoActor
            BY <1>2, ArenaAssumption
          <5>2. character[d] # NoActor /\ GoesBy(sent[d], Len(sent[d]), character[d])
            BY <3>3, <4>1 DEF ArenaInv, OwnHpRight
          <5>3. CASE x \notin Orphans /\ x # character[d]
            <6>1. x \in There(d)
              BY <5>1, <5>3 DEF Orphans, There
            <6> QED
              BY <3>3, <5>2, <6>1 DEF ArenaInv, RosterRight
          <5> QED
            BY <5>2, <5>3
        <4>2. /\ sent[d] \in Seq(Packet) /\ m \in Packet
              /\ sent'[d] = Append(sent[d], m)
              /\ {m.attacker, m.target} = {a, t}
          BY <1>5, <1>9, <3>3
        <4>3. m.type = "attack" /\ ~Nobody(sent[d], Len(sent[d])) =>
                \A x \in {m.attacker, m.target} :
                  GoesBy(sent[d], Len(sent[d]), x) \/ Knows(sent[d], Len(sent[d]), x) \/ x \in Orphans
          BY <4>1, <4>2
        <4>4. Orphans \subseteq Orphans
          OBVIOUS
        <4>5. AllKnown(Append(sent[d], m), Orphans)
          BY <3>1, <4>2, <4>3, <4>4, AllKnownOnePacketMore
        <4> QED
          BY <4>2, <4>5
      <3> QED
        BY <3>2, <3>3
    <2> QED
      BY <2>1, <2>2, FightersKnownIsAllKnown DEF FightersKnown, AllKnown
  <1> QED
    BY <1>3, <1>7, <1>8, <1>10, <1>11, <1>12 DEF ArenaInv

-----------------------------------------------------------------------------
(* All steps. *)

LEMMA ArenaNextInv == ArenaInv /\ [ArenaNext]_arenaVars => ArenaInv'
  <1> SUFFICES ASSUME ArenaInv, [ArenaNext]_arenaVars
               PROVE  ArenaInv'
    OBVIOUS
  <1>1. CASE Elsewhere
    BY <1>1, ElsewhereInv
  <1>2. ASSUME NEW c \in Conn,
               Accept(c) \/ HandleLogout(c) \/ TooLarge(c) \/ RemoveDisconnected(c)
        PROVE  ArenaInv'
    BY <1>2, AcceptInv, LogoutInv, TooLargeInv, RemoveInv
  <1>3. ASSUME NEW c \in Conn, NEW a \in Fighter, HandleLogin(c, a) \/ Attack(c, a) \/ Cast(c, a)
        PROVE  ArenaInv'
    BY <1>3, LoginInv, StrikeInv, CastInv
  <1>4. CASE UNCHANGED arenaVars
    <2>1. UNCHANGED <<vars, connections, disconnected, character, created, sent, unreported, blows>>
      BY <1>4 DEF arenaVars
    <2>2. Inv' /\ ArenaTypeOK' /\ NothingLeft'
      BY <2>1 DEF vars, ArenaInv, Inv, TypeOK, DeathsAnnounced, ArenaTypeOK, NothingLeft
    <2>3. RosterRight' /\ OwnHpRight'
      BY <2>1 DEF vars, ArenaInv, RosterRight, There, OwnHpRight
    <2>4. FightersKnown'
      BY <2>1, NothingRead DEF vars, ArenaInv
    <2> QED
      BY <2>2, <2>3, <2>4 DEF ArenaInv
  <1> QED
    BY <1>1, <1>2, <1>3, <1>4 DEF ArenaNext

LEMMA ArenaInvHolds == ArenaSpec => []ArenaInv
  BY ArenaInitInv, ArenaNextInv, PTL DEF ArenaSpec

\* A character in play is a registered actor, played over one connection that
\* is there (GameServer::handleLogin, onDisconnect).
THEOREM ArenaTypeCorrect == ArenaSpec => []ArenaTypeOK
  <1>1. ArenaInv => ArenaTypeOK
    BY DEF ArenaInv
  <1> QED
    BY <1>1, ArenaInvHolds, PTL

\* Whoever falls to an attack is announced, and nobody who is alive, however
\* connections come and go (CombatSystem::handleBasicAttack).
THEOREM ArenaDeathsAnnounced == ArenaSpec => []DeathsAnnounced
  <1>1. ArenaInv => DeathsAnnounced
    BY DEF ArenaInv, Inv
  <1> QED
    BY <1>1, ArenaInvHolds, PTL

\* Both sides of an attack result are known to whoever is logged in and reads
\* it (GameServer::handleLogin, handleAttack, onDisconnect).
THEOREM FightersAreKnown == ArenaSpec => []FightersKnown
  <1>1. ArenaInv => FightersKnown
    BY DEF ArenaInv
  <1> QED
    BY <1>1, ArenaInvHolds, PTL

\* A client's own hit points are the server's, but for what no attack result
\* has told it (TestBot::handlePacket, GameServer::handleSkillRequest).
THEOREM OwnHpIsRight == ArenaSpec => []OwnHpRight
  <1>1. ArenaInv => OwnHpRight
    BY DEF ArenaInv
  <1> QED
    BY <1>1, ArenaInvHolds, PTL

\* Whoever comes and goes, only a level gained brings back the dead
\* (Actor::onLevelUp).
THEOREM ArenaDeathFinal == ArenaSpec => DeathIsFinal
  <1> DEFINE A == \A a \in Fighter : hp[a] = 0 => hp'[a] = 0 \/ OnLevelUp(a)
  <1>1. ASSUME ArenaInv, ArenaNext
        PROVE  A
    <2>1. CASE \E c \in Conn : HandleLogout(c) \/ RemoveDisconnected(c)
      <3>1. hp' = hp
        BY <1>1, <2>1, OnDisconnectEffect DEF HandleLogout, RemoveDisconnected
      <3> QED
        BY <3>1
    <2>2. CASE \E c \in Conn : Accept(c) \/ TooLarge(c)
      BY <2>2 DEF Accept, TooLarge, Quiet
    <2>3. CASE \E c \in Conn, a \in Fighter : HandleLogin(c, a)
      BY <2>3 DEF HandleLogin
    <2>4. CASE Elsewhere
      <3>1. actors \subseteq Fighter
        BY <1>1 DEF ArenaInv, ArenaTypeOK, TypeOK
      <3>2. Next
        BY <2>4, <3>1 DEF Elsewhere, Next
      <3> QED
        BY <1>1, <3>2, NextInv DEF ArenaInv
    <2>5. CASE \E c \in Conn, t \in Fighter : Attack(c, t) \/ Cast(c, t)
      <3>1. actors \subseteq Fighter
        BY <1>1 DEF ArenaInv, ArenaTypeOK, TypeOK
      <3>2. PICK c \in Conn, t \in Fighter :
              HandleAttack(character[c], t) \/ HandleSkillRequest(character[c], t)
        BY <2>5 DEF Attack, Cast
      <3>3. character[c] \in Fighter
        BY <3>1, <3>2 DEF HandleAttack, HandleSkillRequest
      <3>4. Next
        BY <3>2, <3>3 DEF Next
      <3> QED
        BY <1>1, <3>4, NextInv DEF ArenaInv
    <2> QED
      BY <1>1, <2>1, <2>2, <2>3, <2>4, <2>5 DEF ArenaNext
  <1>2. ArenaInv /\ [ArenaNext]_arenaVars =>
          [\A a \in Fighter : hp[a] = 0 => hp'[a] = 0 \/ OnLevelUp(a)]_vars
    <2>1. UNCHANGED arenaVars => UNCHANGED vars
      BY DEF arenaVars
    <2> QED
      BY <1>1, <2>1
  <1> QED
    BY ArenaInvHolds, <1>2, PTL DEF ArenaSpec, DeathIsFinal

\* Nor does it make processAction let through a fight with the dead, or kill
\* twice (CombatSystem::canPerformAction).
THEOREM ArenaValidatedActionsSound == ArenaSpec => ValidatedActionsSound
  <1> DEFINE A == \A a, t \in Fighter :
       ProcessAttack(a, t) =>
         /\ \A x \in Fighter : obits'[x] > obits[x] => obits[x] = 0 /\ x = t
         /\ \A i \in 1 .. Len(published') : published'[i].type = "damage" => hp[t] > 0 /\ hp[a] > 0
  <1>1. ArenaInv => A
    BY ProcessAttackSound DEF ArenaInv
  <1>2. ArenaInv => [A]_vars
    BY <1>1
  <1> QED
    BY ArenaInvHolds, <1>2, PTL DEF ValidatedActionsSound
=============================================================================
