# A verification project for the MMORPG server

TLA+ models of the server in `src/src`, checked with TLC on small instances,
and proofs about them checked with TLAPS. `PROJECT.json` lists the components,
the runs, for every definition the lines of code it stands for, the hazards the
properties are aimed at, the disagreements found, and the theorems.

## The system

One process, one thread. `GameServer::run` loops: run the ready handlers of the
`io_context` (a connection accepted, the tick timer), read every connection and
handle the packets that are complete, remove the connections that are marked,
sleep for a millisecond. Clients (`TestBot`) are other processes. What is
concurrent is the clients, the network between them and the server, the order
in which one poll meets the connections, and signals.

| Component | State | Operations | Talks to | What makes it correct |
|---|---|---|---|---|
| Sessions (`GameServer`) | `connToCharacter_`, event subscriptions | `handleLogin`, `handleLogout`, `onDisconnect`, packet dispatch | `TcpServer` callbacks in, broadcasts out; creates and removes actors | a character lives as long as its session; every client's list of players ends up right |
| `TcpServer` | `connections_`, `nextConnectionId_` | accept, `poll`, `removeDisconnected`, broadcasts, `disconnect` | calls the packet, connect and disconnect handlers | connections are read in order; a marked one is removed, and the handler told, once |
| `Connection`, `Socket` | `disconnected_`, `recvBuffer_`, the socket | read, cut into packets, send | bytes to and from the client | packets come out as they went in |
| `ActorManager` | `actors_`, `nextActorId_` | create, remove, look up, `updateAll` | used by sessions, ticks and combat | agrees with the sessions; ids are never used twice |
| `TestBot` | its socket, `recvBuffer_`, `otherActors_` | connect, login, send, receive, disconnect, reconnect | the server | its list of players follows what it reads |
| `EventBus` | `handlers_`, `pendingRemovals_`, `isPublishing_`, `eventQueue_` | subscribe, unsubscribe, publish, queue, process, clear | calls handlers, which may call it | no walk over a vector that changes; everyone served once, nobody after unsubscribing |
| `Character`, skill tree | level, experience, points, skills, mana, cooldowns, `lastUpdateTick_` | learn, upgrade, use, gain experience, update | the skill database; the tick | points conserved, requirements met, cooldowns kept |
| Combat | hit points | the four actions, attack and skill requests | publishes events; results to every client | the dead stay dead, deaths announced; clients know who fights and how they themselves fare |
| `Actor`, stats | primary and derived stats, hit points, mana, level | set a stat, rescale, damage, heal, spend, restore, level | the formulas of `StatCalculator` | in bounds; nothing gained by changing stats |
| Damage formulas | none | formulas | random numbers | minimum 1 |
| Lifecycle | `running_` (of the game server and of `TcpServer`), the tick timer, asio's queues | initialize, run, poll, accept, tick, shutdown, signal handler | everything | one tick and one accept pending, none after shutdown, shutdown completes |
| Configuration, chat, ping, skill lists | none that matters | | | |

What is hard here: a login's broadcast and the newcomer's list crossing with
other logins; batches that go on after the packet that ended their connection;
writes that stop inside a frame; a closed socket that reads like an idle one;
handlers that change what is being walked; clocks that are read before they
have been set; checks that exist and are gone past. `PROJECT.json` has the
hazards one by one.

## Modules

**Sessions** is the core: the poll loop, the session handlers, the registry, and
what every client believes about the others. A handler is one action, since the
server is one thread; clients act between any two of them. The phases `pc` =
"io", "read", "remove" are those of `run` and `poll`; `cursor` is the position of
the range-for over the ordered `connections_`; `batch` holds the packets that
`getCompletePackets` returned and that have not been handled. `inbox` and `out`
are the two streams of each connection, in packets; `stream` says what failed
sends left of the second: "torn" if a write stopped inside a frame, after which the
client reads nothing sensible any more (`SendFails`; Framing is that story in
bytes), "gaps" if not even the header was taken, so that the frame is missing whole
and the client reads on without it (`SendDropped`). The code looks at neither. Accepting is possible only in "io", because
`handleAccept` runs inside `io_.poll`. `Read` takes any number of the frames that
are there, including none (nothing arrived, part of a frame, or the end of the
stream, which the code cannot tell apart). A frame above `MAX_PACKET_SIZE` marks
the connection before the frames ahead of it are handled, as in the code.
`otherActors` is the set of ids in the TestBot's vector: whether an id is in it
twice makes no difference to a despawn, which removes every copy. Clients may
log in again whenever they like; `twice` is the history of the connections on
which somebody did.
Undefined behaviour: `onDisconnect` reads a name through a reference it has just
invalidated (GameServer.cpp:441); only what is printed depends on it, and the
model takes the outcome in which the server goes on.

**Presence** is what sessions are for, without a network: players enter and
leave, and whoever follows the broadcasts knows at once. `Sessions!Promise`
instantiates it with a refinement mapping: a client's view is what it *will*
know once it has read what it was sent (`WillKnow`), and a connection follows
while it is open at both ends and its stream is whole. Who enters again gets another
character, and the one before stays, in the game and unplayed. `PromiseKept` is the
refinement. **MCSessions** adds fairness and the properties that need it.

**Framing** is one direction of a connection in bytes: length prefix in network
order, reads of any size, the loop that takes the buffer apart. Server and bot
share the receiving code, line for line but for names. They differ as senders:
the bot stops after a failed write, the server does not look; `sender` is chosen
in Init. Bytes are digits to any base, 3 in the run and 256 in the code, and the
prefix is four of them; payload bytes can be taken for lengths. **MCFraming** gives the packets
and the fairness. **Channel** is what the two ends get out of it: packets handed over
one at a time in the order they were sent, until the receiver gives up, and no
promise once a server has written on after a torn frame. `Framing!Promise`
instantiates it; `ChannelKept` is the refinement.

**EventBus** models the bus with its real re-entrancy: `stack` holds the calls of
`publish` and `processQueue` under way. The range-for over `handlers_` is a
position, and what erasing leaves is said entry by entry (`Without`: the place of
an entry is the number of those kept up to it); erasing from the vector or growing it while a publication walks it is
undefined behaviour, which the model marks (`broken`) and goes no further with.
`HandlerCalls` says what handlers may call.

**Vitals** is an actor: primary stats, level, experience, maxima and current values,
with an action for each operation. `GainExperience` enters the loop of
`checkLevelUp`, `LevelUp` is one turn of it and `LevelingEnds` its exit; nothing else
happens in between. The rescaling of `recalculateDerivedStats` is the float
arithmetic of the code, not what it should come to: `Rescaled` rounds the quotient
and the product each to the nearest number of 24 bits, ties to the even one
(`Nearest`), and cuts the product off. A number of more than 31 bits is kept as two,
so that TLC can compute with it. `base` is the history the properties need: the
values and maxima as whatever but a change of stats last left them.

**CharacterSkills** makes a character of it: points, the skills of the default database
with their requirements, costs and cooldowns, and the two clocks (the server's tick
and `lastUpdateTick_`). Cooldowns are in the unit the code adds to a tick (seconds
times 1000), cut off from the float product: one less than the whole number for
skills 2 and 5 at level 4.

**Combat** has hit points, the four handlers of `CombatSystem` behind and without
`canPerformAction`, the two requests of the server, and `takeDamage`, `heal` and
the refill of `onLevelUp`. Dodge, critical hits and stats come down to a choice
of damage from `Hits`, at least 1 as `StandardDamageFormula` ends. Events are kept for
one step, and two histories (`obits`, `fatal`) say what was announced and why
somebody fell.

**Arena** extends Combat with the connections the requests come from: accept,
login, logout, a frame that is too large, removal, and attacks and skills asked
for by whoever is there. `sent` is what was written to each connection, in order;
a client is a function of what it has read of it (`GoesBy`, `Knows`, `HasHp` are
`actorId_`, `otherActors_` and `actorInfo_.current_hp` of the TestBot), so that a
property about every beginning of `sent` is about every moment of a client.
`Elsewhere` is what the classes let a caller do to registered actors besides
(`processAction`, `heal`, experience), which the server does not call today.
Streams that tear, batches and the order of a poll are left to Sessions: any
handler may run whenever its connection is there, which includes all those orders.
**MCArena** gives the symmetry.

**Lifecycle** is the process: `main`, `initialize`, `run`, `TcpServer::poll` around
asio's `poll`, the accept handler with its errors, `onTickTimer` and
`scheduleNextTick`, `shutdown`, and the signal handler. `pc` stops wherever
`running_` has been read and not yet been acted upon, and `Signal` may come at any
of these places. asio's reactor and its queue of ready handlers are counted, not
named (`waits`, `tickReady`, `tickAborted`, `accepts`, `acceptReady`,
`acceptFailed`): which of two equal handlers runs makes no difference. An accept may fail
as often as it is started (`AcceptFails`), as it does out of descriptors. A signal in
the middle of a container's or asio's own code is undefined (`SignalInside`) and
ends the behaviour, as does an exception from `set_option` (`AcceptThrows`), which
nothing catches.

**SessionsProofs, FramingProofs, EventBusProofs, CharacterSkillsProofs, CombatProofs,
ArenaProofs, VitalsProofs, LifecycleProofs** hold the proofs.

Operators whose comment begins with "Faulty:" are not part of a model. Each is a
variation of the definition after it, with a bug such code could have, and is
there to show that a property would notice.

## Runs

| Run | Bounds | Question |
|---|---|---|
| `sessions` | 2 connections, 3 packets, fair | Are registry and sessions consistent and the lists of players right, does the core implement Presence, are there orphans without a second login, does a logout complete and is it seen? |
| `sessions_hangup` | 2 connections, 1 packet, fair | *Violated:* is a client that hung up taken out? |
| `sessions_orphan` | 2 connections, 3 packets | *Violated:* does a newcomer, who logs in once, hear of every actor? |
| `framing` | 3 writes of 3 packets, reads of up to 6 bytes, fair | Does the stream implement Channel however it is cut, does nothing wait, and what does a torn write cost? |
| `eventbus` | 4 subscriptions, 4 events, depth 2 | Is the bus sound for handlers that unsubscribe and queue? |
| `eventbus_nested` | 2 subscriptions, 2 events, depth 2 | *Violated:* and for handlers that publish? |
| `skills` | skills 1 and 4, 2500 experience, 2 changes of vitality or intelligence, 3700 ticks | Is a character's progress right, a level at a time; are its cooldowns, and its values against their maxima? |
| `skills_firsttick` | skill 1, 3 ticks | *Violated:* are cooldowns kept before the first tick too? |
| `skills_seconds` | skill 1, 41 ticks | *Violated:* is a cooldown over after as many seconds as it has? |
| `combat` | 2 fighters, 2 connections, 20 hit points, 3 blows | Are the dead dead, and announced; do clients know who fights, and their own hit points? |
| `combat_dead` | 2 fighters, 50 hit points, no connections | *Violated:* are attacks between the living? |
| `lifecycle` | 2 clients, 2 signals, failing accepts, ticks modulo 3, fair | Is one tick and one accept pending, does shutdown complete and leave nothing, do ticks and reads go on? |

Why the bounds are enough. *Sessions:* what can go wrong between sessions is
between two of them, one reading what the other causes; three packets are enough
for a login, a logout and a login after it, or a second login, in one batch next
to a session of the other. A third player, who only listens to two others, is
covered by the proofs, which have no bound, and by no run.
*Framing:* packets of one, three and four bytes, the last above `MAX_PACKET_SIZE`,
torn anywhere and followed by another, are misread as packets of no bytes, of fewer
and of more than follow, and of too many; reads of 1 to 6 bytes cut every header and
packet, and bring the end of one with the beginning of the next. *EventBus:* a handler before, at and
after the one that runs, and one more. *CharacterSkills:* skill 4 needs skill 1
at level 2 and character level 5, so its gains (one of one level, one of
several) reach it with points to spare, by one turn of the loop and by three; 400 and
2500 are exactly the thresholds of levels 2 and 5. A jump of 1850 ticks falls before the 2000 of a
cooldown, two after them, and one exactly on its 1850 after an upgrade. 150 damage
leaves something of the 205 hit points at the start and nothing of 105, and the same
amount heals; the maxima about halve and double as vitality or intelligence goes to 0
and back, and stats that are set to what they were are among the steps. `RescaledToNearest` shows that rounding in the wrong place is noticed at
these sizes.
*Combat:* an action has one attacker and one target. Of 20 hit points a hit takes
15, so that the second has damage to spare, a skill's 20 kills at once and exactly,
and a heal of 5 lies between; three blows are enough to kill, hit the corpse and
heal it, between logins and logouts of either side. Fighters and connections are
symmetric: no definition names or orders one, and what a client's connection id
does to its stats is a change of stats in Vitals.
*Lifecycle:* the second signal comes during or after the shutdown of the first;
ticks are only compared with the one
before, so that three values tell them apart.

Bounds that are not in the code are `MaxConns`, `MaxSends`, `MaxWrites`,
`MaxHandlers`, `MaxEvents`, `MaxDepth`, `MaxExperience`, `MaxTicks`, `MaxSignals`,
`Conn`, `MaxBlows`, `Changing` and `MaxChanges`, and 2 for "many" in `obits`; each only keeps an environment action from happening again (`MaxTicks` of
Lifecycle is a modulus). `skills`, `framing`, `lifecycle` and `combat` run without
the check for deadlock: when mana, experience and time are used up, when the
receiver has given up and the writer written all it may, when the process has
ended, or when all connections are gone, nothing is left to do. Nowhere else may
the system stop.

### Fairness

`MCSessions!FairSpec`: the loop of `run` never stops by itself, hence weak
fairness of `ServerStep`; TCP delivers, so a client with bytes on the way gets,
among infinitely many polls, one whose read finds some (strong fairness of a
non-empty `Read`, which is enabled only while the cursor is in front of that
connection); a client keeps reading. Nothing makes clients write or close, the
system accept, or a send fail or not. `MCFraming!FairSpec`: the receiver polls
again and again. `Lifecycle!FairSpec`: the thread keeps running (weak fairness of
`MainStep`, which includes the handlers asio calls) and time passes (`TimerStep`).
Nobody has to connect, and no signal has to come. `TicksGoOn` and
`ConnectionsServed` say themselves what they need of the world (`FewFailures`): that
accepts do not fail for ever. If they do, each is started again in the poll that saw
it fail, and that poll does not return; without the premise TLC shows just this.

## Where code and documentation disagree

1. **A closed socket is never noticed** (`sessions_hangup`). The end of the stream
   becomes -1 and is taken for "no data"; the character stays for everyone.
   `Connection.hpp:38` and `bot_test.cpp:144` say otherwise.
2. **A second login orphans the first character** (`sessions_orphan`). It stays
   registered, can be attacked by whoever knew it, and is not in the list later
   players get (`GameServer.cpp:264`, against `:280`). The run asks only about
   clients that log in once: another one's second login is what they miss.
3. **A nested publish ends the outer one's protection** (`eventbus_nested`). The
   flag is a boolean and the inner call clears it (`EventBus.cpp:42`, against `:14`).
   No handler of the program publishes, so this waits for one that does.
4. **Cooldowns before the first tick are lost** (`skills_firsttick`), because
   `lastUpdateTick_` is still 0 (`Character.cpp:132`, against `Character.hpp:48`).
5. **The dead fight** (`combat_dead`). `handleAttack` goes past `canPerformAction`
   (`GameServer.cpp:312`, against `CombatSystem.hpp:24` and two tests of the other
   path).
6. **Cooldowns are fifty times too long** (`skills_seconds`). Seconds times 1000 are
   added to a count of ticks (`Character.cpp:131`), of which there are 20 in a second
   (`GameServer.hpp:26`): the 2 seconds (`Skill.hpp:113`) of a skill last 100.
   `CooldownRespected`, which holds, counts in the program's ticks: the wait is never
   shorter than they say, but it is not the wait the comment promises.

Seen and not run: a healing skill used on a target damages it (`GameServer.cpp:355`,
marked "Simplified"); `skillCooldowns_` is described as the tick of the last use (`Character.hpp:64`) and
holds the end of the cooldown; `SkillUsedEvent::target` is described as invalid
for self skills (`Event.hpp:33`) and is the caster; experience revives the dead;
a test says of level 2 that it takes 100 (`test_actor.cpp:113`) and the code asks 400.
Setting any stat may cost a hit point where no maximum changed, against the
comment at `Actor.cpp:44` ("if max changed"): 15 of 205 become 14, and 1 of 110
becomes 0, a death without `onDeath`; the server sets stats only of characters that
are full, which lose none (`UntouchedIsFull`). A signal before `initialize` has set
`running_` (`main.cpp:9`, `GameServer.cpp:96`) is answered with "shutting down" and
forgotten. Out of descriptors, accept fails at once and is started again within
the same poll, which never returns to the reads that could free one
(`TcpServer.cpp:79`). A tick rate of 0 divides by zero and one above 1000 arms a
timer that is due again in the same poll (`GameServer.cpp:42`). A client's own hit
points miss what skills did to it until the next attack (`OwnHpRight` says so).
The bot takes the end of its stream for silence, as the server does. From level
4635 on the threshold of `checkLevelUp` overflows (`Stats.hpp:87`).

## Proofs

All for every value of the constants, under the assumptions named next to them
(`ConstantsAssumption`, `FramingAssumption`, `BusAssumption`, `SkillsAssumption`,
`CombatAssumption`, `ArenaAssumption`, `LifecycleAssumption`).

**Sessions.** `TypeCorrect`, `RegistryConsistent`, `NoGhosts`, `RostersComplete`,
`RostersSound`, `OrphansNeedTwoLogins`, `PromiseHolds`. None of the properties is
inductive. `SessionInv` adds to the registry what makes it stay: a connection that has not been accepted has
no character, no stream and no place in a list (`Unborn`); a batch that is not
empty belongs to a connection that is there (`BatchOwned`), which is why a login
late in a batch cannot give a character to one that is gone; a frame that is too
large is the last its client wrote (`OversizeLast`), which is why a batch, cut off
before it, holds session packets only. `RosterInv` is about streams: what a client will
know (`WillKnow`, "the last packet that names the actor decides") changes with a
packet appended at the end and not with one taken from the front; two lemmas say
so, and every handler is a case of the first and every `ClientReceive` of the
second. That no id is in a stream before it is given out (`IdsGivenOut`) keeps
an old packet from naming a new character. For orphans, `OrphanInv` follows what a
client wrote and the server has not handled (`Pending`: the rest of the batch and
the inbox): as long as no second login was written, logins and logouts alternate
in it, starting with what the character on the connection calls for (`Alternates`),
so that a login never finds a character. `PromiseHolds` is the refinement: every
step of the core is one of Presence or a stutter, under the mapping by `WillKnow`.

**Framing.** `TypeCorrect`, `NothingIsStuck`, `PacketsInOrder`, `GivesUpOnlyForCause`,
`ChannelImplemented`:
for bytes to any base, any packets whose length the prefix can say, and reads of any
size. `RoundTrip` says that a length is read as it was written. What links the two
ends is the stream, the receiver's buffer and the wire behind it (`Stream`), which
a read does not change. `StreamInv` gives every packet ever written its place in all
that was written (`Offsets`), and says that the stream holds, from the first packet
not delivered, frame after frame at these places, and after them at most the
beginning of one frame more, whose write failed (`Pending`). So what the receiver
meets at the front is the header of the next packet or a piece too short for the
length it says (`Front`). It is an invariant of whole streams only (`Whole`): the
server writes on after a piece, which is why `GivesUpForCause` and `DeliveredInOrder`
ask for them and `NothingStuck` does not. `ChannelImplemented` is the refinement: taking
a frame apart is a `Deliver`, because both what was delivered before it and after it
is a beginning of what was sent; a write of the server that fails is the `Tear`.

**EventBus.** `TypeCorrect` without conditions; `QuietHandlersWalkSoundly`,
`RemovalsAreComplete`, `GoneAreNotCalled` and `EveryoneIsServedOnce` if handlers only
unsubscribe and queue (`QuietHandlers`, which the constants of `eventbus` satisfy and
the server's own handlers, which call nothing on the bus). `NoNesting` says that there is at
most one publication, that it is the innermost call, undisturbed, and that the flag
is set while it lasts; the assumption is needed, as `eventbus_nested` shows.
`Registry` says whose entries there are, in which order and which are off, and
`Deferral` that removals wait only while a publication is under way. `Walk` is about
the publication: whom it has passed it has called or they are gone, and whom
it has called it has passed, so that the order of ids keeps it from calling them
again. That erasing keeps the other entries in their order (`WithoutShape`) comes
from counting: as many ranks as entries kept, and no two the same (`NthType`).

**CharacterSkills.** `TypeCorrect`, `VitalsCorrect`, `UntouchedStaysFull`,
`LevelsEarned`, `PointsAreConserved`, `RequirementsKept`, `CooldownsRespected`, for
stats up to 1000 and experience below the 100,000,000 of level 1000
(`SkillsAssumption`). Those two keep every maximum below 2^14, which is what the
arithmetic of Vitals is exact for, and level and stats have to be in one invariant
(`ActorInv`) for it: the level is bounded only because it is earned. `LevelsEarned`
is about the loop: each turn has paid for the level it gives, and the exit is the
negation of its condition. The invariant of the
cooldowns (`CooldownInv`) ties `skillCooldowns` to the history of uses: it is the
tick of the use plus the cooldown at the level it was made with, if the use came
after the first tick. Points spent are counted as the pairs of
a skill and a level bought (`Bought`), of which learning and upgrading add one, and a
turn of the loop grants one.

**Vitals.** `RescaledBounds`: through the two roundings, a value carried over to a new
maximum stays between zero and it, and a full one stays full. Rounding to the nearest
never passes a whole number (`NearestBounds`); the ratio is at most 2^23 units of its
scale, and is that when full (`RatioFacts`); so the product is at most the new maximum,
in units that divide 2^23 (`UnitFacts`), and cutting off keeps it there. The lemmas
after it say what each operation of an actor keeps.

**Combat.** `TypeCorrect`, `DeathsAreAnnounced`, `DeathFinal`,
`ValidatedActionsAreSound`. `TypeOK /\ DeathsAnnounced` is inductive once `fatal`
says that the dead are exactly those something brought down.

**Arena.** `FightersAreKnown`, `OwnHpIsRight`, `ArenaTypeCorrect`, and Combat's
properties again, for actors that come and go. What a client knows after reading
everything changes with one packet at a time (`OnePacketMore`, `HpOnePacketMore`);
`RosterRight` says that it then knows everybody else's character, `NothingLeft` that
a connection that is gone keeps no stream. `FightersKnown`, which is about every
beginning, follows when a result is appended: its two sides are characters known by
`RosterRight`, the client's own by `OwnHpRight`, or orphans, and orphans stay orphans.

**Lifecycle.** `TypeCorrect`, `OneTickOneAcceptHolds`, `CleanAfterShutdownHolds`,
`NoTickAfterShutdownHolds`. `Phases` says what the flags can be at each place of the
thread, wherever the signal came; `Counts` follows the one tick and the one accept
through asio's queues, with the handler in hand counted as one.

Every invariant and every action property of a passing run is proved but one,
`ShareKept`, which is true of small maxima only: while quotient and product are exact
to less than the distance to the next whole number, changing stats never raises a
share (maxima below about 2900), and beyond that it may by one point, 629 of 1208
becoming 8416 of 16163. The server's characters start at 205 hit points and 132 to 177 mana,
which grow by 5 and 2 a level. Only model-checked, too, are the properties under
fairness (`AllDelivered`, `LogoutCompletes`, `DepartureSeen`, `ShutdownCompletes`,
`TicksGoOn`, `ConnectionsServed`): they need ENABLED, which the prover does not have.
Not proved either: that `Rescaled` is the arithmetic of the compiled code, which rests
on IEEE single precision without excess precision (a C++ program compared the two
on 112 million cases and found no difference), and anything about walks
outside `QuietHandlers`, where `IterationSound` is false.

## Not modelled

Configuration; chat, ping and skill list replies (no state); skill effects (no code
applies them); the bot's counters and waiting helpers; the demos; what protobuf
does with bytes; ids wrapping at 2^32; the formulas of attack, defence, chances and
damage, of which the models need only that a hit takes at least 1; overflow in
`experienceForLevel`, beyond the integers of TLC.

## Plan

In this order, the most important behaviour first.

1. *(done)* Sessions, Presence, MCSessions and their proofs, the refinement included.
2. *(done)* EventBus, CharacterSkills, Combat and their proofs; Framing.
3. *(done)* Lifecycle and its proofs.
4. *(done)* Vitals, as the actor of CharacterSkills, and its proofs.
5. *(done)* Arena, the composition of combat and sessions, and its proofs.
6. *(done)* Framing, EventBus and the skill points proved.
7. **The damage formula** as operators over bounded stats, against the minimum of 1.
8. **The bot's counters** against the attacks it took part in.
