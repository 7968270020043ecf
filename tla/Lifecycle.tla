----------------------------- MODULE Lifecycle -----------------------------
(***************************************************************************)
(* The life of the server process: main, initialize, the loop of run, the  *)
(* handlers asio calls from it (the tick timer's and the acceptor's), and  *)
(* shutdown, which only a signal calls while the loop is going.            *)
(*                                                                         *)
(* The signal handler runs between any two statements of the one thread,   *)
(* so pc stops wherever running_ has been read and not yet been acted      *)
(* upon.  In the middle of a container's or of asio's own code what it     *)
(* does is undefined; that ends a behaviour of this model.                 *)
(*                                                                         *)
(* Sessions has what the loop does with connections; here it comes down    *)
(* to which of them are open and which have a character.                   *)
(***************************************************************************)
EXTENDS Integers

CONSTANTS
  MaxConns,    \* bound: how many clients ever connect
  MaxTicks,    \* bound: ticks are counted modulo this
  MaxSignals   \* bound: how many signals arrive

ASSUME LifecycleAssumption ==
  /\ MaxConns \in Nat
  /\ MaxTicks \in Nat \ {0, 1}
  /\ MaxSignals \in Nat

ConnId == 1 .. MaxConns

VARIABLES
  pc,                \* the next statement of the main thread
  ret,               \* where a handler, or scheduleNextTick, returns to
  running,           \* GameServer::running_
  subscribed,        \* the two event handlers are on the bus
  currentTick,       \* GameServer::currentTick_
  serving,           \* TcpServer::running_
  stopped,           \* io_.stopped()
  connections,       \* keys of TcpServer::connections_
  nextConnectionId,  \* TcpServer::nextConnectionId_
  players,           \* keys of connToCharacter_, each with an actor
  waits,             \* async_waits asio's reactor has in its timer queue
  timer,             \* "new" until the thread has slept, then "old", then "due"
  tickReady,         \* handlers of expired waits, queued
  tickAborted,       \* handlers of cancelled waits, queued
  backlog,           \* clients the kernel has connected and asio not seen
  accepts,           \* async_accepts the reactor waits for clients with
  acceptReady,       \* accept handlers with a new socket, queued
  acceptFailed,      \* accept handlers with an error, queued
  signals,           \* how many signals arrived
  heard,             \* where the signal came that shut the server down
  undefined          \* a signal came where its effect is undefined

mainVars == <<pc, ret>>
gameVars == <<running, subscribed, currentTick, players>>
netVars == <<serving, stopped, connections, nextConnectionId>>
tickVars == <<waits, timer, tickReady, tickAborted>>
acceptVars == <<backlog, accepts, acceptReady, acceptFailed>>
worldVars == <<signals, heard, undefined>>
vars == <<mainVars, gameVars, netVars, tickVars, acceptVars, worldVars>>

Init ==
  /\ pc = "init" /\ ret = "loop"
  /\ running = FALSE /\ subscribed = FALSE /\ currentTick = 0 /\ players = {}
  /\ serving = FALSE /\ stopped = FALSE /\ connections = {} /\ nextConnectionId = 1
  /\ waits = 0 /\ timer = "new" /\ tickReady = 0 /\ tickAborted = 0
  /\ backlog = 0 /\ accepts = 0 /\ acceptReady = 0 /\ acceptFailed = 0
  /\ signals = 0 /\ heard = "nowhere" /\ undefined = FALSE

\* Counts 1 while the thread is at one of these places.
At(places) == IF pc \in places THEN 1 ELSE 0

-----------------------------------------------------------------------------
(* main and initialize. *)

\* The port is free: the server listens, but running_ is still to be set.
StartServer ==
  /\ pc = "init"
  /\ pc' = "started"
  /\ subscribed' = TRUE
  /\ serving' = TRUE
  /\ accepts' = 1
  /\ UNCHANGED <<ret, running, currentTick, players, stopped, connections, nextConnectionId,
                 tickVars, backlog, acceptReady, acceptFailed, worldVars>>

\* It is not: main returns 1, and the destructor's shutdown does nothing.
StartFails ==
  /\ pc = "init"
  /\ pc' = "failed"
  /\ subscribed' = TRUE
  /\ UNCHANGED <<ret, running, currentTick, players, netVars, tickVars, acceptVars, worldVars>>

Initialized ==
  /\ pc = "started"
  /\ running' = TRUE
  /\ pc' = "run"
  /\ UNCHANGED <<ret, subscribed, currentTick, players, netVars, tickVars, acceptVars, worldVars>>

-----------------------------------------------------------------------------
(* run. *)

\* run returns at once if it was told to stop by now.
Run ==
  /\ pc = "run"
  /\ pc' = IF running THEN "arm" ELSE "exit"
  /\ ret' = "loop"
  /\ UNCHANGED <<gameVars, netVars, tickVars, acceptVars, worldVars>>

Loop ==
  /\ pc = "loop"
  /\ pc' = IF running THEN "io" ELSE "exit"
  /\ UNCHANGED <<ret, gameVars, netVars, tickVars, acceptVars, worldVars>>

\* io_.poll() returns when no handler is queued and the reactor has nothing to
\* queue, or when io_ was stopped.
Idle ==
  /\ tickReady + tickAborted + acceptReady + acceptFailed = 0
  /\ ~(waits > 0 /\ timer = "due")
  /\ ~(accepts > 0 /\ backlog > 0)

EndPoll(here, next) ==
  /\ pc = here
  /\ stopped \/ Idle
  /\ pc' = next
  /\ UNCHANGED <<ret, gameVars, netVars, tickVars, acceptVars, worldVars>>

\* TcpServer::poll, up to the point where it has seen that it is running.
EnterServerPoll ==
  /\ pc = "poll"
  /\ pc' = IF serving THEN "restart" ELSE "sleep"
  /\ UNCHANGED <<ret, gameVars, netVars, tickVars, acceptVars, worldVars>>

\* It restarts io_ if that was stopped, and so gives the handlers that were
\* left in the queue by stop another chance.
Restart ==
  /\ pc = "restart"
  /\ stopped' = FALSE
  /\ pc' = "serverIo"
  /\ UNCHANGED <<ret, gameVars, serving, connections, nextConnectionId, tickVars, acceptVars, worldVars>>

\* The walk over the connections: some log in, some are removed.
Walk ==
  /\ pc = "walk"
  /\ \E new \in SUBSET connections, out \in SUBSET connections :
       /\ connections' = connections \ out
       /\ players' = (players \cup new) \ out
  /\ pc' = "sleep"
  /\ UNCHANGED <<ret, running, subscribed, currentTick, serving, stopped, nextConnectionId,
                 tickVars, acceptVars, worldVars>>

\* A millisecond passes.
Sleep ==
  /\ pc = "sleep"
  /\ timer' = IF timer = "new" THEN "old" ELSE timer
  /\ pc' = "loop"
  /\ UNCHANGED <<ret, gameVars, netVars, waits, tickReady, tickAborted, acceptVars, worldVars>>

-----------------------------------------------------------------------------
(* The tick timer. *)

Polling == pc \in {"io", "serverIo"} /\ ~stopped

\* The interval is over.  It is longer than one poll takes.
Elapse ==
  /\ waits > 0
  /\ timer = "old"
  /\ timer' = "due"
  /\ UNCHANGED <<mainVars, gameVars, netVars, waits, tickReady, tickAborted, acceptVars, worldVars>>

\* The reactor sees it and queues the handler, which cancel no longer reaches.
Expire ==
  /\ Polling
  /\ waits > 0
  /\ timer = "due"
  /\ waits' = waits - 1
  /\ tickReady' = tickReady + 1
  /\ UNCHANGED <<mainVars, gameVars, netVars, timer, tickAborted, acceptVars, worldVars>>

\* onTickTimer without an error.
OnTickTimer ==
  /\ Polling
  /\ tickReady > 0
  /\ tickReady' = tickReady - 1
  /\ pc' = IF running THEN "tick" ELSE pc
  /\ ret' = pc
  /\ UNCHANGED <<gameVars, netVars, waits, timer, tickAborted, acceptVars, worldVars>>

\* Faulty: onTickTimer without its first line.
OnTickTimerTrusting ==
  /\ Polling
  /\ tickAborted > 0
  /\ tickAborted' = tickAborted - 1
  /\ pc' = "tick"
  /\ ret' = pc
  /\ UNCHANGED <<gameVars, netVars, waits, timer, tickReady, acceptVars, worldVars>>

\* And with one.
OnTickTimerAborted ==
  /\ Polling
  /\ tickAborted > 0
  /\ tickAborted' = tickAborted - 1
  /\ UNCHANGED <<mainVars, gameVars, netVars, waits, timer, tickReady, acceptVars, worldVars>>

\* Faulty: the next tick is scheduled before this one, and again after it.
TickTwice ==
  /\ pc = "tick"
  /\ currentTick' = (currentTick + 1) % MaxTicks
  /\ pc' = "schedule"
  /\ waits' = waits + 1
  /\ UNCHANGED <<ret, running, subscribed, players, netVars, timer, tickReady, tickAborted,
                 acceptVars, worldVars>>

Tick ==
  /\ pc = "tick"
  /\ currentTick' = (currentTick + 1) % MaxTicks
  /\ pc' = "schedule"
  /\ UNCHANGED <<ret, running, subscribed, players, netVars, tickVars, acceptVars, worldVars>>

\* scheduleNextTick, up to the point where it has seen that it is to go on.
ScheduleNextTick ==
  /\ pc = "schedule"
  /\ pc' = IF running THEN "arm" ELSE ret
  /\ UNCHANGED <<ret, gameVars, netVars, tickVars, acceptVars, worldVars>>

\* Faulty: a tick rate above 1000, whose interval comes out as 0.
ArmAtOnce ==
  /\ pc = "arm"
  /\ tickAborted' = tickAborted + waits
  /\ waits' = 1
  /\ timer' = "due"
  /\ pc' = ret
  /\ UNCHANGED <<ret, gameVars, netVars, tickReady, acceptVars, worldVars>>

\* Faulty: the wait is started and its time never set.
ArmForgotten ==
  /\ pc = "arm"
  /\ pc' = ret
  /\ UNCHANGED <<ret, gameVars, netVars, tickVars, acceptVars, worldVars>>

\* expires_after cancels what was pending, async_wait starts the next wait.
Arm ==
  /\ pc = "arm"
  /\ tickAborted' = tickAborted + waits
  /\ waits' = 1
  /\ timer' = "new"
  /\ pc' = ret
  /\ UNCHANGED <<ret, gameVars, netVars, tickReady, acceptVars, worldVars>>

-----------------------------------------------------------------------------
(* The acceptor. *)

\* A client connects: the kernel accepts it for the listening socket.
Connect ==
  /\ serving
  /\ nextConnectionId + acceptReady + At({"accept"}) + backlog <= MaxConns
  /\ backlog' = backlog + 1
  /\ UNCHANGED <<mainVars, gameVars, netVars, tickVars, accepts, acceptReady, acceptFailed, worldVars>>

\* The reactor takes it over and queues the handler.
Accept ==
  /\ Polling
  /\ accepts > 0 /\ backlog > 0
  /\ accepts' = accepts - 1
  /\ backlog' = backlog - 1
  /\ acceptReady' = acceptReady + 1
  /\ UNCHANGED <<mainVars, gameVars, netVars, tickVars, acceptFailed, worldVars>>

\* Or cannot, as when out of descriptors.  The client is still there, so that the
\* next accept may fail as well, in the same poll: nothing bounds how often.
AcceptFails ==
  /\ Polling
  /\ accepts > 0 /\ backlog > 0
  /\ accepts' = accepts - 1
  /\ acceptFailed' = acceptFailed + 1
  /\ UNCHANGED <<mainVars, gameVars, netVars, tickVars, backlog, acceptReady, worldVars>>

\* handleAccept up to the point where it has seen that the server is running.
HandleAccept ==
  /\ Polling
  /\ acceptReady > 0
  /\ acceptReady' = acceptReady - 1
  /\ pc' = IF serving THEN "accept" ELSE pc
  /\ ret' = pc
  /\ UNCHANGED <<gameVars, netVars, tickVars, backlog, accepts, acceptFailed, worldVars>>

\* The socket becomes a connection.
AddConnection ==
  /\ pc = "accept"
  /\ connections' = connections \cup {nextConnectionId}
  /\ nextConnectionId' = nextConnectionId + 1
  /\ pc' = "startAccept"
  /\ UNCHANGED <<ret, gameVars, serving, stopped, tickVars, acceptVars, worldVars>>

\* set_option throws, as it does on some systems when the peer has gone already:
\* nothing catches it, in handleAccept, poll, run or main.
AcceptThrows ==
  /\ pc = "accept"
  /\ pc' = "aborted"
  /\ UNCHANGED <<ret, gameVars, netVars, tickVars, acceptVars, worldVars>>

\* Faulty: whether the server is running is not asked.
HandleAcceptErrorRetries ==
  /\ Polling
  /\ acceptFailed > 0
  /\ acceptFailed' = acceptFailed - 1
  /\ pc' = "startAccept"
  /\ ret' = pc
  /\ UNCHANGED <<gameVars, netVars, tickVars, backlog, accepts, acceptReady, worldVars>>

\* With an error there is nothing to add.
HandleAcceptError ==
  /\ Polling
  /\ acceptFailed > 0
  /\ acceptFailed' = acceptFailed - 1
  /\ pc' = IF serving THEN "startAccept" ELSE pc
  /\ ret' = pc
  /\ UNCHANGED <<gameVars, netVars, tickVars, backlog, accepts, acceptReady, worldVars>>

\* A closed acceptor fails at once.
StartAccept ==
  /\ pc = "startAccept"
  /\ IF serving
     THEN accepts' = accepts + 1 /\ UNCHANGED acceptFailed
     ELSE acceptFailed' = acceptFailed + 1 /\ UNCHANGED accepts
  /\ pc' = ret
  /\ UNCHANGED <<ret, gameVars, netVars, tickVars, backlog, acceptReady, worldVars>>

-----------------------------------------------------------------------------
(* Signals. *)

\* tickTimer_->cancel().
CancelTimer ==
  /\ waits' = 0
  /\ tickAborted' = tickAborted + waits
  /\ UNCHANGED <<timer, tickReady>>

\* Faulty: the connections are left.
StopKeepsConnections ==
  /\ serving' = FALSE
  /\ stopped' = TRUE
  /\ accepts' = 0
  /\ acceptFailed' = acceptFailed + accepts
  /\ backlog' = 0
  /\ UNCHANGED <<connections, nextConnectionId, acceptReady>>

\* TcpServer::stop closes the acceptor, which fails its accepts.
Stop ==
  /\ serving' = FALSE
  /\ stopped' = TRUE
  /\ accepts' = 0
  /\ acceptFailed' = acceptFailed + accepts
  /\ backlog' = 0
  /\ connections' = {}
  /\ UNCHANGED <<nextConnectionId, acceptReady>>

\* Faulty: the characters are left.
ShutdownKeepsPlayers ==
  /\ running' = FALSE
  /\ CancelTimer
  /\ subscribed' = FALSE
  /\ Stop
  /\ UNCHANGED <<players, currentTick>>

Shutdown ==
  /\ running' = FALSE
  /\ CancelTimer
  /\ subscribed' = FALSE
  /\ Stop
  /\ players' = {}
  /\ UNCHANGED currentTick

\* The process is there to receive one.
Alive == pc \notin {"failed", "exit", "aborted"}

\* Before initialize has set running_, and after the first shutdown, the handler
\* prints that it shuts down, and does not.
Signal ==
  /\ Alive
  /\ signals < MaxSignals
  /\ signals' = signals + 1
  /\ IF running
     THEN Shutdown /\ heard' = pc
     ELSE UNCHANGED <<gameVars, netVars, tickVars, acceptVars, heard>>
  /\ UNCHANGED <<mainVars, undefined>>

\* In these places the thread is also inside code that shutdown pulls the ground
\* from under: the walk over connections_ and updateAll's over actors_, a map
\* that is being added to, and asio, whose locks the handler would take again.
Inside == {"io", "serverIo", "walk", "tick", "accept", "arm", "startAccept"}

SignalInside ==
  /\ pc \in Inside
  /\ running
  /\ signals < MaxSignals
  /\ signals' = signals + 1
  /\ undefined' = TRUE
  /\ UNCHANGED <<mainVars, gameVars, netVars, tickVars, acceptVars, heard>>

-----------------------------------------------------------------------------
MainStep ==
  /\ ~undefined
  /\ \/ StartServer \/ StartFails \/ Initialized
     \/ Run \/ Loop \/ EndPoll("io", "poll")
     \/ EnterServerPoll \/ Restart \/ EndPoll("serverIo", "walk") \/ Walk \/ Sleep
     \/ Expire \/ OnTickTimer \/ OnTickTimerAborted \/ Tick \/ ScheduleNextTick \/ Arm
     \/ Accept \/ HandleAccept \/ AddConnection \/ AcceptThrows \/ HandleAcceptError \/ StartAccept

TimerStep == ~undefined /\ Elapse

WorldStep == ~undefined /\ (Connect \/ AcceptFails \/ Signal \/ SignalInside)

Next == MainStep \/ TimerStep \/ WorldStep

Spec == Init /\ [][Next]_vars

\* The thread keeps running and time passes.  Nothing makes clients come or
\* signals arrive.
FairSpec == Spec /\ WF_vars(MainStep) /\ WF_vars(TimerStep)

-----------------------------------------------------------------------------
(* Properties. *)

TypeOK ==
  /\ pc \in {"init", "started", "failed", "run", "loop", "io", "poll", "restart", "serverIo",
             "walk", "sleep", "tick", "schedule", "arm", "accept", "startAccept", "exit",
             "aborted"}
  /\ ret \in {"loop", "io", "serverIo"}
  /\ running \in BOOLEAN /\ subscribed \in BOOLEAN /\ serving \in BOOLEAN
  /\ stopped \in BOOLEAN /\ undefined \in BOOLEAN
  /\ currentTick \in 0 .. (MaxTicks - 1)
  /\ connections \subseteq ConnId
  /\ players \subseteq connections
  /\ nextConnectionId \in 1 .. (MaxConns + 1)
  /\ timer \in {"new", "old", "due"}
  /\ waits \in Nat /\ tickReady \in Nat /\ tickAborted \in Nat
  /\ backlog \in Nat /\ accepts \in Nat /\ acceptReady \in Nat /\ acceptFailed \in Nat
  /\ signals \in 0 .. MaxSignals

Looping == running /\ pc \notin {"init", "started", "failed", "run"}

\* The loop has one tick to come, scheduled, due or being made, and one accept:
\* never two, which would double the rate, and never none, after whatever order
\* of expiries, connections and failing accepts.
OneTickOneAccept ==
  Looping =>
    /\ waits + tickReady + tickAborted + At({"tick", "schedule", "arm"}) = 1
    /\ pc # "aborted" => accepts + acceptReady + acceptFailed + At({"accept", "startAccept"}) = 1

\* After a shutdown nothing is left of the game: nobody is subscribed, connected
\* or in the world, unless the signal found a connection halfway through being
\* accepted, which is then served until the loop ends.
CleanAfterShutdown ==
  heard # "nowhere" =>
    /\ ~running /\ ~serving /\ ~subscribed
    /\ connections \cup players # {} => heard = "accept"

\* And no tick is made, unless the signal came when onTickTimer had already
\* looked, even though poll restarts io_ and runs what was queued.
NoTickAfterShutdown ==
  [][heard # "nowhere" /\ currentTick' # currentTick => heard = "tick"]_vars

Over == pc \in {"exit", "aborted"} \/ undefined

\* Once a signal was heard the process ends.
ShutdownCompletes == heard # "nowhere" ~> Over

\* Accepts do not fail for ever.  If they do, one poll of io_ never returns.
FewFailures == <>[][~AcceptFails]_vars

\* Until then ticks keep coming, whatever connects and as often as accepts fail,
\* if that comes to an end.
TicksGoOn ==
  FewFailures =>
    \A t \in 0 .. (MaxTicks - 1) :
      (Looping /\ currentTick = t) ~> (currentTick # t \/ ~running \/ Over)

\* And the connections are read again and again: every poll of io_ returns.
ConnectionsServed ==
  FewFailures => ((Looping /\ pc = "io") ~> (pc = "walk" \/ ~running \/ Over))
=============================================================================
