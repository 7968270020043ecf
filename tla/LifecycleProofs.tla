-------------------------- MODULE LifecycleProofs --------------------------
(***************************************************************************)
(* The safety properties of Lifecycle, for any number of clients, ticks,   *)
(* signals and failing accepts.                                            *)
(*                                                                         *)
(* Inv has three parts, each kept by every step given those before it:     *)
(* the types; Phases, which says what running_, TcpServer's running_ and   *)
(* the place of the signal can be at each place of the thread; and Counts, *)
(* which follows the one pending tick and the one pending accept through   *)
(* asio's queues.                                                          *)
(***************************************************************************)
EXTENDS Lifecycle, TLAPS

\* Waiting, queued or in hand.
TickCount == waits + tickReady + tickAborted + At({"tick", "schedule", "arm"})
AcceptCount == accepts + acceptReady + acceptFailed + At({"accept", "startAccept"})

\* The connections to come have their identifiers ahead of them.
Room == nextConnectionId + acceptReady + At({"accept"}) + backlog <= MaxConns + 1

Types == TypeOK /\ Room

Phases ==
  /\ running => serving /\ subscribed /\ heard = "nowhere"
  /\ serving => heard = "nowhere"
  /\ pc \in {"init", "started", "failed"} => ~running /\ heard = "nowhere"
  /\ pc = "started" => serving /\ subscribed
  /\ heard # "nowhere" => ~running /\ ~serving /\ ~subscribed
  /\ heard # "nowhere" /\ pc = "tick" => heard = "tick"
  /\ heard # "nowhere" /\ pc = "accept" => heard = "accept"
  /\ heard # "nowhere" /\ connections # {} => heard = "accept"

Counts ==
  /\ pc \in {"init", "started", "failed"} => TickCount = 0
  /\ running => TickCount = IF pc = "run" THEN 0 ELSE 1
  /\ running => tickAborted = 0
  /\ pc = "init" => AcceptCount = 0
  /\ pc = "started" => AcceptCount = 1
  /\ running /\ pc # "aborted" => AcceptCount = 1

Inv == Types /\ Phases /\ Counts

LEMMA InitInv == Init => Inv
  <1> SUFFICES ASSUME Init
               PROVE  Inv
    OBVIOUS
  <1>1. Types
    <2>1. /\ nextConnectionId \in 1 .. (MaxConns + 1)
          /\ currentTick \in 0 .. (MaxTicks - 1)
          /\ signals \in 0 .. MaxSignals
      BY LifecycleAssumption DEF Init
    <2>2. TypeOK
      BY <2>1 DEF Init, TypeOK
    <2>3. Room
      BY LifecycleAssumption DEF Init, Room, At
    <2>4. QED
      BY <2>2, <2>3 DEF Types
  <1>2. Phases
    BY DEF Init, Phases
  <1>3. Counts
    BY DEF Init, Counts, TickCount, AcceptCount, At
  <1>4. QED
    BY <1>1, <1>2, <1>3 DEF Inv

-----------------------------------------------------------------------------
\* Every value stays within its type, and identifiers do not run out.
LEMMA TypesPreserved ==
  ASSUME Types, [Next]_vars
  PROVE  Types'
  <1>1. CASE StartServer
        BY <1>1, LifecycleAssumption DEF StartServer, Types, Room, TypeOK, At, ConnId, mainVars,
           gameVars, netVars, tickVars, acceptVars, worldVars
  <1>2. CASE StartFails
        BY <1>2, LifecycleAssumption DEF StartFails, Types, Room, TypeOK, At, ConnId, mainVars,
           gameVars, netVars, tickVars, acceptVars, worldVars
  <1>3. CASE Initialized
        BY <1>3, LifecycleAssumption DEF Initialized, Types, Room, TypeOK, At, ConnId, mainVars,
           gameVars, netVars, tickVars, acceptVars, worldVars
  <1>4. CASE Run
        BY <1>4, LifecycleAssumption DEF Run, Types, Room, TypeOK, At, ConnId, mainVars,
           gameVars, netVars, tickVars, acceptVars, worldVars
  <1>5. CASE Loop
        BY <1>5, LifecycleAssumption DEF Loop, Types, Room, TypeOK, At, ConnId, mainVars,
           gameVars, netVars, tickVars, acceptVars, worldVars
  <1>6. CASE EndPoll("io", "poll")
        BY <1>6, LifecycleAssumption DEF EndPoll, Types, Room, TypeOK, At, ConnId, mainVars,
           gameVars, netVars, tickVars, acceptVars, worldVars
  <1>7. CASE EnterServerPoll
        BY <1>7, LifecycleAssumption DEF EnterServerPoll, Types, Room, TypeOK, At, ConnId,
           mainVars, gameVars, netVars, tickVars, acceptVars, worldVars
  <1>8. CASE Restart
        BY <1>8, LifecycleAssumption DEF Restart, Types, Room, TypeOK, At, ConnId, mainVars,
           gameVars, netVars, tickVars, acceptVars, worldVars
  <1>9. CASE EndPoll("serverIo", "walk")
        BY <1>9, LifecycleAssumption DEF EndPoll, Types, Room, TypeOK, At, ConnId, mainVars,
           gameVars, netVars, tickVars, acceptVars, worldVars
  <1>10. CASE Walk
        BY <1>10, LifecycleAssumption DEF Walk, Types, Room, TypeOK, At, ConnId, mainVars,
           gameVars, netVars, tickVars, acceptVars, worldVars
  <1>11. CASE Sleep
        BY <1>11, LifecycleAssumption DEF Sleep, Types, Room, TypeOK, At, ConnId, mainVars,
           gameVars, netVars, tickVars, acceptVars, worldVars
  <1>12. CASE Expire
        BY <1>12, LifecycleAssumption DEF Expire, Polling, Types, Room, TypeOK, At, ConnId,
           mainVars, gameVars, netVars, tickVars, acceptVars, worldVars
  <1>13. CASE OnTickTimer
        BY <1>13, LifecycleAssumption DEF OnTickTimer, Polling, Types, Room, TypeOK, At, ConnId,
           mainVars, gameVars, netVars, tickVars, acceptVars, worldVars
  <1>14. CASE OnTickTimerAborted
        BY <1>14, LifecycleAssumption DEF OnTickTimerAborted, Polling, Types, Room, TypeOK, At,
           ConnId, mainVars, gameVars, netVars, tickVars, acceptVars, worldVars
  <1>15. CASE Tick
        BY <1>15, LifecycleAssumption DEF Tick, Types, Room, TypeOK, At, ConnId, mainVars,
           gameVars, netVars, tickVars, acceptVars, worldVars
  <1>16. CASE ScheduleNextTick
        BY <1>16, LifecycleAssumption DEF ScheduleNextTick, Types, Room, TypeOK, At, ConnId,
           mainVars, gameVars, netVars, tickVars, acceptVars, worldVars
  <1>17. CASE Arm
        BY <1>17, LifecycleAssumption DEF Arm, Types, Room, TypeOK, At, ConnId, mainVars,
           gameVars, netVars, tickVars, acceptVars, worldVars
  <1>18. CASE Accept
        BY <1>18, LifecycleAssumption DEF Accept, Polling, Types, Room, TypeOK, At, ConnId,
           mainVars, gameVars, netVars, tickVars, acceptVars, worldVars
  <1>19. CASE HandleAccept
        BY <1>19, LifecycleAssumption DEF HandleAccept, Polling, Types, Room, TypeOK, At,
           ConnId, mainVars, gameVars, netVars, tickVars, acceptVars, worldVars
  <1>20. CASE AddConnection
        BY <1>20, LifecycleAssumption DEF AddConnection, Types, Room, TypeOK, At, ConnId,
           mainVars, gameVars, netVars, tickVars, acceptVars, worldVars
  <1>21. CASE AcceptThrows
        BY <1>21, LifecycleAssumption DEF AcceptThrows, Types, Room, TypeOK, At, ConnId,
           mainVars, gameVars, netVars, tickVars, acceptVars, worldVars
  <1>22. CASE HandleAcceptError
        BY <1>22, LifecycleAssumption DEF HandleAcceptError, Polling, Types, Room, TypeOK, At,
           ConnId, mainVars, gameVars, netVars, tickVars, acceptVars, worldVars
  <1>23. CASE StartAccept
        BY <1>23, LifecycleAssumption DEF StartAccept, Types, Room, TypeOK, At, ConnId,
           mainVars, gameVars, netVars, tickVars, acceptVars, worldVars
  <1>24. CASE Elapse
        BY <1>24, LifecycleAssumption DEF Elapse, Types, Room, TypeOK, At, ConnId, mainVars,
           gameVars, netVars, tickVars, acceptVars, worldVars
  <1>25. CASE Connect
        BY <1>25, LifecycleAssumption DEF Connect, Types, Room, TypeOK, At, ConnId, mainVars,
           gameVars, netVars, tickVars, acceptVars, worldVars
  <1>26. CASE AcceptFails
        BY <1>26, LifecycleAssumption DEF AcceptFails, Polling, Types, Room, TypeOK, At, ConnId,
           mainVars, gameVars, netVars, tickVars, acceptVars, worldVars
  <1>27. CASE Signal
    <2>1. CASE running
      <3>1. Shutdown /\ heard' = pc /\ UNCHANGED <<mainVars, undefined>>
        BY <1>27, <2>1 DEF Signal
      <3>2. signals' \in 0 .. MaxSignals
        BY <1>27, LifecycleAssumption DEF Signal, Types, TypeOK
      <3>3. TypeOK'
        <4>1. /\ waits' \in Nat /\ tickReady' \in Nat /\ tickAborted' \in Nat
              /\ backlog' \in Nat /\ accepts' \in Nat /\ acceptReady' \in Nat
              /\ acceptFailed' \in Nat
          BY <3>1 DEF Shutdown, CancelTimer, Stop, Types, TypeOK
        <4>2. UNCHANGED <<pc, ret, timer, currentTick, nextConnectionId, undefined>>
          BY <3>1 DEF Shutdown, CancelTimer, Stop, mainVars
        <4>3. /\ running' = FALSE /\ subscribed' = FALSE /\ serving' = FALSE /\ stopped' = TRUE
              /\ connections' = {} /\ players' = {}
          BY <3>1 DEF Shutdown, Stop
        <4>4. QED
          BY <3>2, <4>1, <4>2, <4>3, Zenon DEF Types, TypeOK
      <3>4. Room'
        BY <3>1, LifecycleAssumption
        DEF Shutdown, Stop, Types, TypeOK, Room, At, mainVars
      <3>5. QED
        BY <3>3, <3>4 DEF Types
    <2>2. CASE ~running
      <3>1. UNCHANGED <<mainVars, gameVars, netVars, tickVars, acceptVars, undefined>>
        BY <1>27, <2>2 DEF Signal
      <3>2. signals' \in 0 .. MaxSignals
        BY <1>27, LifecycleAssumption DEF Signal, Types, TypeOK
      <3>3. QED
        BY <3>1, <3>2
        DEF Types, Room, TypeOK, At, mainVars, gameVars, netVars, tickVars, acceptVars
    <2>3. QED
      BY <2>1, <2>2
  <1>28. CASE SignalInside
        BY <1>28, LifecycleAssumption DEF SignalInside, Types, Room, TypeOK, At, ConnId,
           mainVars, gameVars, netVars, tickVars, acceptVars, worldVars
  <1>29. CASE UNCHANGED vars
        BY <1>29 DEF Types, Room, TypeOK, At, ConnId, mainVars, gameVars, netVars, tickVars,
           acceptVars, worldVars, vars
  <1>30. QED
        BY <1>1, <1>2, <1>3, <1>4, <1>5, <1>6, <1>7, <1>8, <1>9, <1>10, <1>11, <1>12, <1>13,
           <1>14, <1>15, <1>16, <1>17, <1>18, <1>19, <1>20, <1>21, <1>22, <1>23, <1>24, <1>25,
           <1>26, <1>27, <1>28, <1>29 DEF Next, MainStep, TimerStep, WorldStep

\* What shutdown takes down stays down, and it is known where it came.
LEMMA PhasesPreserved ==
  ASSUME Types, Phases, [Next]_vars
  PROVE  Phases'
  <1>1. CASE StartServer
        BY <1>1 DEF StartServer, Types, TypeOK, Phases, mainVars, gameVars, netVars, tickVars,
           acceptVars, worldVars
  <1>2. CASE StartFails
        BY <1>2 DEF StartFails, Types, TypeOK, Phases, mainVars, gameVars, netVars, tickVars,
           acceptVars, worldVars
  <1>3. CASE Initialized
        BY <1>3 DEF Initialized, Types, TypeOK, Phases, mainVars, gameVars, netVars, tickVars,
           acceptVars, worldVars
  <1>4. CASE Run
        BY <1>4 DEF Run, Types, TypeOK, Phases, mainVars, gameVars, netVars, tickVars,
           acceptVars, worldVars
  <1>5. CASE Loop
        BY <1>5 DEF Loop, Types, TypeOK, Phases, mainVars, gameVars, netVars, tickVars,
           acceptVars, worldVars
  <1>6. CASE EndPoll("io", "poll")
        BY <1>6 DEF EndPoll, Types, TypeOK, Phases, mainVars, gameVars, netVars, tickVars,
           acceptVars, worldVars
  <1>7. CASE EnterServerPoll
        BY <1>7 DEF EnterServerPoll, Types, TypeOK, Phases, mainVars, gameVars, netVars,
           tickVars, acceptVars, worldVars
  <1>8. CASE Restart
        BY <1>8 DEF Restart, Types, TypeOK, Phases, mainVars, gameVars, netVars, tickVars,
           acceptVars, worldVars
  <1>9. CASE EndPoll("serverIo", "walk")
        BY <1>9 DEF EndPoll, Types, TypeOK, Phases, mainVars, gameVars, netVars, tickVars,
           acceptVars, worldVars
  <1>10. CASE Walk
        BY <1>10 DEF Walk, Types, TypeOK, Phases, mainVars, gameVars, netVars, tickVars,
           acceptVars, worldVars
  <1>11. CASE Sleep
        BY <1>11 DEF Sleep, Types, TypeOK, Phases, mainVars, gameVars, netVars, tickVars,
           acceptVars, worldVars
  <1>12. CASE Expire
        BY <1>12 DEF Expire, Polling, Types, TypeOK, Phases, mainVars, gameVars, netVars,
           tickVars, acceptVars, worldVars
  <1>13. CASE OnTickTimer
        BY <1>13 DEF OnTickTimer, Polling, Types, TypeOK, Phases, mainVars, gameVars, netVars,
           tickVars, acceptVars, worldVars
  <1>14. CASE OnTickTimerAborted
        BY <1>14 DEF OnTickTimerAborted, Polling, Types, TypeOK, Phases, mainVars, gameVars,
           netVars, tickVars, acceptVars, worldVars
  <1>15. CASE Tick
        BY <1>15 DEF Tick, Types, TypeOK, Phases, mainVars, gameVars, netVars, tickVars,
           acceptVars, worldVars
  <1>16. CASE ScheduleNextTick
        BY <1>16 DEF ScheduleNextTick, Types, TypeOK, Phases, mainVars, gameVars, netVars,
           tickVars, acceptVars, worldVars
  <1>17. CASE Arm
        BY <1>17 DEF Arm, Types, TypeOK, Phases, mainVars, gameVars, netVars, tickVars,
           acceptVars, worldVars
  <1>18. CASE Accept
        BY <1>18 DEF Accept, Polling, Types, TypeOK, Phases, mainVars, gameVars, netVars,
           tickVars, acceptVars, worldVars
  <1>19. CASE HandleAccept
        BY <1>19 DEF HandleAccept, Polling, Types, TypeOK, Phases, mainVars, gameVars, netVars,
           tickVars, acceptVars, worldVars
  <1>20. CASE AddConnection
        BY <1>20 DEF AddConnection, Types, TypeOK, Phases, mainVars, gameVars, netVars,
           tickVars, acceptVars, worldVars
  <1>21. CASE AcceptThrows
        BY <1>21 DEF AcceptThrows, Types, TypeOK, Phases, mainVars, gameVars, netVars, tickVars,
           acceptVars, worldVars
  <1>22. CASE HandleAcceptError
        BY <1>22 DEF HandleAcceptError, Polling, Types, TypeOK, Phases, mainVars, gameVars,
           netVars, tickVars, acceptVars, worldVars
  <1>23. CASE StartAccept
        BY <1>23 DEF StartAccept, Types, TypeOK, Phases, mainVars, gameVars, netVars, tickVars,
           acceptVars, worldVars
  <1>24. CASE Elapse
        BY <1>24 DEF Elapse, Types, TypeOK, Phases, mainVars, gameVars, netVars, tickVars,
           acceptVars, worldVars
  <1>25. CASE Connect
        BY <1>25 DEF Connect, Types, TypeOK, Phases, mainVars, gameVars, netVars, tickVars,
           acceptVars, worldVars
  <1>26. CASE AcceptFails
        BY <1>26 DEF AcceptFails, Polling, Types, TypeOK, Phases, mainVars, gameVars, netVars,
           tickVars, acceptVars, worldVars
  <1>27. CASE Signal
        BY <1>27 DEF Signal, Shutdown, CancelTimer, Stop, Types, TypeOK, Phases, mainVars,
           gameVars, netVars, tickVars, acceptVars, worldVars
  <1>28. CASE SignalInside
        BY <1>28 DEF SignalInside, Types, TypeOK, Phases, mainVars, gameVars, netVars, tickVars,
           acceptVars, worldVars
  <1>29. CASE UNCHANGED vars
        BY <1>29 DEF Types, TypeOK, Phases, mainVars, gameVars, netVars, tickVars, acceptVars,
           worldVars, vars
  <1>30. QED
        BY <1>1, <1>2, <1>3, <1>4, <1>5, <1>6, <1>7, <1>8, <1>9, <1>10, <1>11, <1>12, <1>13,
           <1>14, <1>15, <1>16, <1>17, <1>18, <1>19, <1>20, <1>21, <1>22, <1>23, <1>24, <1>25,
           <1>26, <1>27, <1>28, <1>29 DEF Next, MainStep, TimerStep, WorldStep

\* A tick that has been made is scheduled again, an accept that was answered is
\* started again; nothing else adds or takes one.
LEMMA CountsPreserved ==
  ASSUME Types, Phases, Counts, [Next]_vars
  PROVE  Counts'
  <1>1. CASE StartServer
        BY <1>1 DEF StartServer, Types, TypeOK, Phases, Counts, TickCount, AcceptCount, At,
           mainVars, gameVars, netVars, tickVars, acceptVars, worldVars
  <1>2. CASE StartFails
        BY <1>2 DEF StartFails, Types, TypeOK, Phases, Counts, TickCount, AcceptCount, At,
           mainVars, gameVars, netVars, tickVars, acceptVars, worldVars
  <1>3. CASE Initialized
        BY <1>3 DEF Initialized, Types, TypeOK, Phases, Counts, TickCount, AcceptCount, At,
           mainVars, gameVars, netVars, tickVars, acceptVars, worldVars
  <1>4. CASE Run
        BY <1>4 DEF Run, Types, TypeOK, Phases, Counts, TickCount, AcceptCount, At, mainVars,
           gameVars, netVars, tickVars, acceptVars, worldVars
  <1>5. CASE Loop
        BY <1>5 DEF Loop, Types, TypeOK, Phases, Counts, TickCount, AcceptCount, At, mainVars,
           gameVars, netVars, tickVars, acceptVars, worldVars
  <1>6. CASE EndPoll("io", "poll")
        BY <1>6 DEF EndPoll, Types, TypeOK, Phases, Counts, TickCount, AcceptCount, At,
           mainVars, gameVars, netVars, tickVars, acceptVars, worldVars
  <1>7. CASE EnterServerPoll
        BY <1>7 DEF EnterServerPoll, Types, TypeOK, Phases, Counts, TickCount, AcceptCount, At,
           mainVars, gameVars, netVars, tickVars, acceptVars, worldVars
  <1>8. CASE Restart
        BY <1>8 DEF Restart, Types, TypeOK, Phases, Counts, TickCount, AcceptCount, At,
           mainVars, gameVars, netVars, tickVars, acceptVars, worldVars
  <1>9. CASE EndPoll("serverIo", "walk")
        BY <1>9 DEF EndPoll, Types, TypeOK, Phases, Counts, TickCount, AcceptCount, At,
           mainVars, gameVars, netVars, tickVars, acceptVars, worldVars
  <1>10. CASE Walk
        BY <1>10 DEF Walk, Types, TypeOK, Phases, Counts, TickCount, AcceptCount, At, mainVars,
           gameVars, netVars, tickVars, acceptVars, worldVars
  <1>11. CASE Sleep
        BY <1>11 DEF Sleep, Types, TypeOK, Phases, Counts, TickCount, AcceptCount, At, mainVars,
           gameVars, netVars, tickVars, acceptVars, worldVars
  <1>12. CASE Expire
        BY <1>12 DEF Expire, Polling, Types, TypeOK, Phases, Counts, TickCount, AcceptCount, At,
           mainVars, gameVars, netVars, tickVars, acceptVars, worldVars
  <1>13. CASE OnTickTimer
        BY <1>13 DEF OnTickTimer, Polling, Types, TypeOK, Phases, Counts, TickCount,
           AcceptCount, At, mainVars, gameVars, netVars, tickVars, acceptVars, worldVars
  <1>14. CASE OnTickTimerAborted
        BY <1>14 DEF OnTickTimerAborted, Polling, Types, TypeOK, Phases, Counts, TickCount,
           AcceptCount, At, mainVars, gameVars, netVars, tickVars, acceptVars, worldVars
  <1>15. CASE Tick
        BY <1>15 DEF Tick, Types, TypeOK, Phases, Counts, TickCount, AcceptCount, At, mainVars,
           gameVars, netVars, tickVars, acceptVars, worldVars
  <1>16. CASE ScheduleNextTick
        BY <1>16 DEF ScheduleNextTick, Types, TypeOK, Phases, Counts, TickCount, AcceptCount,
           At, mainVars, gameVars, netVars, tickVars, acceptVars, worldVars
  <1>17. CASE Arm
        BY <1>17 DEF Arm, Types, TypeOK, Phases, Counts, TickCount, AcceptCount, At, mainVars,
           gameVars, netVars, tickVars, acceptVars, worldVars
  <1>18. CASE Accept
        BY <1>18 DEF Accept, Polling, Types, TypeOK, Phases, Counts, TickCount, AcceptCount, At,
           mainVars, gameVars, netVars, tickVars, acceptVars, worldVars
  <1>19. CASE HandleAccept
        BY <1>19 DEF HandleAccept, Polling, Types, TypeOK, Phases, Counts, TickCount,
           AcceptCount, At, mainVars, gameVars, netVars, tickVars, acceptVars, worldVars
  <1>20. CASE AddConnection
        BY <1>20 DEF AddConnection, Types, TypeOK, Phases, Counts, TickCount, AcceptCount, At,
           mainVars, gameVars, netVars, tickVars, acceptVars, worldVars
  <1>21. CASE AcceptThrows
        BY <1>21 DEF AcceptThrows, Types, TypeOK, Phases, Counts, TickCount, AcceptCount, At,
           mainVars, gameVars, netVars, tickVars, acceptVars, worldVars
  <1>22. CASE HandleAcceptError
        BY <1>22 DEF HandleAcceptError, Polling, Types, TypeOK, Phases, Counts, TickCount,
           AcceptCount, At, mainVars, gameVars, netVars, tickVars, acceptVars, worldVars
  <1>23. CASE StartAccept
        BY <1>23 DEF StartAccept, Types, TypeOK, Phases, Counts, TickCount, AcceptCount, At,
           mainVars, gameVars, netVars, tickVars, acceptVars, worldVars
  <1>24. CASE Elapse
        BY <1>24 DEF Elapse, Types, TypeOK, Phases, Counts, TickCount, AcceptCount, At,
           mainVars, gameVars, netVars, tickVars, acceptVars, worldVars
  <1>25. CASE Connect
        BY <1>25 DEF Connect, Types, TypeOK, Phases, Counts, TickCount, AcceptCount, At,
           mainVars, gameVars, netVars, tickVars, acceptVars, worldVars
  <1>26. CASE AcceptFails
        BY <1>26 DEF AcceptFails, Polling, Types, TypeOK, Phases, Counts, TickCount,
           AcceptCount, At, mainVars, gameVars, netVars, tickVars, acceptVars, worldVars
  <1>27. CASE Signal
        BY <1>27 DEF Signal, Shutdown, CancelTimer, Stop, Types, TypeOK, Phases, Counts,
           TickCount, AcceptCount, At, mainVars, gameVars, netVars, tickVars, acceptVars,
           worldVars
  <1>28. CASE SignalInside
        BY <1>28 DEF SignalInside, Types, TypeOK, Phases, Counts, TickCount, AcceptCount, At,
           mainVars, gameVars, netVars, tickVars, acceptVars, worldVars
  <1>29. CASE UNCHANGED vars
        BY <1>29 DEF Types, TypeOK, Phases, Counts, TickCount, AcceptCount, At, mainVars,
           gameVars, netVars, tickVars, acceptVars, worldVars, vars
  <1>30. QED
        BY <1>1, <1>2, <1>3, <1>4, <1>5, <1>6, <1>7, <1>8, <1>9, <1>10, <1>11, <1>12, <1>13,
           <1>14, <1>15, <1>16, <1>17, <1>18, <1>19, <1>20, <1>21, <1>22, <1>23, <1>24, <1>25,
           <1>26, <1>27, <1>28, <1>29 DEF Next, MainStep, TimerStep, WorldStep

LEMMA InvHolds == Spec => []Inv
  <1>1. Inv /\ [Next]_vars => Inv'
    BY TypesPreserved, PhasesPreserved, CountsPreserved DEF Inv
  <1>2. QED
    BY InitInv, <1>1, PTL DEF Spec

-----------------------------------------------------------------------------
\* The variables of the process have their types: in particular only a client
\* that is connected is in the game.
THEOREM TypeCorrect == Spec => []TypeOK
  <1>1. Inv => TypeOK
    BY DEF Inv, Types
  <1>2. QED
    BY InvHolds, <1>1, PTL

\* While run loops there is one tick to come and one accept, however expiries,
\* connections and failing accepts are ordered.
THEOREM OneTickOneAcceptHolds == Spec => []OneTickOneAccept
  <1>1. Inv => OneTickOneAccept
    BY DEF Inv, Counts, TickCount, AcceptCount, OneTickOneAccept, Looping
  <1>2. QED
    BY InvHolds, <1>1, PTL

\* shutdown leaves nothing of the game, wherever between two statements its
\* signal came, but for a connection that was being accepted.
THEOREM CleanAfterShutdownHolds == Spec => []CleanAfterShutdown
  <1>1. Inv => CleanAfterShutdown
    BY DEF Inv, Types, TypeOK, Phases, CleanAfterShutdown
  <1>2. QED
    BY InvHolds, <1>1, PTL

\* And no tick is made after it, but for one that onTickTimer had decided on.
THEOREM NoTickAfterShutdownHolds == Spec => NoTickAfterShutdown
  <1> DEFINE LastTick == heard # "nowhere" /\ currentTick' # currentTick => heard = "tick"
  <1>1. Inv /\ [Next]_vars => [LastTick]_vars
    <2> SUFFICES ASSUME Inv, Next, currentTick' # currentTick
                 PROVE  LastTick
      BY DEF vars, gameVars
    <2>1. Phases
      BY DEF Inv
    <2>2. pc = "tick"
            BY DEF Next, MainStep, TimerStep, WorldStep, StartServer, StartFails, Initialized,
             Run, Loop, EndPoll, EnterServerPoll, Restart, Walk, Sleep, Expire, OnTickTimer,
             OnTickTimerAborted, Tick, ScheduleNextTick, Arm, Accept, HandleAccept,
             AddConnection, AcceptThrows, HandleAcceptError, StartAccept, Elapse, Connect,
             AcceptFails, Signal, SignalInside,
             Shutdown, mainVars, gameVars, netVars, tickVars, acceptVars, worldVars
    <2>3. QED
      BY <2>1, <2>2 DEF Phases
  <1>2. QED
    BY InvHolds, <1>1, PTL DEF Spec, NoTickAfterShutdown
=============================================================================
