------------------------------ MODULE EventBus ------------------------------
(***************************************************************************)
(* The event bus: publish walks the vector of handlers and calls each; a   *)
(* handler may call back into the bus while the walk is under way.         *)
(*                                                                         *)
(* The walk is a range-for over handlers_, so its iterators are dead once  *)
(* the vector is erased from, cleared or pushed to below it.  What the     *)
(* program does then is undefined; here the publication is marked as       *)
(* broken and does nothing more, and IterationSound says it never happens. *)
(*                                                                         *)
(* stack holds the calls of publish and processQueue that are under way,   *)
(* the innermost last.  An event is its number in the order of creation.   *)
(***************************************************************************)
EXTENDS Integers, Sequences, FiniteSets

CONSTANTS
  HandlerCalls,  \* what handlers may call: some of BusCalls
  MaxHandlers,   \* bound: how often subscribe is called
  MaxEvents,     \* bound: how many events are published or queued
  MaxDepth       \* bound: how deep calls nest

BusCalls == {"subscribe", "unsubscribe", "publish", "queue", "processQueue"}

ASSUME BusAssumption ==
  /\ HandlerCalls \subseteq BusCalls
  /\ MaxHandlers \in Nat
  /\ MaxEvents \in Nat
  /\ MaxDepth \in Nat \ {0}

HandlerId == Nat \ {0}

\* Nobody, as the running handler of a publication.
Nobody == 0

VARIABLES
  handlers,         \* handlers_: a sequence of [id, active]
  nextId,           \* nextId_
  isPublishing,     \* isPublishing_
  pendingRemovals,  \* pendingRemovals_, as a set: only membership matters
  eventQueue,       \* eventQueue_
  stack,            \* the calls under way
  events,           \* how many events were created
  gone              \* history: the ids that were unsubscribed

vars == <<handlers, nextId, isPublishing, pendingRemovals, eventQueue, stack, events, gone>>

\* A call of publish: next is the position of the range-for, running the
\* handler it is calling.  due and called are history: who was subscribed when
\* it began, and whom it called.
Publication(due) ==
  [kind |-> "publish", next |-> 1, running |-> Nobody, broken |-> FALSE,
   due |-> due, called |-> {}]

\* A call of processQueue.
Drain == [kind |-> "drain"]

IsPublication(f) == f.kind = "publish"

Init ==
  /\ handlers = <<>>
  /\ nextId = 1
  /\ isPublishing = FALSE
  /\ pendingRemovals = {}
  /\ eventQueue = <<>>
  /\ stack = <<>>
  /\ events = 0
  /\ gone = {}

Top == stack[Len(stack)]

\* The handlers that would be called now.
Active == {handlers[i].id : i \in {j \in 1 .. Len(handlers) : handlers[j].active}}

\* Either nothing is under way, or a handler is running and its body may call.
MayCall(call) ==
  \/ stack = <<>>
  \/ /\ stack # <<>>
     /\ IsPublication(Top)
     /\ Top.running # Nobody
     /\ call \in HandlerCalls

\* The vector changed shape under every publication in s.
Broken(s) ==
  [i \in 1 .. Len(s) |-> IF IsPublication(s[i]) THEN [s[i] EXCEPT !.broken = TRUE] ELSE s[i]]

-----------------------------------------------------------------------------
\* Faulty: the first handler gets the id nobody has.
SubscribeFromZero ==
  /\ MayCall("subscribe")
  /\ nextId <= MaxHandlers
  /\ handlers' = Append(handlers, [id |-> nextId - 1, active |-> TRUE])
  /\ nextId' = nextId + 1
  /\ stack' = Broken(stack)
  /\ UNCHANGED <<isPublishing, pendingRemovals, eventQueue, events, gone>>

Subscribe ==
  /\ MayCall("subscribe")
  /\ nextId <= MaxHandlers
  /\ handlers' = Append(handlers, [id |-> nextId, active |-> TRUE])
  /\ nextId' = nextId + 1
  /\ stack' = Broken(stack)
  /\ UNCHANGED <<isPublishing, pendingRemovals, eventQueue, events, gone>>

\* Where the entries are that stay when the ids in S are erased.
Kept(S) == {i \in 1 .. Len(handlers) : handlers[i].id \notin S}

\* The element of K that has k - 1 before it.
Nth(K, k) == CHOOSE i \in K : Cardinality({j \in K : j <= i}) = k

\* remove_if and erase: what stays moves up, in its order.
Without(S) == [k \in 1 .. Cardinality(Kept(S)) |-> handlers[Nth(Kept(S), k)]]

\* Faulty: the entry stays active until it is erased.
UnsubscribeLater(h) ==
  /\ MayCall("unsubscribe")
  /\ h \in 1 .. (nextId - 1)
  /\ IF isPublishing
     THEN /\ pendingRemovals' = pendingRemovals \cup {h}
          /\ UNCHANGED <<handlers, stack>>
     ELSE /\ handlers' = Without({h})
          /\ stack' = IF handlers' = handlers THEN stack ELSE Broken(stack)
          /\ UNCHANGED pendingRemovals
  /\ gone' = gone \cup {h}
  /\ UNCHANGED <<nextId, isPublishing, eventQueue, events>>

\* Faulty: erases at once, publishing or not.
UnsubscribeNow(h) ==
  /\ MayCall("unsubscribe")
  /\ h \in 1 .. (nextId - 1)
  /\ handlers' = Without({h})
  /\ stack' = IF handlers' = handlers THEN stack ELSE Broken(stack)
  /\ gone' = gone \cup {h}
  /\ UNCHANGED <<nextId, isPublishing, pendingRemovals, eventQueue, events>>

\* While publishing, the entry is switched off and erased later.
Unsubscribe(h) ==
  /\ MayCall("unsubscribe")
  /\ h \in 1 .. (nextId - 1)
  /\ IF isPublishing
     THEN /\ pendingRemovals' = pendingRemovals \cup {h}
          /\ handlers' = [i \in 1 .. Len(handlers) |->
                            IF handlers[i].id = h THEN [handlers[i] EXCEPT !.active = FALSE]
                                                  ELSE handlers[i]]
          /\ UNCHANGED stack
     ELSE /\ handlers' = Without({h})
          /\ stack' = IF handlers' = handlers THEN stack ELSE Broken(stack)
          /\ UNCHANGED pendingRemovals
  /\ gone' = gone \cup {h}
  /\ UNCHANGED <<nextId, isPublishing, eventQueue, events>>

-----------------------------------------------------------------------------
(* publish. *)

BeginPublish ==
  /\ MayCall("publish")
  /\ events < MaxEvents
  /\ Len(stack) < MaxDepth
  /\ events' = events + 1
  /\ isPublishing' = TRUE
  /\ stack' = Append(stack, Publication(Active))
  /\ UNCHANGED <<handlers, nextId, pendingRemovals, eventQueue, gone>>

\* A publication whose range-for is between two handlers.
Walking == stack # <<>> /\ IsPublication(Top) /\ Top.running = Nobody /\ ~Top.broken

SetTop(f) == [stack EXCEPT ![Len(stack)] = f]

\* Faulty: an inactive entry ends the walk.
StepStops ==
  /\ Walking
  /\ Top.next <= Len(handlers)
  /\ LET e == handlers[Top.next]
     IN  stack' = SetTop(IF e.active
                         THEN [Top EXCEPT !.next = @ + 1, !.running = e.id]
                         ELSE [Top EXCEPT !.next = Len(handlers) + 1])
  /\ UNCHANGED <<handlers, nextId, isPublishing, pendingRemovals, eventQueue, events, gone>>

\* The range-for comes to the next entry and calls its handler if it is active.
Step ==
  /\ Walking
  /\ Top.next <= Len(handlers)
  /\ LET e == handlers[Top.next]
     IN  stack' = SetTop(IF e.active
                         THEN [Top EXCEPT !.next = @ + 1, !.running = e.id]
                         ELSE [Top EXCEPT !.next = @ + 1])
  /\ UNCHANGED <<handlers, nextId, isPublishing, pendingRemovals, eventQueue, events, gone>>

HandlerReturns ==
  /\ stack # <<>>
  /\ IsPublication(Top)
  /\ Top.running # Nobody
  /\ stack' = SetTop([Top EXCEPT !.running = Nobody, !.called = @ \cup {Top.running}])
  /\ UNCHANGED <<handlers, nextId, isPublishing, pendingRemovals, eventQueue, events, gone>>

\* Faulty: the deferred removals are forgotten.
EndPublishKeeps ==
  /\ Walking
  /\ Top.next > Len(handlers)
  /\ isPublishing' = FALSE
  /\ pendingRemovals' = {}
  /\ stack' = SubSeq(stack, 1, Len(stack) - 1)
  /\ UNCHANGED <<handlers, nextId, eventQueue, events, gone>>

\* Past the last entry: the flag is cleared, whoever else is still publishing,
\* and the deferred removals are done.
EndPublish ==
  /\ Walking
  /\ Top.next > Len(handlers)
  /\ isPublishing' = FALSE
  /\ handlers' = Without(pendingRemovals)
  /\ pendingRemovals' = {}
  /\ LET rest == SubSeq(stack, 1, Len(stack) - 1)
     IN  stack' = IF handlers' = handlers THEN rest ELSE Broken(rest)
  /\ UNCHANGED <<nextId, eventQueue, events, gone>>

-----------------------------------------------------------------------------
(* The queue. *)

Queue ==
  /\ MayCall("queue")
  /\ events < MaxEvents
  /\ events' = events + 1
  /\ eventQueue' = Append(eventQueue, events + 1)
  /\ UNCHANGED <<handlers, nextId, isPublishing, pendingRemovals, stack, gone>>

ProcessQueue ==
  /\ MayCall("processQueue")
  /\ Len(stack) < MaxDepth
  /\ stack' = Append(stack, Drain)
  /\ UNCHANGED <<handlers, nextId, isPublishing, pendingRemovals, eventQueue, events, gone>>

\* processQueue publishes the front of the queue, or returns from an empty one.
\* It publishes within its own call, so the depth is not bounded again.
DrainNext ==
  /\ stack # <<>>
  /\ Top.kind = "drain"
  /\ eventQueue # <<>>
  /\ eventQueue' = Tail(eventQueue)
  /\ isPublishing' = TRUE
  /\ stack' = Append(stack, Publication(Active))
  /\ UNCHANGED <<handlers, nextId, pendingRemovals, events, gone>>

DrainEnd ==
  /\ stack # <<>>
  /\ Top.kind = "drain"
  /\ eventQueue = <<>>
  /\ stack' = SubSeq(stack, 1, Len(stack) - 1)
  /\ UNCHANGED <<handlers, nextId, isPublishing, pendingRemovals, eventQueue, events, gone>>

\* Only ever called with nothing under way.
ClearSubscribers ==
  /\ stack = <<>>
  /\ handlers' = <<>>
  /\ pendingRemovals' = {}
  /\ gone' = gone \cup Active
  /\ UNCHANGED <<nextId, isPublishing, eventQueue, stack, events>>

ClearQueue ==
  /\ stack = <<>>
  /\ eventQueue' = <<>>
  /\ UNCHANGED <<handlers, nextId, isPublishing, pendingRemovals, stack, events, gone>>

Next ==
  \/ Subscribe
  \/ \E h \in 1 .. MaxHandlers : Unsubscribe(h)
  \/ BeginPublish
  \/ Step
  \/ HandlerReturns
  \/ EndPublish
  \/ Queue
  \/ ProcessQueue
  \/ DrainNext
  \/ DrainEnd
  \/ ClearSubscribers
  \/ ClearQueue

Spec == Init /\ [][Next]_vars

-----------------------------------------------------------------------------
(* Properties. *)

TypeOK ==
  /\ handlers \in Seq([id : HandlerId, active : BOOLEAN])
  /\ nextId \in HandlerId
  /\ isPublishing \in BOOLEAN
  /\ pendingRemovals \subseteq HandlerId
  /\ eventQueue \in Seq(Nat)
  /\ events \in Nat
  /\ gone \subseteq HandlerId

\* The vector never changes shape under a publication that walks it.
IterationSound ==
  \A i \in 1 .. Len(stack) : IsPublication(stack[i]) => ~stack[i].broken

\* With no publication under way, exactly the handlers that were subscribed and
\* not unsubscribed are left, in the order they subscribed, all of them callable.
RemovalComplete ==
  (\A i \in 1 .. Len(stack) : ~IsPublication(stack[i])) =>
    /\ pendingRemovals = {}
    /\ Active = (1 .. (nextId - 1)) \ gone
    /\ \A i \in 1 .. Len(handlers) : handlers[i].active
    /\ \A i, j \in 1 .. Len(handlers) : i < j => handlers[i].id < handlers[j].id

\* A handler that was unsubscribed, by whomever, is not called any more.
NoCallAfterUnsubscribe ==
  [][ \A i \in 1 .. Len(stack') :
        IsPublication(stack'[i]) /\ stack'[i].running # Nobody
          /\ (i > Len(stack) \/ stack[i] # stack'[i])
        => stack'[i].running \notin gone ]_vars

\* A publication that ends has called everyone who was subscribed when it began
\* and was not unsubscribed since, and calls nobody twice.
EveryoneServedOnce ==
  [][ /\ Len(stack') < Len(stack) /\ IsPublication(Top) =>
           Top.due \ gone \subseteq Top.called /\ Top.called \subseteq Top.due
      /\ Len(stack') = Len(stack) /\ stack # <<>> /\ stack' # stack =>
           \/ ~IsPublication(Top)
           \/ stack'[Len(stack)].running \notin Top.called ]_vars
=============================================================================
