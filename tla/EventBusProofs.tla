--------------------------- MODULE EventBusProofs ---------------------------
(***************************************************************************)
(* What the bus keeps as long as no handler subscribes, or publishes, or   *)
(* drains the queue: every walk over the handlers is sound, removals are   *)
(* done, everyone is served once and nobody after unsubscribing, for any   *)
(* number of handlers, events and calls.  The server's own two handlers    *)
(* call nothing on the bus.  Types are right whatever handlers call.       *)
(***************************************************************************)
EXTENDS EventBus, FiniteSetTheorems, SequenceTheorems, TLAPS

\* Handlers that at most unsubscribe and queue.
QuietHandlers == HandlerCalls \subseteq {"unsubscribe", "queue"}

\* The shape of a publication.
PublicationFrame(f) ==
  f = [kind |-> "publish", next |-> f.next, running |-> f.running, broken |-> f.broken,
       due |-> f.due, called |-> f.called]

\* No publication among the calls in s.
NoWalk(s) == \A i \in 1 .. Len(s) : ~IsPublication(s[i])

\* Strengthening of IterationSound: publications do not nest, so the only one
\* there is is the innermost call; nothing disturbed it, and the flag is set.
NoNesting ==
  /\ \E T : stack \in Seq(T)
  /\ \A i \in 1 .. Len(stack) :
       IsPublication(stack[i]) =>
         /\ i = Len(stack)
         /\ PublicationFrame(stack[i])
         /\ ~stack[i].broken
         /\ isPublishing

\* A publication that begins is undisturbed.
LEMMA PublicationShape ==
  ASSUME NEW due
  PROVE  /\ PublicationFrame(Publication(due))
         /\ ~Publication(due).broken
  BY DEF PublicationFrame, Publication

\* A publication that goes on keeps its shape, and its walk stays sound.
LEMMA PublicationGoesOn ==
  ASSUME NEW f, PublicationFrame(f), ~f.broken, NEW n, NEW r, NEW c
  PROVE  /\ LET g == [f EXCEPT !.next = n] IN PublicationFrame(g) /\ ~g.broken
         /\ LET g == [f EXCEPT !.next = n, !.running = r] IN PublicationFrame(g) /\ ~g.broken
         /\ LET g == [f EXCEPT !.running = r, !.called = c] IN PublicationFrame(g) /\ ~g.broken
<1>1. ASSUME NEW g, PublicationFrame(g), ~g.broken, NEW x
      PROVE  /\ PublicationFrame([g EXCEPT !.next = x]) /\ ~[g EXCEPT !.next = x].broken
             /\ PublicationFrame([g EXCEPT !.running = x]) /\ ~[g EXCEPT !.running = x].broken
             /\ PublicationFrame([g EXCEPT !.called = x]) /\ ~[g EXCEPT !.called = x].broken
  <2>1. [g EXCEPT !.next = x] =
          [kind |-> "publish", next |-> x, running |-> g.running, broken |-> g.broken,
           due |-> g.due, called |-> g.called]
    BY <1>1 DEF PublicationFrame
  <2>2. [g EXCEPT !.running = x] =
          [kind |-> "publish", next |-> g.next, running |-> x, broken |-> g.broken,
           due |-> g.due, called |-> g.called]
    BY <1>1 DEF PublicationFrame
  <2>3. [g EXCEPT !.called = x] =
          [kind |-> "publish", next |-> g.next, running |-> g.running, broken |-> g.broken,
           due |-> g.due, called |-> x]
    BY <1>1 DEF PublicationFrame
  <2> QED
    BY <1>1, <2>1, <2>2, <2>3 DEF PublicationFrame
<1>2. [f EXCEPT !.next = n, !.running = r] = [[f EXCEPT !.next = n] EXCEPT !.running = r]
  OBVIOUS
<1>3. [f EXCEPT !.running = r, !.called = c] = [[f EXCEPT !.running = r] EXCEPT !.called = c]
  OBVIOUS
<1> QED
  BY <1>1, <1>2, <1>3

\* A change of the vector only concerns publications.
LEMMA BrokenCalls ==
  ASSUME NEW T, NEW s \in Seq(T), NoWalk(s)
  PROVE  Broken(s) = s
<1>1. Broken(s) = [i \in 1 .. Len(s) |-> s[i]]
  BY DEF Broken, NoWalk
<1> QED
  BY <1>1

\* Nothing is under way at first.
LEMMA NestingInit == Init => NoNesting
<1> SUFFICES ASSUME Init
             PROVE  NoNesting
  OBVIOUS
<1>1. stack = <<>> /\ stack \in Seq({})
  BY DEF Init
<1> QED
  BY <1>1 DEF NoNesting

\* A call that begins while no publication is under way, keeps things simple.
LEMMA PushFrame ==
  ASSUME NEW f, \E T : stack \in Seq(T), NoWalk(stack),
         stack' = Append(stack, f),
         IsPublication(f) => PublicationFrame(f) /\ ~f.broken /\ isPublishing'
  PROVE  NoNesting'
<1> PICK T : stack \in Seq(T)
  OBVIOUS
<1>1. stack \in Seq(T \cup {f})
  OBVIOUS
<1>2. /\ stack' \in Seq(T \cup {f})
      /\ Len(stack') = Len(stack) + 1
      /\ stack'[Len(stack')] = f
      /\ \A i \in 1 .. Len(stack) : stack'[i] = stack[i]
  BY <1>1
<1>3. \A i \in 1 .. Len(stack') : IsPublication(stack'[i]) => i = Len(stack')
  BY <1>2 DEF NoWalk
<1> QED
  BY <1>2, <1>3 DEF NoNesting

\* The publication that is under way is undisturbed.
LEMMA TopFrame ==
  ASSUME NoNesting, stack # <<>>, IsPublication(Top)
  PROVE  PublicationFrame(Top) /\ ~Top.broken /\ isPublishing
<1> PICK T : stack \in Seq(T)
  BY DEF NoNesting
<1>1. Len(stack) \in 1 .. Len(stack)
  OBVIOUS
<1> QED
  BY <1>1 DEF NoNesting, Top

\* The publication that is under way goes on, undisturbed.
LEMMA ReplaceTop ==
  ASSUME NEW f, NoNesting, stack # <<>>,
         IsPublication(Top), PublicationFrame(f), ~f.broken,
         stack' = SetTop(f), isPublishing' = isPublishing
  PROVE  NoNesting'
<1> PICK T : stack \in Seq(T)
  BY DEF NoNesting
<1>1. Len(stack) \in 1 .. Len(stack)
  OBVIOUS
<1>2. stack \in Seq(T \cup {f})
  OBVIOUS
<1>3. /\ stack' \in Seq(T \cup {f})
      /\ Len(stack') = Len(stack)
      /\ stack'[Len(stack')] = f
      /\ \A i \in 1 .. Len(stack) : i # Len(stack) => stack'[i] = stack[i]
  BY <1>1, <1>2 DEF SetTop
<1>4. isPublishing
  BY <1>1 DEF NoNesting, Top
<1>5. \A i \in 1 .. Len(stack') : IsPublication(stack'[i]) => i = Len(stack')
  BY <1>3 DEF NoNesting
<1> QED
  BY <1>3, <1>4, <1>5 DEF NoNesting

\* A prefix of a sequence.
LEMMA Prefix ==
  ASSUME NEW T, NEW s \in Seq(T), NEW n \in Nat, n <= Len(s)
  PROVE  /\ SubSeq(s, 1, n) \in Seq(T)
         /\ Len(SubSeq(s, 1, n)) = n
         /\ \A i \in 1 .. n : SubSeq(s, 1, n)[i] = s[i]
  OBVIOUS

\* No publication is under way below the innermost call.
LEMMA PopFrame ==
  ASSUME NoNesting, stack # <<>>
  PROVE  LET rest == SubSeq(stack, 1, Len(stack) - 1)
         IN  (\E T : rest \in Seq(T)) /\ NoWalk(rest)
<1> PICK T : stack \in Seq(T)
  BY DEF NoNesting
<1> DEFINE rest == SubSeq(stack, 1, Len(stack) - 1)
<1>0. Len(stack) \in Nat /\ Len(stack) # 0
  OBVIOUS
<1> DEFINE n == Len(stack) - 1
<1>1. n \in Nat /\ n <= Len(stack)
  BY <1>0
<1>2. /\ SubSeq(stack, 1, n) \in Seq(T)
      /\ Len(SubSeq(stack, 1, n)) = n
      /\ \A i \in 1 .. n : SubSeq(stack, 1, n)[i] = stack[i]
  <2> HIDE DEF n
  <2> QED
    BY <1>1, Prefix
<1>3. \A i \in 1 .. n : i \in 1 .. Len(stack) /\ i # Len(stack)
  BY <1>1
<1>4. rest = SubSeq(stack, 1, n)
  BY <1>1
<1>5. \A i \in 1 .. n : ~IsPublication(stack[i])
  BY <1>3 DEF NoNesting
<1>6. NoWalk(SubSeq(stack, 1, n))
  BY <1>2, <1>5 DEF NoWalk
<1> QED
  BY <1>2, <1>4, <1>6

\* No call makes a second publication, or disturbs the one there is.
LEMMA NestingNext ==
  ASSUME QuietHandlers, NoNesting, [Next]_vars
  PROVE  NoNesting'
<1> PICK T : stack \in Seq(T)
  BY DEF NoNesting
<1>1. CASE Subscribe
  <2>1. stack = <<>>
    BY <1>1 DEF Subscribe, MayCall, QuietHandlers
  <2>2. NoWalk(stack)
    BY <2>1 DEF NoWalk
  <2>3. stack' = stack
    BY <1>1, <2>2, BrokenCalls DEF Subscribe
  <2> QED
    BY <2>1, <2>3 DEF NoNesting
<1>2. ASSUME NEW h \in 1 .. MaxHandlers, Unsubscribe(h)
      PROVE  NoNesting'
  <2>1. CASE isPublishing
    BY <1>2, <2>1 DEF Unsubscribe, NoNesting
  <2>2. CASE ~isPublishing
    <3>1. NoWalk(stack)
      BY <2>2 DEF NoNesting, NoWalk
    <3>2. stack' = stack
      BY <1>2, <2>2, <3>1, BrokenCalls DEF Unsubscribe
    <3> QED
      BY <3>1, <3>2 DEF NoNesting, NoWalk
  <2> QED
    BY <2>1, <2>2
<1>3. CASE BeginPublish
  <2>1. stack = <<>>
    BY <1>3 DEF BeginPublish, MayCall, QuietHandlers
  <2>2. stack' = Append(stack, Publication(Active)) /\ isPublishing'
    BY <1>3 DEF BeginPublish
  <2> QED
    BY <2>1, <2>2, PublicationShape, PushFrame DEF NoWalk
<1>4. CASE Step
  <2>1. stack # <<>> /\ IsPublication(Top) /\ PublicationFrame(Top) /\ ~Top.broken
    BY <1>4, TopFrame DEF Step, Walking
  <2> DEFINE next == [Top EXCEPT !.next = @ + 1]
             call == [Top EXCEPT !.next = @ + 1, !.running = handlers[Top.next].id]
  <2>2. PublicationFrame(next) /\ ~next.broken /\ PublicationFrame(call) /\ ~call.broken
    BY <2>1, PublicationGoesOn
  <2>3. stack' \in {SetTop(next), SetTop(call)}
    BY <1>4 DEF Step
  <2>4. isPublishing' = isPublishing
    BY <1>4 DEF Step
  <2> HIDE DEF next, call
  <2> QED
    BY <2>1, <2>2, <2>3, <2>4, ReplaceTop
<1>5. CASE HandlerReturns
  <2> DEFINE f == [Top EXCEPT !.running = Nobody, !.called = @ \cup {Top.running}]
  <2>1. stack # <<>> /\ IsPublication(Top) /\ PublicationFrame(Top) /\ ~Top.broken
    BY <1>5, TopFrame DEF HandlerReturns
  <2>2. PublicationFrame(f) /\ ~f.broken
    BY <2>1, PublicationGoesOn
  <2>3. stack' = SetTop(f) /\ isPublishing' = isPublishing
    BY <1>5 DEF HandlerReturns
  <2> QED
    BY <2>1, <2>2, <2>3, ReplaceTop
<1>6. CASE EndPublish
  <2> DEFINE rest == SubSeq(stack, 1, Len(stack) - 1)
  <2>1. (\E S : rest \in Seq(S)) /\ NoWalk(rest)
    BY <1>6, PopFrame DEF EndPublish, Walking
  <2>2. stack' \in {rest, Broken(rest)}
    BY <1>6 DEF EndPublish
  <2>3. stack' = rest
    BY <2>1, <2>2, BrokenCalls
  <2> QED
    BY <2>1, <2>3 DEF NoNesting, NoWalk
<1>7. CASE Queue
  BY <1>7 DEF Queue, NoNesting
<1>8. CASE ProcessQueue
  <2>1. stack = <<>>
    BY <1>8 DEF ProcessQueue, MayCall, QuietHandlers
  <2>2. stack' = Append(stack, Drain) /\ ~IsPublication(Drain)
    BY <1>8 DEF ProcessQueue, Drain, IsPublication
  <2> QED
    BY <2>1, <2>2, PushFrame DEF NoWalk
<1>9. CASE DrainNext
  <2>1. NoWalk(stack)
    BY <1>9 DEF DrainNext, NoNesting, NoWalk, IsPublication, Top
  <2>2. stack' = Append(stack, Publication(Active)) /\ isPublishing'
    BY <1>9 DEF DrainNext
  <2> QED
    BY <2>1, <2>2, PublicationShape, PushFrame
<1>10. CASE DrainEnd
  BY <1>10, PopFrame DEF DrainEnd, NoNesting, NoWalk
<1>11. CASE ClearSubscribers
  BY <1>11 DEF ClearSubscribers, NoNesting
<1>12. CASE ClearQueue
  BY <1>12 DEF ClearQueue, NoNesting
<1>13. CASE UNCHANGED vars
  BY <1>13 DEF vars, NoNesting
<1> QED
  BY <1>1, <1>2, <1>3, <1>4, <1>5, <1>6, <1>7, <1>8, <1>9, <1>10, <1>11, <1>12, <1>13
  DEF Next

\* With handlers that only unsubscribe and queue, the vector never changes shape
\* under the range-for of EventBus::publish.
THEOREM QuietHandlersWalkSoundly == QuietHandlers => (Spec => []IterationSound)
<1> SUFFICES ASSUME QuietHandlers
             PROVE  Spec => []IterationSound
  OBVIOUS
<1>1. Init => NoNesting
  BY NestingInit
<1>2. NoNesting /\ [Next]_vars => NoNesting'
  BY NestingNext
<1>3. NoNesting => IterationSound
  BY DEF NoNesting, IterationSound
<1> QED
  BY <1>1, <1>2, <1>3, PTL DEF Spec

-----------------------------------------------------------------------------
(* Erasing from the vector. *)

\* How far up i is in K.
Rank(K, i) == Cardinality({j \in K : j <= i})

\* Elements of K have ranks of their own, in their order.
LEMMA RankType ==
  ASSUME NEW n \in Nat, NEW K \in SUBSET (1 .. n)
  PROVE  /\ IsFiniteSet(K)
         /\ Cardinality(K) \in Nat
         /\ \A i \in K : Rank(K, i) \in 1 .. Cardinality(K)
         /\ \A i, j \in K : i < j => Rank(K, i) < Rank(K, j)
<1>1. \A X \in SUBSET (1 .. n) : IsFiniteSet(X) /\ Cardinality(X) \in Nat
  <2>1. 1 \in Int /\ n \in Int
    OBVIOUS
  <2>2. IsFiniteSet(1 .. n)
    BY <2>1, FS_Interval
  <2> QED
    BY <2>2, FS_Subset, FS_CardinalityType
<1>0. \A i \in K : i \in Int
  OBVIOUS
<1>2. ASSUME NEW i \in K
      PROVE  Rank(K, i) \in 1 .. Cardinality(K)
  <2> DEFINE D == {j \in K : j <= i}
  <2>1. D \in SUBSET (1 .. n) /\ D \in SUBSET K /\ i \in D
    <3>1. i <= i
      BY <1>0
    <3> QED
      BY <3>1
  <2>2. Cardinality(D) <= Cardinality(K) /\ Cardinality(D) \in Nat
    BY <1>1, <2>1, FS_Subset
  <2>3. Cardinality(D) # 0
    BY <1>1, <2>1, FS_EmptySet
  <2> QED
    BY <1>1, <2>2, <2>3 DEF Rank
<1>3. ASSUME NEW i \in K, NEW j \in K, i < j
      PROVE  Rank(K, i) < Rank(K, j)
  <2> DEFINE D == {l \in K : l <= i}
             E == {l \in K : l <= j}
  <2>1. D \in SUBSET (1 .. n) /\ E \in SUBSET (1 .. n)
    OBVIOUS
  <2>2. D \in SUBSET E /\ D # E
    <3>1. \A l \in K : l <= i => l <= j
      BY <1>0, <1>3
    <3>2. j \in E /\ j \notin D
      BY <1>0, <1>3
    <3> QED
      BY <3>1, <3>2
  <2>3. /\ Cardinality(D) <= Cardinality(E) /\ Cardinality(D) # Cardinality(E)
        /\ Cardinality(D) \in Nat /\ Cardinality(E) \in Nat
    BY <1>1, <2>1, <2>2, FS_Subset
  <2> HIDE DEF D, E
  <2>4. Cardinality(D) < Cardinality(E)
    BY <2>3
  <2> QED
    BY <2>4 DEF Rank, D, E
<1> QED
  BY <1>1, <1>2, <1>3

\* Every place up to the size of K is the rank of one of its elements: as many
\* ranks as elements, and no two the same.
LEMMA NthType ==
  ASSUME NEW n \in Nat, NEW K \in SUBSET (1 .. n)
  PROVE  /\ \A k \in 1 .. Cardinality(K) : Nth(K, k) \in K /\ Rank(K, Nth(K, k)) = k
         /\ \A i \in K : Nth(K, Rank(K, i)) = i
         /\ \A k, l \in 1 .. Cardinality(K) : k < l => Nth(K, k) < Nth(K, l)
<1> DEFINE T == 1 .. Cardinality(K)
           r == [i \in K |-> Rank(K, i)]
<1>1. \A i \in K : Rank(K, i) \in T
  BY RankType
<1>0. \A i, j \in K : i < j \/ i = j \/ j < i
  OBVIOUS
<1>2. \A i, j \in K : Rank(K, i) = Rank(K, j) => i = j
  <2>1. \A i \in K : Rank(K, i) \in Int
    BY <1>1
  <2>2. \A i, j \in K : i < j => Rank(K, i) < Rank(K, j)
    BY RankType
  <2> QED
    BY <1>0, <2>1, <2>2
<1>3. r \in Injection(K, T)
  BY <1>1, <1>2 DEF Injection, IsInjective
<1>4. IsFiniteSet(T) /\ Cardinality(T) = Cardinality(K)
  <2> DEFINE c == Cardinality(K)
  <2>1. c \in Nat
    BY RankType
  <2> HIDE DEF c
  <2>2. 1 \in Int /\ c \in Int /\ (IF 1 > c THEN 0 ELSE c - 1 + 1) = c
    BY <2>1
  <2>3. IsFiniteSet(1 .. c) /\ Cardinality(1 .. c) = IF 1 > c THEN 0 ELSE c - 1 + 1
    BY <2>2, FS_Interval
  <2> QED
    BY <2>2, <2>3 DEF c
<1>5. r \in Surjection(K, T)
  BY <1>3, <1>4, FS_Injection, RankType
<1>6. \A k \in T : \E i \in K : Rank(K, i) = k
  BY <1>5 DEF Surjection
<1>7. \A k \in T : Nth(K, k) \in K /\ Rank(K, Nth(K, k)) = k
  BY <1>6 DEF Nth, Rank
<1>8. \A i \in K : Nth(K, Rank(K, i)) = i
  BY <1>1, <1>2, <1>7
<1>9. ASSUME NEW k \in T, NEW l \in T, k < l
      PROVE  Nth(K, k) < Nth(K, l)
  <2>1. Nth(K, k) \in K /\ Nth(K, l) \in K /\ Rank(K, Nth(K, k)) = k /\ Rank(K, Nth(K, l)) = l
    BY <1>7
  <2>2. k \in Int /\ l \in Int
    BY RankType
  <2>3. \A i, j \in K : i < j => Rank(K, i) < Rank(K, j)
    BY RankType
  <2>4. ~(Nth(K, l) < Nth(K, k)) /\ Nth(K, k) # Nth(K, l)
    <3>1. Nth(K, l) < Nth(K, k) => l < k
      BY <2>1, <2>3
    <3>2. ~(l < k) /\ k # l
      BY <1>9, <2>2
    <3> QED
      BY <2>1, <3>1, <3>2
  <2> QED
    BY <1>0, <2>1, <2>4
<1> QED
  BY <1>7, <1>8, <1>9

Entry == [id : HandlerId, active : BOOLEAN]

\* Every entry has an id that is somebody's.
LEMMA Entries ==
  ASSUME TypeOK
  PROVE  /\ handlers \in Seq(Entry)
         /\ Len(handlers) \in Nat
         /\ \A i \in 1 .. Len(handlers) :
              /\ handlers[i] \in Entry
              /\ handlers[i].id \in Nat \ {0}
              /\ handlers[i].active \in BOOLEAN
<1>1. handlers \in Seq(Entry)
  BY DEF TypeOK, Entry
<1>2. Len(handlers) \in Nat /\ \A i \in 1 .. Len(handlers) : handlers[i] \in Entry
  BY <1>1, ElementOfSeq
<1>3. \A e \in Entry : e.id \in Nat \ {0} /\ e.active \in BOOLEAN
  BY DEF Entry, HandlerId
<1> QED
  BY <1>1, <1>2, <1>3

\* Erasing keeps the other entries, all of them, in their order.
LEMMA WithoutShape ==
  ASSUME TypeOK, NEW S
  PROVE  /\ Without(S) \in Seq(Entry)
         /\ \A k \in 1 .. Len(Without(S)) : \E i \in 1 .. Len(handlers) :
              Without(S)[k] = handlers[i] /\ handlers[i].id \notin S
         /\ \A i \in 1 .. Len(handlers) : handlers[i].id \notin S =>
              \E k \in 1 .. Len(Without(S)) : Without(S)[k] = handlers[i]
         /\ \A k, l \in 1 .. Len(Without(S)) : k < l =>
              \E i, j \in 1 .. Len(handlers) :
                i < j /\ Without(S)[k] = handlers[i] /\ Without(S)[l] = handlers[j]
<1> DEFINE n == Len(handlers)
           K == Kept(S)
           c == Cardinality(K)
           w == Without(S)
<1>1. n \in Nat /\ \A i \in 1 .. n : handlers[i] \in Entry
  BY Entries
<1>2. K \in SUBSET (1 .. n) /\ \A i \in K : handlers[i].id \notin S
  BY DEF Kept
<1>3. \A i \in 1 .. n : handlers[i].id \notin S => i \in K
  BY DEF Kept
<1>4. w = [k \in 1 .. c |-> handlers[Nth(K, k)]]
  BY DEF Without
<1> HIDE DEF n, K, c, w
<1>5. /\ \A k \in 1 .. c : Nth(K, k) \in K
      /\ \A i \in K : Nth(K, Rank(K, i)) = i /\ Rank(K, i) \in 1 .. c
      /\ \A k, l \in 1 .. c : k < l => Nth(K, k) < Nth(K, l)
      /\ c \in Nat
  BY <1>1, <1>2, RankType, NthType DEF c
<1>6. w \in Seq(Entry) /\ Len(w) = c /\ \A k \in 1 .. c : w[k] = handlers[Nth(K, k)]
  <2>1. \A k \in 1 .. c : handlers[Nth(K, k)] \in Entry
    BY <1>1, <1>2, <1>5
  <2>2. w \in [1 .. c -> Entry]
    BY <1>4, <2>1
  <2> QED
    BY <1>4, <1>5, <2>2
<1>7. \A k \in 1 .. c : \E i \in 1 .. n : w[k] = handlers[i] /\ handlers[i].id \notin S
  BY <1>2, <1>5, <1>6
<1>8. \A i \in 1 .. n : handlers[i].id \notin S => \E k \in 1 .. c : w[k] = handlers[i]
  BY <1>3, <1>5, <1>6
<1>9. \A k, l \in 1 .. c : k < l => \E i, j \in 1 .. n : i < j /\ w[k] = handlers[i] /\ w[l] = handlers[j]
  BY <1>2, <1>5, <1>6
<1> QED
  BY <1>6, <1>7, <1>8, <1>9 DEF n, w

-----------------------------------------------------------------------------
(* Types. *)

LEMMA TypedInit == Init => TypeOK
<1>1. \A T : <<>> \in Seq(T)
  OBVIOUS
<1>2. Init => handlers \in Seq(Entry) /\ eventQueue \in Seq(Nat)
  BY <1>1 DEF Init
<1>3. Init => nextId \in HandlerId /\ pendingRemovals \subseteq HandlerId /\ gone \subseteq HandlerId
  BY DEF Init, HandlerId
<1>4. Init => isPublishing \in BOOLEAN
  BY Zenon DEF Init
<1>5. Init => events \in Nat
  BY DEF Init
<1> QED
  BY <1>2, <1>3, <1>4, <1>5 DEF TypeOK, Entry

LEMMA ActiveType ==
  ASSUME TypeOK
  PROVE  Active \subseteq HandlerId
  BY Entries DEF Active, HandlerId

LEMMA TypedNext ==
  ASSUME TypeOK, [Next]_vars
  PROVE  TypeOK'
<1>0. handlers \in Seq(Entry) /\ nextId \in HandlerId
  BY Entries DEF TypeOK
<1>1. CASE Subscribe
  <2>1. [id |-> nextId, active |-> TRUE] \in Entry
    BY <1>0 DEF Entry
  <2>2. handlers' \in Seq(Entry)
    BY <1>0, <1>1, <2>1 DEF Subscribe
  <2> QED
    BY <1>1, <2>2 DEF Subscribe, TypeOK, HandlerId, Entry
<1>2. ASSUME NEW h \in 1 .. MaxHandlers, Unsubscribe(h)
      PROVE  TypeOK'
  <2>1. handlers' \in Seq(Entry)
    <3>1. CASE isPublishing
      <4> DEFINE new(i) == IF handlers[i].id = h THEN [handlers[i] EXCEPT !.active = FALSE] ELSE handlers[i]
      <4>1. handlers' = [i \in 1 .. Len(handlers) |-> new(i)]
        BY <1>2, <3>1 DEF Unsubscribe
      <4>2. \A i \in 1 .. Len(handlers) : new(i) \in Entry
        <5>1. \A e \in Entry : [e EXCEPT !.active = FALSE] \in Entry
          BY DEF Entry
        <5> QED
          BY <5>1, Entries
      <4>3. Len(handlers) \in Nat
        BY Entries
      <4> HIDE DEF new
      <4>4. handlers' \in [1 .. Len(handlers) -> Entry]
        BY <4>1, <4>2
      <4> QED
        BY <4>3, <4>4
    <3>2. CASE ~isPublishing
      BY <1>2, <3>2, WithoutShape DEF Unsubscribe
    <3> QED
      BY <3>1, <3>2
  <2>2. h \in HandlerId
    BY <1>2 DEF HandlerId
  <2> QED
    BY <1>2, <2>1, <2>2 DEF Unsubscribe, TypeOK, Entry
<1>3. CASE EndPublish
  BY <1>3, WithoutShape DEF EndPublish, TypeOK, Entry
<1>4. CASE ClearSubscribers
  <2>1. handlers' \in Seq(Entry)
    BY <1>4 DEF ClearSubscribers
  <2> QED
    BY <1>4, <2>1, ActiveType DEF ClearSubscribers, TypeOK, Entry
<1>5. CASE BeginPublish
  BY <1>5 DEF BeginPublish, TypeOK
<1>6. CASE Step \/ HandlerReturns \/ ProcessQueue \/ DrainEnd
  BY <1>6 DEF Step, HandlerReturns, ProcessQueue, DrainEnd, TypeOK
<1>7. CASE Queue
  BY <1>7 DEF Queue, TypeOK
<1>8. CASE DrainNext
  BY <1>8 DEF DrainNext, TypeOK
<1>9. CASE ClearQueue
  BY <1>9 DEF ClearQueue, TypeOK
<1>10. CASE UNCHANGED vars
  BY <1>10 DEF vars, TypeOK
<1> QED
  BY <1>1, <1>2, <1>3, <1>4, <1>5, <1>6, <1>7, <1>8, <1>9, <1>10 DEF Next

\* Ids are never 0, which is nobody's, and entries stay entries, whoever calls
\* what from where.
THEOREM TypeCorrect == Spec => []TypeOK
  BY TypedInit, TypedNext, PTL DEF Spec

-----------------------------------------------------------------------------
(* The entries, the removals and the flag. *)

\* Strengthening of RemovalComplete: the entries are in the order of their ids;
\* whoever is not unsubscribed has one, and the others only until they are erased.
Registry ==
  /\ \A i, j \in 1 .. Len(handlers) : i < j => handlers[i].id < handlers[j].id
  /\ \A i \in 1 .. Len(handlers) :
       /\ handlers[i].id \in 1 .. (nextId - 1)
       /\ handlers[i].active <=> handlers[i].id \notin pendingRemovals
       /\ handlers[i].id \in gone => handlers[i].id \in pendingRemovals
  /\ \A h \in (1 .. (nextId - 1)) \ gone : \E i \in 1 .. Len(handlers) : handlers[i].id = h
  /\ pendingRemovals \subseteq gone
  /\ gone \subseteq 1 .. (nextId - 1)

\* A publication is under way.
Publishing == stack # <<>> /\ IsPublication(Top)

\* Only then is a removal deferred.
Deferral == (isPublishing <=> Publishing) /\ (Publishing \/ pendingRemovals = {})

BusInv == NoNesting /\ Registry /\ Deferral

\* What a step does to the calls under way.
LEMMA StackSteps ==
  ASSUME QuietHandlers, NoNesting
  PROVE  /\ Subscribe => stack = <<>> /\ stack' = stack
         /\ \A h \in 1 .. MaxHandlers : Unsubscribe(h) => stack' = stack
         /\ BeginPublish => stack = <<>> /\ Publishing' /\ Top' = Publication(Active)
         /\ DrainNext => ~Publishing /\ Publishing' /\ Top' = Publication(Active)
         /\ ProcessQueue => ~Publishing /\ ~Publishing'
         /\ DrainEnd => ~Publishing /\ ~Publishing'
         /\ EndPublish => /\ Publishing /\ ~Publishing'
                           /\ stack' = SubSeq(stack, 1, Len(stack) - 1)
<1> PICK T : stack \in Seq(T)
  BY DEF NoNesting
<1>1. ASSUME NEW f, stack' = Append(stack, f)
      PROVE  stack' # <<>> /\ Top' = f
  <2>1. stack \in Seq(T \cup {f})
    OBVIOUS
  <2>2. stack' \in Seq(T \cup {f}) /\ Len(stack') = Len(stack) + 1 /\ stack'[Len(stack) + 1] = f
    BY <1>1, <2>1
  <2> QED
    BY <2>2 DEF Top
<1>2. ASSUME stack # <<>>, stack' = SubSeq(stack, 1, Len(stack) - 1)
      PROVE  ~Publishing'
  <2> DEFINE rest == SubSeq(stack, 1, Len(stack) - 1)
  <2>1. (\E S : rest \in Seq(S)) /\ NoWalk(rest)
    BY <1>2, PopFrame
  <2>2. rest # <<>> => Len(rest) \in 1 .. Len(rest)
    BY <2>1
  <2> HIDE DEF rest
  <2>3. stack' = rest
    BY <1>2 DEF rest
  <2> QED
    BY <2>1, <2>2, <2>3 DEF Publishing, Top, NoWalk
<1>3. \A due : IsPublication(Publication(due))
  BY DEF IsPublication, Publication
<1>4. ~IsPublication(Drain)
  BY DEF IsPublication, Drain
<1>5. ASSUME Subscribe
      PROVE  stack = <<>> /\ stack' = stack
  <2>1. stack = <<>>
    BY <1>5 DEF Subscribe, MayCall, QuietHandlers
  <2>2. NoWalk(stack)
    BY <2>1 DEF NoWalk
  <2> QED
    BY <1>5, <2>1, <2>2, BrokenCalls DEF Subscribe
<1>6. ASSUME NEW h \in 1 .. MaxHandlers, Unsubscribe(h)
      PROVE  stack' = stack
  <2>1. ~isPublishing => NoWalk(stack)
    BY DEF NoNesting, NoWalk
  <2> QED
    BY <1>6, <2>1, BrokenCalls DEF Unsubscribe
<1>7. ASSUME BeginPublish
      PROVE  stack = <<>> /\ Publishing' /\ Top' = Publication(Active)
  BY <1>1, <1>3, <1>7 DEF BeginPublish, MayCall, QuietHandlers, Publishing
<1>8. ASSUME DrainNext
      PROVE  ~Publishing /\ Publishing' /\ Top' = Publication(Active)
  BY <1>1, <1>3, <1>8 DEF DrainNext, IsPublication, Publishing
<1>9. ASSUME ProcessQueue
      PROVE  ~Publishing /\ ~Publishing'
  BY <1>1, <1>4, <1>9 DEF ProcessQueue, MayCall, QuietHandlers, Publishing
<1>10. ASSUME DrainEnd
       PROVE  ~Publishing /\ ~Publishing'
  BY <1>2, <1>10 DEF DrainEnd, IsPublication, Publishing
<1>11. ASSUME EndPublish
       PROVE  Publishing /\ ~Publishing' /\ stack' = SubSeq(stack, 1, Len(stack) - 1)
  <2> DEFINE rest == SubSeq(stack, 1, Len(stack) - 1)
  <2>1. (\E S : rest \in Seq(S)) /\ NoWalk(rest)
    BY <1>11, PopFrame DEF EndPublish, Walking
  <2>2. stack' \in {rest, Broken(rest)}
    BY <1>11 DEF EndPublish
  <2>3. stack' = rest
    BY <2>1, <2>2, BrokenCalls
  <2> QED
    BY <1>2, <1>11, <2>3 DEF EndPublish, Walking, Publishing
<1> QED
  BY <1>5, <1>6, <1>7, <1>8, <1>9, <1>10, <1>11

\* A step of the walk leaves a publication at the top.
LEMMA WalkSteps ==
  ASSUME NoNesting, Publishing, NEW f, stack' = SetTop(f), f.kind = "publish"
  PROVE  /\ Publishing' /\ Top' = f
         /\ Len(stack') = Len(stack) /\ Len(stack) \in Nat
         /\ \A i \in 1 .. Len(stack) : stack'[i] = IF i = Len(stack) THEN f ELSE stack[i]
<1> PICK T : stack \in Seq(T)
  BY DEF NoNesting
<1>1. stack \in Seq(T \cup {f}) /\ Len(stack) \in 1 .. Len(stack)
  BY DEF Publishing
<1>2. /\ stack' \in Seq(T \cup {f}) /\ Len(stack') = Len(stack)
      /\ \A i \in 1 .. Len(stack) : stack'[i] = IF i = Len(stack) THEN f ELSE stack[i]
  BY <1>1 DEF SetTop
<1> QED
  BY <1>1, <1>2 DEF Publishing, Top, IsPublication

\* The ids that are called now.
LEMMA ActiveIs ==
  ASSUME TypeOK, Registry
  PROVE  Active = (1 .. (nextId - 1)) \ gone
<1>1. \A i \in 1 .. Len(handlers) : handlers[i].active => handlers[i].id \in (1 .. (nextId - 1)) \ gone
  BY DEF Registry
<1>2. \A h \in (1 .. (nextId - 1)) \ gone :
        \E i \in 1 .. Len(handlers) : handlers[i].id = h /\ handlers[i].active
  BY DEF Registry
<1> QED
  BY <1>1, <1>2 DEF Active

\* Erasing the ids in S, which are gone.
LEMMA Erased ==
  ASSUME TypeOK, Registry, NEW S, pendingRemovals \subseteq S,
         handlers' = Without(S), pendingRemovals' = {}, nextId' = nextId,
         gone' = gone \cup S, S \subseteq 1 .. (nextId - 1)
  PROVE  Registry'
<1> DEFINE w == Without(S)
           n == Len(handlers)
           m == Len(w)
<1>1. /\ \A k \in 1 .. m : \E i \in 1 .. n : w[k] = handlers[i] /\ handlers[i].id \notin S
      /\ \A i \in 1 .. n : handlers[i].id \notin S => \E k \in 1 .. m : w[k] = handlers[i]
      /\ \A k, l \in 1 .. m : k < l =>
           \E i, j \in 1 .. n : i < j /\ w[k] = handlers[i] /\ w[l] = handlers[j]
  BY WithoutShape
<1>2. handlers' = w
  OBVIOUS
<1>3. /\ \A i, j \in 1 .. n : i < j => handlers[i].id < handlers[j].id
      /\ \A i \in 1 .. n :
           /\ handlers[i].id \in 1 .. (nextId - 1)
           /\ handlers[i].active <=> handlers[i].id \notin pendingRemovals
           /\ handlers[i].id \in gone => handlers[i].id \in pendingRemovals
      /\ \A h \in (1 .. (nextId - 1)) \ gone : \E i \in 1 .. n : handlers[i].id = h
      /\ gone \subseteq 1 .. (nextId - 1)
  BY DEF Registry
<1> HIDE DEF w, n, m
<1>4. \A k, l \in 1 .. m : k < l => w[k].id < w[l].id
  BY <1>1, <1>3
<1>5. \A k \in 1 .. m : /\ w[k].id \in 1 .. (nextId - 1)
                        /\ w[k].active
                        /\ w[k].id \notin gone \cup S
  BY <1>1, <1>3
<1>6. \A h \in (1 .. (nextId - 1)) \ (gone \cup S) : \E k \in 1 .. m : w[k].id = h
  BY <1>1, <1>3
<1>7. gone \cup S \subseteq 1 .. (nextId - 1)
  BY <1>3
<1> QED
  BY <1>2, <1>4, <1>5, <1>6, <1>7 DEF Registry, w, m

\* The new entry has the highest id.
LEMMA Subscribed ==
  ASSUME TypeOK, Registry, Subscribe, pendingRemovals = {}
  PROVE  Registry'
<1> DEFINE n == Len(handlers)
           e == [id |-> nextId, active |-> TRUE]
<1>0. n \in Nat /\ nextId \in Nat \ {0} /\ e \in Entry
  BY Entries DEF TypeOK, HandlerId, Entry
<1>1. handlers \in Seq(Entry) /\ \A i \in 1 .. n : handlers[i] \in Entry
  BY Entries
<1>2. handlers' = Append(handlers, e) /\ nextId' = nextId + 1
  BY DEF Subscribe
<1>3. pendingRemovals' = pendingRemovals /\ gone' = gone
  BY DEF Subscribe
<1>4. e.id = nextId /\ e.active
  OBVIOUS
<1> HIDE DEF e
<1>5. Len(handlers') = n + 1 /\ handlers'[n + 1] = e /\ \A i \in 1 .. n : handlers'[i] = handlers[i]
  BY <1>0, <1>1, <1>2
<1>6. /\ \A i, j \in 1 .. n : i < j => handlers[i].id < handlers[j].id
      /\ \A i \in 1 .. n :
           /\ handlers[i].id \in 1 .. (nextId - 1)
           /\ handlers[i].active <=> handlers[i].id \notin pendingRemovals
           /\ handlers[i].id \in gone => handlers[i].id \in pendingRemovals
      /\ \A h \in (1 .. (nextId - 1)) \ gone : \E i \in 1 .. n : handlers[i].id = h
      /\ pendingRemovals \subseteq gone
      /\ gone \subseteq 1 .. (nextId - 1)
  BY DEF Registry
<1> HIDE DEF n
<1>7. \A i \in 1 .. (n + 1) : i \in 1 .. n \/ i = n + 1
  BY <1>0
<1>8. 1 .. (nextId' - 1) = 1 .. (nextId - 1) \cup {nextId}
  BY <1>0, <1>2
<1>9. \A h \in 1 .. (nextId - 1) : h < nextId
  BY <1>0
<1>10. nextId \notin gone
  BY <1>0, <1>6
<1>11. \A i, j \in 1 .. (n + 1) : i < j => handlers'[i].id < handlers'[j].id
  <2> SUFFICES ASSUME NEW i \in 1 .. (n + 1), NEW j \in 1 .. (n + 1), i < j
               PROVE  handlers'[i].id < handlers'[j].id
    OBVIOUS
  <2>1. i \in 1 .. n
    BY <1>0
  <2>2. CASE j \in 1 .. n
    BY <1>5, <1>6, <2>1, <2>2
  <2>3. CASE j = n + 1
    BY <1>4, <1>5, <1>6, <1>9, <2>1, <2>3
  <2> QED
    BY <1>7, <2>2, <2>3
<1>12. \A i \in 1 .. (n + 1) :
          /\ handlers'[i].id \in 1 .. (nextId' - 1)
          /\ handlers'[i].active <=> handlers'[i].id \notin pendingRemovals'
          /\ handlers'[i].id \in gone' => handlers'[i].id \in pendingRemovals'
  <2> SUFFICES ASSUME NEW i \in 1 .. (n + 1)
               PROVE  /\ handlers'[i].id \in 1 .. (nextId' - 1)
                      /\ handlers'[i].active <=> handlers'[i].id \notin pendingRemovals'
                      /\ handlers'[i].id \in gone' => handlers'[i].id \in pendingRemovals'
    OBVIOUS
  <2>1. CASE i \in 1 .. n
    <3>1. handlers'[i] = handlers[i]
      BY <1>5, <2>1
    <3> QED
      BY <1>3, <1>6, <1>8, <2>1, <3>1
  <2>2. CASE i = n + 1
    <3>1. handlers'[i] = e
      BY <1>5, <2>2
    <3> QED
      BY <1>3, <1>4, <1>8, <1>10, <3>1
  <2> QED
    BY <1>7, <2>1, <2>2
<1>13. \A h \in (1 .. (nextId' - 1)) \ gone' : \E i \in 1 .. (n + 1) : handlers'[i].id = h
  <2> SUFFICES ASSUME NEW h \in (1 .. (nextId' - 1)) \ gone'
               PROVE  \E i \in 1 .. (n + 1) : handlers'[i].id = h
    OBVIOUS
  <2>1. CASE h \in 1 .. (nextId - 1)
    <3>1. PICK i \in 1 .. n : handlers[i].id = h
      BY <1>3, <1>6, <2>1
    <3>2. i \in 1 .. (n + 1)
      BY <1>0
    <3> QED
      BY <1>5, <3>1, <3>2
  <2>2. CASE h = nextId
    <3>1. n + 1 \in 1 .. (n + 1)
      BY <1>0
    <3> QED
      BY <1>4, <1>5, <2>2, <3>1
  <2> QED
    BY <1>8, <2>1, <2>2
<1>14. pendingRemovals' \subseteq gone' /\ gone' \subseteq 1 .. (nextId' - 1)
  BY <1>3, <1>6, <1>8
<1> QED
  BY <1>5, <1>11, <1>12, <1>13, <1>14 DEF Registry

\* While a publication is under way, the entry of h is switched off.
LEMMA SwitchedOff ==
  ASSUME TypeOK, Registry, NEW h, Unsubscribe(h), isPublishing
  PROVE  /\ Registry'
         /\ Len(handlers') = Len(handlers)
         /\ \A i \in 1 .. Len(handlers) :
              /\ handlers'[i].id = handlers[i].id
              /\ handlers'[i].active <=> handlers[i].active /\ handlers[i].id # h
<1> DEFINE n == Len(handlers)
<1>1. n \in Nat /\ \A i \in 1 .. n : handlers[i] \in Entry
  BY Entries
<1>2. /\ pendingRemovals' = pendingRemovals \cup {h} /\ gone' = gone \cup {h} /\ nextId' = nextId
      /\ h \in 1 .. (nextId - 1)
      /\ handlers' = [i \in 1 .. n |-> IF handlers[i].id = h THEN [handlers[i] EXCEPT !.active = FALSE]
                                                             ELSE handlers[i]]
  BY DEF Unsubscribe
<1>3. \A e \in Entry : /\ [e EXCEPT !.active = FALSE].id = e.id
                       /\ ~[e EXCEPT !.active = FALSE].active
  BY DEF Entry
<1>4. Len(handlers') = n
  BY <1>1, <1>2
<1>5. \A i \in 1 .. n : /\ handlers'[i].id = handlers[i].id
                        /\ handlers'[i].active <=> handlers[i].active /\ handlers[i].id # h
  BY <1>1, <1>2, <1>3
<1>6. /\ \A i, j \in 1 .. n : i < j => handlers[i].id < handlers[j].id
      /\ \A i \in 1 .. n :
           /\ handlers[i].id \in 1 .. (nextId - 1)
           /\ handlers[i].active <=> handlers[i].id \notin pendingRemovals
           /\ handlers[i].id \in gone => handlers[i].id \in pendingRemovals
      /\ \A g \in (1 .. (nextId - 1)) \ gone : \E i \in 1 .. n : handlers[i].id = g
      /\ pendingRemovals \subseteq gone
      /\ gone \subseteq 1 .. (nextId - 1)
  BY DEF Registry
<1> HIDE DEF n
<1>7. /\ \A i, j \in 1 .. n : i < j => handlers'[i].id < handlers'[j].id
      /\ \A i \in 1 .. n :
           /\ handlers'[i].id \in 1 .. (nextId' - 1)
           /\ handlers'[i].active <=> handlers'[i].id \notin pendingRemovals'
           /\ handlers'[i].id \in gone' => handlers'[i].id \in pendingRemovals'
  BY <1>2, <1>5, <1>6
<1>8. /\ \A g \in (1 .. (nextId' - 1)) \ gone' : \E i \in 1 .. n : handlers'[i].id = g
      /\ pendingRemovals' \subseteq gone'
      /\ gone' \subseteq 1 .. (nextId' - 1)
  BY <1>2, <1>5, <1>6
<1>9. Registry'
  BY <1>4, <1>7, <1>8 DEF Registry
<1> QED
  BY <1>4, <1>5, <1>9 DEF n

LEMMA BusInit == Init => BusInv
<1> SUFFICES ASSUME Init
             PROVE  BusInv
  OBVIOUS
<1>1. Len(handlers) = 0 /\ 1 .. (nextId - 1) = {} /\ pendingRemovals = {} /\ gone = {}
  BY DEF Init
<1>2. Registry
  BY <1>1 DEF Registry
<1>3. ~isPublishing /\ ~Publishing
  BY DEF Init, Publishing
<1> QED
  BY <1>1, <1>2, <1>3, NestingInit DEF BusInv, Deferral

\* Each call leaves the entries, the removals and the flag in agreement.
LEMMA BusNext ==
  ASSUME QuietHandlers, TypeOK, BusInv, [Next]_vars
  PROVE  BusInv'
<1>0. NoNesting /\ Registry /\ Deferral
  BY DEF BusInv
<1> DEFINE Same == UNCHANGED <<handlers, nextId, pendingRemovals, gone>>
<1>1. Same => Registry'
  BY <1>0 DEF Registry
<1>2. CASE Subscribe
  <2>1. stack = <<>> /\ stack' = stack
    BY <1>0, <1>2, StackSteps
  <2>2. ~Publishing /\ ~Publishing'
    BY <2>1 DEF Publishing
  <2>3. pendingRemovals = {}
    BY <1>0, <2>2 DEF Deferral
  <2>4. Registry'
    BY <1>0, <1>2, <2>3, Subscribed
  <2>5. pendingRemovals' = pendingRemovals /\ isPublishing' = isPublishing
    BY <1>2 DEF Subscribe
  <2> QED
    BY <1>0, <2>2, <2>4, <2>5, NestingNext DEF BusInv, Deferral
<1>3. ASSUME NEW h \in 1 .. MaxHandlers, Unsubscribe(h)
      PROVE  BusInv'
  <2>1. stack' = stack /\ isPublishing' = isPublishing
    BY <1>0, <1>3, StackSteps DEF Unsubscribe
  <2>2. Publishing' <=> Publishing
    BY <2>1 DEF Publishing, Top
  <2>3. CASE isPublishing
    <3>1. Registry'
      BY <1>0, <1>3, <2>3, SwitchedOff
    <3> QED
      BY <1>0, <2>1, <2>2, <2>3, <3>1, NestingNext DEF BusInv, Deferral
  <2>4. CASE ~isPublishing
    <3>1. pendingRemovals = {} /\ pendingRemovals' = {}
      BY <1>0, <1>3, <2>4 DEF Deferral, Unsubscribe
    <3>2. /\ handlers' = Without({h}) /\ nextId' = nextId /\ gone' = gone \cup {h}
          /\ {h} \subseteq 1 .. (nextId - 1)
      BY <1>3, <2>4 DEF Unsubscribe
    <3>3. Registry'
      BY <1>0, <3>1, <3>2, Erased
    <3> QED
      BY <1>0, <2>1, <2>2, <3>1, <3>3, NestingNext DEF BusInv, Deferral
  <2> QED
    BY <2>3, <2>4
<1>4. CASE BeginPublish \/ DrainNext
  <2>1. Publishing' /\ isPublishing' /\ Same
    BY <1>0, <1>4, StackSteps DEF BeginPublish, DrainNext
  <2> QED
    BY <1>0, <1>1, <2>1, NestingNext DEF BusInv, Deferral
<1>5. CASE Step \/ HandlerReturns
  <2>1. Publishing /\ Same /\ isPublishing' = isPublishing
    BY <1>5 DEF Step, HandlerReturns, Walking, Publishing
  <2>2. PublicationFrame(Top)
    BY <1>0, <2>1, TopFrame DEF Publishing
  <2>3. \A a, b : /\ [Top EXCEPT !.next = a, !.running = b].kind = "publish"
                  /\ [Top EXCEPT !.next = a].kind = "publish"
                  /\ [Top EXCEPT !.running = a, !.called = b].kind = "publish"
    BY <2>2 DEF PublicationFrame
  <2> DEFINE next == [Top EXCEPT !.next = @ + 1]
             call == [Top EXCEPT !.next = @ + 1, !.running = handlers[Top.next].id]
             back == [Top EXCEPT !.running = Nobody, !.called = @ \cup {Top.running}]
  <2>4. next.kind = "publish" /\ call.kind = "publish" /\ back.kind = "publish"
    BY <2>3
  <2>5. stack' \in {SetTop(next), SetTop(call), SetTop(back)}
    BY <1>5 DEF Step, HandlerReturns
  <2> HIDE DEF next, call, back
  <2>6. \E f : stack' = SetTop(f) /\ f.kind = "publish"
    BY <2>4, <2>5
  <2>7. Publishing'
    BY <1>0, <2>1, <2>6, WalkSteps
  <2> QED
    BY <1>0, <1>1, <2>1, <2>7, NestingNext DEF BusInv, Deferral
<1>6. CASE EndPublish
  <2>1. ~Publishing' /\ ~isPublishing' /\ pendingRemovals' = {}
    BY <1>0, <1>6, StackSteps DEF EndPublish
  <2>2. /\ handlers' = Without(pendingRemovals) /\ nextId' = nextId /\ gone' = gone
        /\ pendingRemovals \subseteq gone /\ gone \subseteq 1 .. (nextId - 1)
    BY <1>0, <1>6 DEF EndPublish, Registry
  <2>3. gone' = gone \cup pendingRemovals /\ pendingRemovals \subseteq 1 .. (nextId - 1)
    BY <2>2
  <2>4. Registry'
    BY <1>0, <2>1, <2>2, <2>3, Erased
  <2> QED
    BY <1>0, <2>1, <2>4, NestingNext DEF BusInv, Deferral
<1>7. CASE ProcessQueue \/ DrainEnd
  <2>1. ~Publishing /\ ~Publishing' /\ Same /\ isPublishing' = isPublishing
    BY <1>0, <1>7, StackSteps DEF ProcessQueue, DrainEnd
  <2> QED
    BY <1>0, <1>1, <2>1, NestingNext DEF BusInv, Deferral
<1>8. CASE Queue \/ ClearQueue \/ UNCHANGED vars
  <2>1. Same /\ stack' = stack /\ isPublishing' = isPublishing
    BY <1>8 DEF Queue, ClearQueue, vars
  <2>2. Publishing' <=> Publishing
    BY <2>1 DEF Publishing, Top
  <2> QED
    BY <1>0, <1>1, <2>1, <2>2, NestingNext DEF BusInv, Deferral
<1>9. CASE ClearSubscribers
  <2>1. stack = <<>> /\ stack' = stack /\ isPublishing' = isPublishing
    BY <1>9 DEF ClearSubscribers
  <2>2. ~Publishing /\ ~Publishing'
    BY <2>1 DEF Publishing
  <2>3. /\ Len(handlers') = 0 /\ pendingRemovals' = {} /\ nextId' = nextId
        /\ gone' = gone \cup Active
    BY <1>9 DEF ClearSubscribers
  <2>4. gone' = 1 .. (nextId - 1)
    BY <1>0, <2>3, ActiveIs DEF Registry
  <2>5. Registry'
    BY <2>3, <2>4 DEF Registry
  <2> QED
    BY <1>0, <2>1, <2>2, <2>3, <2>5, NestingNext DEF BusInv, Deferral
<1> QED
  BY <1>2, <1>3, <1>4, <1>5, <1>6, <1>7, <1>8, <1>9 DEF Next

\* As long as handlers only unsubscribe and queue: when EventBus::publish has
\* returned, the deferred removals have been done and no others, so the vector
\* holds whoever subscribed and did not unsubscribe, in that order.
THEOREM RemovalsAreComplete == QuietHandlers => (Spec => []RemovalComplete)
<1> SUFFICES ASSUME QuietHandlers
             PROVE  Spec => []RemovalComplete
  OBVIOUS
<1>1. Init => TypeOK /\ BusInv
  BY TypedInit, BusInit
<1>2. TypeOK /\ BusInv /\ [Next]_vars => TypeOK' /\ BusInv'
  BY TypedNext, BusNext
<1>3. TypeOK /\ BusInv => RemovalComplete
  <2> SUFFICES ASSUME TypeOK, BusInv, \A i \in 1 .. Len(stack) : ~IsPublication(stack[i])
               PROVE  /\ pendingRemovals = {}
                      /\ Active = (1 .. (nextId - 1)) \ gone
                      /\ \A i \in 1 .. Len(handlers) : handlers[i].active
                      /\ \A i, j \in 1 .. Len(handlers) : i < j => handlers[i].id < handlers[j].id
    BY DEF RemovalComplete
  <2> PICK T : stack \in Seq(T)
    BY DEF BusInv, NoNesting
  <2>1. stack # <<>> => Len(stack) \in 1 .. Len(stack)
    OBVIOUS
  <2>2. ~Publishing
    BY <2>1 DEF Publishing, Top
  <2>3. pendingRemovals = {}
    BY <2>2 DEF BusInv, Deferral
  <2> QED
    BY <2>3, ActiveIs DEF BusInv, Registry
<1> QED
  BY <1>1, <1>2, <1>3, PTL DEF Spec
-----------------------------------------------------------------------------
(* The walk. *)

\* Strengthening of EveryoneServedOnce: whom the publication f has passed it has
\* called, or is calling, or they have unsubscribed; whom it has called it has passed.
Walk(f) ==
  /\ f.next \in 1 .. (Len(handlers) + 1)
  /\ f.due \subseteq 1 .. (nextId - 1)
  /\ f.called \subseteq f.due
  /\ Active \subseteq f.due
  /\ f.running # Nobody => f.running \in f.due \ f.called
  /\ \A i \in 1 .. (f.next - 1) : handlers[i].id \in gone \cup f.called \cup {f.running}
  /\ \A c \in f.called \cup ({f.running} \ {Nobody}) :
       \E i \in 1 .. (f.next - 1) : handlers[i].id = c

WalkInv == Publishing => Walk(Top)

\* The publication f, further on.
Moved(f, n, r, c) ==
  [kind |-> "publish", next |-> n, running |-> r, broken |-> f.broken,
   due |-> f.due, called |-> c]

LEMMA MovedOn ==
  ASSUME NEW f, PublicationFrame(f), NEW n, NEW r
  PROVE  /\ [f EXCEPT !.next = n] = Moved(f, n, f.running, f.called)
         /\ [f EXCEPT !.next = n, !.running = r] = Moved(f, n, r, f.called)
<1> DEFINE g == [f EXCEPT !.next = n]
<1>1. f = [kind |-> "publish", next |-> f.next, running |-> f.running, broken |-> f.broken,
           due |-> f.due, called |-> f.called]
  BY DEF PublicationFrame
<1>2. g = [kind |-> "publish", next |-> n, running |-> f.running, broken |-> f.broken,
           due |-> f.due, called |-> f.called]
  BY <1>1
<1>3. [f EXCEPT !.next = n, !.running = r] = [g EXCEPT !.running = r]
  OBVIOUS
<1> HIDE DEF g
<1>4. g = Moved(f, n, f.running, f.called) /\ [g EXCEPT !.running = r] = Moved(f, n, r, f.called)
  BY <1>2 DEF Moved
<1> QED
  BY <1>3, <1>4 DEF g

LEMMA MovedReturns ==
  ASSUME NEW f, PublicationFrame(f), NEW r, NEW c
  PROVE  /\ [f EXCEPT !.running = r, !.called = c] = Moved(f, f.next, r, c)
         /\ [f EXCEPT !.running = r].called = f.called
<1> DEFINE h == [f EXCEPT !.running = r]
<1>1. f = [kind |-> "publish", next |-> f.next, running |-> f.running, broken |-> f.broken,
           due |-> f.due, called |-> f.called]
  BY DEF PublicationFrame
<1>2. h = [kind |-> "publish", next |-> f.next, running |-> r, broken |-> f.broken,
           due |-> f.due, called |-> f.called]
  BY <1>1
<1>3. [f EXCEPT !.running = r, !.called = c] = [h EXCEPT !.called = c]
  OBVIOUS
<1> HIDE DEF h
<1>4. h.called = f.called /\ [h EXCEPT !.called = c] = Moved(f, f.next, r, c)
  BY <1>2 DEF Moved
<1> QED
  BY <1>3, <1>4 DEF h

\* The range-for comes to the next entry.
LEMMA StepMoves ==
  ASSUME NoNesting, Step
  PROVE  LET e == handlers[Top.next]
             f == Moved(Top, Top.next + 1, IF e.active THEN e.id ELSE Nobody, Top.called)
         IN  /\ Publishing /\ Top.running = Nobody /\ Top.next <= Len(handlers)
             /\ stack' = SetTop(f) /\ f.kind = "publish"
<1> DEFINE e == handlers[Top.next]
           f == Moved(Top, Top.next + 1, IF e.active THEN e.id ELSE Nobody, Top.called)
<1>1. Publishing /\ Top.running = Nobody /\ Top.next <= Len(handlers)
  BY DEF Step, Walking, Publishing
<1>2. PublicationFrame(Top)
  BY <1>1, TopFrame DEF Publishing
<1>3. /\ [Top EXCEPT !.next = @ + 1] = Moved(Top, Top.next + 1, Nobody, Top.called)
      /\ [Top EXCEPT !.next = @ + 1, !.running = e.id] = Moved(Top, Top.next + 1, e.id, Top.called)
  BY <1>1, <1>2, MovedOn
<1>4. stack' = SetTop(f)
  BY <1>3 DEF Step
<1> QED
  BY <1>1, <1>4 DEF Moved

\* The handler it called returns.
LEMMA ReturnMoves ==
  ASSUME NoNesting, HandlerReturns
  PROVE  LET f == Moved(Top, Top.next, Nobody, Top.called \cup {Top.running})
         IN  /\ Publishing /\ Top.running # Nobody
             /\ stack' = SetTop(f) /\ f.kind = "publish"
<1>1. Publishing /\ Top.running # Nobody
  BY DEF HandlerReturns, Publishing
<1>2. PublicationFrame(Top)
  BY <1>1, TopFrame DEF Publishing
<1>3. [Top EXCEPT !.running = Nobody, !.called = @ \cup {Top.running}]
        = Moved(Top, Top.next, Nobody, Top.called \cup {Top.running})
  <2>1. [Top EXCEPT !.running = Nobody].called = Top.called
    BY <1>2, MovedReturns
  <2>2. [Top EXCEPT !.running = Nobody, !.called = @ \cup {Top.running}]
          = [Top EXCEPT !.running = Nobody, !.called = Top.called \cup {Top.running}]
    BY <2>1
  <2>3. \A c : [Top EXCEPT !.running = Nobody, !.called = c] = Moved(Top, Top.next, Nobody, c)
    BY <1>2, MovedReturns
  <2> QED
    BY <2>2, <2>3
<1> QED
  BY <1>1, <1>3 DEF HandlerReturns, Moved

\* The entry that the walk comes to has not been called in it, and whoever is to
\* be called is due and not gone.
LEMMA NextIsFresh ==
  ASSUME TypeOK, Registry, NEW f, Walk(f), f.next <= Len(handlers)
  PROVE  LET e == handlers[f.next]
         IN  /\ f.next \in 1 .. Len(handlers)
             /\ e.id \notin f.called /\ e.id # Nobody
             /\ e.active => e.id \in f.due /\ e.id \notin gone
             /\ ~e.active => e.id \in gone
<1> DEFINE e == handlers[f.next]
<1>1. Len(handlers) \in Nat /\ f.next \in 1 .. Len(handlers)
  BY Entries DEF Walk
<1>2. e.id \in Nat \ {0} /\ e.active \in BOOLEAN
  BY <1>1, Entries
<1>3. e.id \notin f.called
  <2> SUFFICES ASSUME e.id \in f.called
               PROVE  FALSE
    OBVIOUS
  <2>1. PICK i \in 1 .. (f.next - 1) : handlers[i].id = e.id
    BY DEF Walk
  <2>2. i \in 1 .. Len(handlers) /\ i < f.next
    BY <1>1
  <2> QED
    BY <1>1, <1>2, <2>1, <2>2 DEF Registry
<1>4. e.active => e.id \in f.due
  BY <1>1 DEF Walk, Active
<1>5. /\ e.active => e.id \notin gone
      /\ ~e.active => e.id \in gone
  BY <1>1 DEF Registry
<1> QED
  BY <1>1, <1>2, <1>3, <1>4, <1>5 DEF Nobody

\* A walk only looks at the ids, at who is gone, and at who is still called.
LEMMA WalkStays ==
  ASSUME NEW f, Walk(f), nextId' = nextId, gone \subseteq gone', Active' \subseteq Active,
         Len(handlers') = Len(handlers),
         \A i \in 1 .. Len(handlers) : handlers'[i].id = handlers[i].id,
         Len(handlers) \in Nat, Top' = f
  PROVE  Walk(Top)'
<1>1. \A i \in 1 .. (f.next - 1) : i \in 1 .. Len(handlers)
  BY DEF Walk
<1>2. \A c \in f.called \cup ({f.running} \ {Nobody}) :
        \E i \in 1 .. (f.next - 1) : handlers'[i].id = c
  BY <1>1 DEF Walk
<1>3. \A i \in 1 .. (f.next - 1) : handlers'[i].id \in gone' \cup f.called \cup {f.running}
  BY <1>1 DEF Walk
<1>4. /\ f.next \in 1 .. (Len(handlers') + 1)
      /\ f.due \subseteq 1 .. (nextId' - 1)
      /\ f.called \subseteq f.due
      /\ Active' \subseteq f.due
      /\ f.running # Nobody => f.running \in f.due \ f.called
  BY DEF Walk
<1> QED
  BY <1>2, <1>3, <1>4 DEF Walk

LEMMA WalkNext ==
  ASSUME QuietHandlers, TypeOK, BusInv, WalkInv, [Next]_vars
  PROVE  WalkInv'
<1> USE DEF WalkInv
<1>0. NoNesting /\ Registry /\ Deferral /\ Len(handlers) \in Nat
  BY Entries DEF BusInv
<1> DEFINE Same == UNCHANGED <<handlers, nextId, gone>>
<1>1. ASSUME Same, Publishing, Top' = Top
      PROVE  WalkInv'
  <2>1. Active' = Active
    BY <1>1 DEF Active
  <2> QED
    BY <1>0, <1>1, <2>1, WalkStays
<1>2. CASE Subscribe
  BY <1>0, <1>2, StackSteps DEF Publishing
<1>3. ASSUME NEW h \in 1 .. MaxHandlers, Unsubscribe(h)
      PROVE  WalkInv'
  <2> SUFFICES ASSUME Publishing'
               PROVE  Walk(Top)'
    OBVIOUS
  <2>1. stack' = stack
    BY <1>0, <1>3, StackSteps
  <2>2. Publishing /\ Top' = Top
    BY <2>1 DEF Publishing, Top
  <2>3. isPublishing
    BY <1>0, <2>2 DEF Deferral
  <2>4. /\ Len(handlers') = Len(handlers)
        /\ \A i \in 1 .. Len(handlers) :
             /\ handlers'[i].id = handlers[i].id
             /\ handlers'[i].active => handlers[i].active
    BY <1>0, <1>3, <2>3, SwitchedOff
  <2>5. Active' \subseteq Active
    BY <2>4 DEF Active
  <2>6. nextId' = nextId /\ gone \subseteq gone'
    BY <1>3 DEF Unsubscribe
  <2> QED
    BY <1>0, <2>2, <2>4, <2>5, <2>6, WalkStays
<1>4. CASE BeginPublish \/ DrainNext
  <2>1. Same /\ Top' = Publication(Active)
    BY <1>0, <1>4, StackSteps DEF BeginPublish, DrainNext
  <2>2. Active' = Active
    BY <2>1 DEF Active
  <2>3. Active \subseteq 1 .. (nextId - 1)
    BY <1>0, ActiveIs
  <2> DEFINE f == Publication(Active)
  <2>4. f.next = 1 /\ f.running = Nobody /\ f.due = Active /\ f.called = {}
    BY DEF Publication
  <2> HIDE DEF f
  <2>5. f.next \in 1 .. (Len(handlers) + 1) /\ 1 .. (f.next - 1) = {}
    BY <1>0, <2>4
  <2>6. Walk(f)
    BY <2>3, <2>4, <2>5 DEF Walk
  <2>7. Top' = f
    BY <2>1 DEF f
  <2> QED
    BY <1>0, <2>1, <2>2, <2>6, <2>7, WalkStays
<1>5. CASE Step
  <2> DEFINE e == handlers[Top.next]
             r == IF e.active THEN e.id ELSE Nobody
             f == Moved(Top, Top.next + 1, r, Top.called)
  <2>1. Publishing /\ Top.running = Nobody /\ Top.next <= Len(handlers)
    BY <1>0, <1>5, StepMoves
  <2>2. Walk(Top)
    BY <2>1
  <2>3. /\ Top.next \in 1 .. Len(handlers)
        /\ e.id \notin Top.called /\ e.id # Nobody
        /\ e.active => e.id \in Top.due
        /\ ~e.active => e.id \in gone
    BY <1>0, <2>1, <2>2, NextIsFresh
  <2>4. stack' = SetTop(f) /\ f.kind = "publish"
    BY <1>0, <1>5, StepMoves
  <2>5. f.next = Top.next + 1 /\ f.running = r /\ f.due = Top.due /\ f.called = Top.called
    BY DEF Moved
  <2> HIDE DEF f
  <2>6. Top' = f
    BY <1>0, <2>1, <2>4, WalkSteps
  <2>7. \A i \in 1 .. (f.next - 1) : i \in 1 .. (Top.next - 1) \/ i = Top.next
    BY <2>3, <2>5
  <2>8. \A i \in 1 .. (Top.next - 1) : i \in 1 .. (f.next - 1)
    BY <2>3, <2>5
  <2>9. Top.next \in 1 .. (f.next - 1) /\ f.next \in 1 .. (Len(handlers) + 1)
    BY <1>0, <2>3, <2>5
  <2>10. \A i \in 1 .. (f.next - 1) : handlers[i].id \in gone \cup f.called \cup {f.running}
    <3>1. ASSUME NEW i \in 1 .. (Top.next - 1)
          PROVE  handlers[i].id \in gone \cup f.called \cup {f.running}
      <4>1. handlers[i].id \in gone \cup Top.called \cup {Nobody}
        BY <2>1, <2>2 DEF Walk
      <4>2. handlers[i].id # Nobody
        <5>1. i \in 1 .. Len(handlers)
          BY <1>0, <2>3
        <5> QED
          BY <5>1, Entries DEF Nobody
      <4> QED
        BY <2>5, <4>1, <4>2
    <3>2. e.active \in BOOLEAN
      BY <2>3, Entries
    <3>3. e.id \in gone \cup f.called \cup {f.running}
      BY <2>3, <2>5, <3>2
    <3> QED
      BY <2>7, <3>1, <3>3
  <2>11. ASSUME NEW c \in f.called \cup ({f.running} \ {Nobody})
         PROVE  \E i \in 1 .. (f.next - 1) : handlers[i].id = c
    <3>1. CASE c \in Top.called
      BY <2>2, <2>8, <3>1 DEF Walk
    <3>2. CASE c \notin Top.called
      BY <2>5, <2>9, <3>2
    <3> QED
      BY <3>1, <3>2
  <2>12. f.running # Nobody => f.running \in f.due \ f.called
    BY <2>3, <2>5
  <2>13. Walk(f)
    BY <2>2, <2>5, <2>9, <2>10, <2>11, <2>12 DEF Walk
  <2>14. Same
    BY <1>5 DEF Step
  <2>15. Active' = Active
    BY <2>14 DEF Active
  <2> QED
    BY <1>0, <2>6, <2>13, <2>14, <2>15, WalkStays
<1>6. CASE HandlerReturns
  <2> DEFINE f == Moved(Top, Top.next, Nobody, Top.called \cup {Top.running})
  <2>1. Publishing /\ Top.running # Nobody /\ stack' = SetTop(f) /\ f.kind = "publish"
    BY <1>0, <1>6, ReturnMoves
  <2>2. Walk(Top)
    BY <2>1
  <2>3. /\ f.next = Top.next /\ f.running = Nobody /\ f.due = Top.due
        /\ f.called = Top.called \cup {Top.running}
    BY DEF Moved
  <2> HIDE DEF f
  <2>4. Top' = f
    BY <1>0, <2>1, WalkSteps
  <2>5. Walk(f)
    BY <2>1, <2>2, <2>3 DEF Walk
  <2>6. Same
    BY <1>6 DEF HandlerReturns
  <2>7. Active' = Active
    BY <2>6 DEF Active
  <2> QED
    BY <1>0, <2>4, <2>5, <2>6, <2>7, WalkStays
<1>7. CASE EndPublish \/ ProcessQueue \/ DrainEnd
  BY <1>0, <1>7, StackSteps
<1>8. CASE Queue \/ ClearQueue \/ UNCHANGED vars
  <2>1. Same /\ stack' = stack
    BY <1>8 DEF Queue, ClearQueue, vars
  <2>2. (Publishing' <=> Publishing) /\ Top' = Top
    BY <2>1 DEF Publishing, Top
  <2> QED
    BY <1>1, <2>1, <2>2
<1>9. CASE ClearSubscribers
  BY <1>9 DEF ClearSubscribers, Publishing
<1> QED
  BY <1>2, <1>3, <1>4, <1>5, <1>6, <1>7, <1>8, <1>9 DEF Next

LEMMA WalkInit == Init => WalkInv
  BY DEF Init, WalkInv, Publishing

\* What a call puts on the others or takes off them.
LEMMA StackShape ==
  ASSUME NoNesting
  PROVE  /\ Len(stack) \in Nat
         /\ \A f : stack' = Append(stack, f) =>
              /\ Len(stack') = Len(stack) + 1
              /\ \A i \in 1 .. Len(stack') : stack'[i] = IF i > Len(stack) THEN f ELSE stack[i]
         /\ stack # <<>> /\ stack' = SubSeq(stack, 1, Len(stack) - 1) =>
              /\ Len(stack') = Len(stack) - 1
              /\ \A i \in 1 .. Len(stack') : i <= Len(stack) /\ stack'[i] = stack[i]
<1> PICK T : stack \in Seq(T)
  BY DEF NoNesting
<1>1. ASSUME NEW f, stack' = Append(stack, f)
      PROVE  /\ Len(stack') = Len(stack) + 1
             /\ \A i \in 1 .. Len(stack') : stack'[i] = IF i > Len(stack) THEN f ELSE stack[i]
  <2>1. stack \in Seq(T \cup {f})
    OBVIOUS
  <2>2. /\ Len(stack') = Len(stack) + 1 /\ stack'[Len(stack) + 1] = f
        /\ \A i \in 1 .. Len(stack) : stack'[i] = stack[i]
    BY <1>1, <2>1
  <2> QED
    BY <2>2
<1>2. ASSUME stack # <<>>, stack' = SubSeq(stack, 1, Len(stack) - 1)
      PROVE  /\ Len(stack') = Len(stack) - 1
             /\ \A i \in 1 .. Len(stack') : i <= Len(stack) /\ stack'[i] = stack[i]
  <2> DEFINE n == Len(stack) - 1
  <2>1. n \in Nat /\ n <= Len(stack)
    BY <1>2
  <2>2. stack' = SubSeq(stack, 1, n)
    BY <1>2
  <2> HIDE DEF n
  <2>3. Len(stack') = n /\ \A i \in 1 .. n : stack'[i] = stack[i]
    BY <2>1, <2>2, Prefix
  <2>4. \A i \in 1 .. n : i <= Len(stack)
    BY <2>1
  <2> QED
    BY <2>3, <2>4 DEF n
<1> QED
  BY <1>1, <1>2

\* The calls under way change in one of four ways.
LEMMA StackCases ==
  ASSUME QuietHandlers, NoNesting, [Next]_vars
  PROVE  \/ stack' = stack
         \/ stack' = Append(stack, Publication(Active)) \/ stack' = Append(stack, Drain)
         \/ /\ stack # <<>> /\ stack' = SubSeq(stack, 1, Len(stack) - 1)
            /\ Publishing => EndPublish
         \/ Step
         \/ HandlerReturns
<1>1. CASE BeginPublish \/ DrainNext \/ ProcessQueue
  BY <1>1 DEF BeginPublish, DrainNext, ProcessQueue
<1>2. CASE DrainEnd
  BY <1>2, StackSteps DEF DrainEnd
<1>3. CASE EndPublish
  BY <1>3, StackSteps DEF EndPublish, Walking
<1>4. CASE Queue \/ ClearQueue \/ ClearSubscribers \/ UNCHANGED vars
  BY <1>4 DEF Queue, ClearQueue, ClearSubscribers, vars
<1>5. CASE Subscribe \/ \E h \in 1 .. MaxHandlers : Unsubscribe(h)
  BY <1>5, StackSteps
<1> QED
  BY <1>1, <1>2, <1>3, <1>4, <1>5 DEF Next

\* As long as handlers only unsubscribe and queue: EventBus::publish calls nobody
\* who has unsubscribed, or was unsubscribed by a handler called before.
THEOREM GoneAreNotCalled == QuietHandlers => (Spec => NoCallAfterUnsubscribe)
<1> SUFFICES ASSUME QuietHandlers
             PROVE  Spec => NoCallAfterUnsubscribe
  OBVIOUS
<1> DEFINE Calls ==
      \A i \in 1 .. Len(stack') :
        IsPublication(stack'[i]) /\ stack'[i].running # Nobody
          /\ (i > Len(stack) \/ stack[i] # stack'[i])
        => stack'[i].running \notin gone
<1>1. Init => TypeOK /\ BusInv /\ WalkInv
  BY TypedInit, BusInit, WalkInit
<1>2. TypeOK /\ BusInv /\ WalkInv /\ [Next]_vars => TypeOK' /\ BusInv' /\ WalkInv'
  BY TypedNext, BusNext, WalkNext
<1>3. TypeOK /\ BusInv /\ WalkInv /\ [Next]_vars => Calls
  <2> SUFFICES ASSUME TypeOK, BusInv, WalkInv, [Next]_vars
               PROVE  Calls
    OBVIOUS
  <2>0. NoNesting /\ Registry /\ Len(stack) \in Nat
    BY StackShape DEF BusInv
  <2>1. CASE stack' = stack
    <3>1. \A i \in 1 .. Len(stack) : ~(i > Len(stack))
      BY <2>0
    <3> QED
      BY <2>1, <3>1
  <2>2. CASE stack' = Append(stack, Publication(Active)) \/ stack' = Append(stack, Drain)
    <3>1. \A i \in 1 .. Len(stack') :
            \/ ~(i > Len(stack)) /\ stack'[i] = stack[i]
            \/ stack'[i] = Publication(Active)
            \/ stack'[i] = Drain
      BY <2>0, <2>2, StackShape
    <3>2. Publication(Active).running = Nobody /\ ~IsPublication(Drain)
      BY DEF Publication, Drain, IsPublication
    <3> QED
      BY <3>1, <3>2
  <2>3. CASE stack # <<>> /\ stack' = SubSeq(stack, 1, Len(stack) - 1)
    <3>1. \A i \in 1 .. Len(stack') : ~(i > Len(stack)) /\ stack'[i] = stack[i]
      BY <2>0, <2>3, StackShape
    <3> QED
      BY <3>1
  <2>4. ASSUME NEW f, Publishing, stack' = SetTop(f), f.kind = "publish",
               f.running # Nobody => f.running \notin gone
        PROVE  Calls
    <3>1. \A i \in 1 .. Len(stack') :
            ~(i > Len(stack)) /\ (stack'[i] = f \/ stack'[i] = stack[i])
      BY <2>0, <2>4, WalkSteps
    <3> QED
      BY <2>4, <3>1
  <2>5. CASE Step
    <3> DEFINE e == handlers[Top.next]
               f == Moved(Top, Top.next + 1, IF e.active THEN e.id ELSE Nobody, Top.called)
    <3>1. Publishing /\ Top.next <= Len(handlers) /\ stack' = SetTop(f) /\ f.kind = "publish"
      BY <2>0, <2>5, StepMoves
    <3>2. e.active => e.id \notin gone
      BY <2>0, <3>1, NextIsFresh DEF WalkInv
    <3>3. f.running # Nobody => f.running \notin gone
      BY <3>2 DEF Moved
    <3> HIDE DEF f
    <3> QED
      BY <2>4, <3>1, <3>3
  <2>6. CASE HandlerReturns
    <3> DEFINE f == Moved(Top, Top.next, Nobody, Top.called \cup {Top.running})
    <3>1. Publishing /\ stack' = SetTop(f) /\ f.kind = "publish" /\ f.running = Nobody
      BY <2>0, <2>6, ReturnMoves DEF Moved
    <3> HIDE DEF f
    <3> QED
      BY <2>4, <3>1
  <2> QED
    BY <2>0, <2>1, <2>2, <2>3, <2>5, <2>6, StackCases
<1> QED
  BY <1>1, <1>2, <1>3, PTL DEF Spec, NoCallAfterUnsubscribe

\* As long as handlers only unsubscribe and queue: EventBus::publish calls everyone
\* who was subscribed when it began and is not unsubscribed before their turn,
\* and nobody twice.
THEOREM EveryoneIsServedOnce == QuietHandlers => (Spec => EveryoneServedOnce)
<1> SUFFICES ASSUME QuietHandlers
             PROVE  Spec => EveryoneServedOnce
  OBVIOUS
<1> DEFINE Ends == Len(stack') < Len(stack) /\ IsPublication(Top) =>
                     Top.due \ gone \subseteq Top.called /\ Top.called \subseteq Top.due
           GoesOn == Len(stack') = Len(stack) /\ stack # <<>> /\ stack' # stack =>
                       \/ ~IsPublication(Top)
                       \/ stack'[Len(stack)].running \notin Top.called
<1>1. Init => TypeOK /\ BusInv /\ WalkInv
  BY TypedInit, BusInit, WalkInit
<1>2. TypeOK /\ BusInv /\ WalkInv /\ [Next]_vars => TypeOK' /\ BusInv' /\ WalkInv'
  BY TypedNext, BusNext, WalkNext
<1>3. TypeOK /\ BusInv /\ WalkInv /\ [Next]_vars => Ends /\ GoesOn
  <2> SUFFICES ASSUME TypeOK, BusInv, WalkInv, [Next]_vars
               PROVE  Ends /\ GoesOn
    OBVIOUS
  <2>0. /\ NoNesting /\ Registry /\ Len(stack) \in Nat
        /\ Len(handlers) \in Nat
    BY StackShape, Entries DEF BusInv
  <2>1. CASE stack' = stack
    BY <2>0, <2>1
  <2>2. CASE stack' = Append(stack, Publication(Active)) \/ stack' = Append(stack, Drain)
    <3>1. Len(stack') = Len(stack) + 1
      BY <2>0, <2>2, StackShape
    <3> QED
      BY <2>0, <3>1
  <2>3. CASE stack # <<>> /\ stack' = SubSeq(stack, 1, Len(stack) - 1) /\ (Publishing => EndPublish)
    <3>1. Len(stack') = Len(stack) - 1
      BY <2>0, <2>3, StackShape
    <3>2. GoesOn
      BY <2>0, <3>1
    <3>3. ASSUME IsPublication(Top)
          PROVE  Top.due \ gone \subseteq Top.called /\ Top.called \subseteq Top.due
      <4>1. Walk(Top) /\ Top.running = Nobody /\ Top.next > Len(handlers)
        BY <2>3, <3>3 DEF WalkInv, Publishing, EndPublish, Walking
      <4>2. ASSUME NEW h \in Top.due \ gone
            PROVE  h \in Top.called
        <5>1. h \in (1 .. (nextId - 1)) \ gone
          BY <4>1 DEF Walk
        <5>2. PICK i \in 1 .. Len(handlers) : handlers[i].id = h
          BY <2>0, <5>1 DEF Registry
        <5>3. i \in 1 .. (Top.next - 1)
          BY <2>0, <4>1 DEF Walk
        <5>4. h \in gone \cup Top.called \cup {Nobody}
          BY <4>1, <5>2, <5>3 DEF Walk
        <5>5. h # Nobody
          BY <5>2, Entries DEF Nobody
        <5> QED
          BY <4>2, <5>4, <5>5
      <4> QED
        BY <4>1, <4>2 DEF Walk
    <3> QED
      BY <3>2, <3>3
  <2>4. ASSUME NEW f, Publishing, stack' = SetTop(f), f.kind = "publish",
               f.running \notin Top.called
        PROVE  Ends /\ GoesOn
    <3>1. Len(stack') = Len(stack) /\ Len(stack) \in 1 .. Len(stack)
      <4> PICK T : stack \in Seq(T)
        BY <2>0 DEF NoNesting
      <4> QED
        BY <2>0, <2>4, WalkSteps DEF Publishing
    <3>2. stack'[Len(stack)] = f
      BY <2>0, <2>4, <3>1, WalkSteps
    <3> QED
      BY <2>0, <2>4, <3>1, <3>2
  <2>5. Publishing => Walk(Top) /\ Nobody \notin Top.called
    <3>1. Nobody \notin 1 .. (nextId - 1)
      BY DEF Nobody
    <3> QED
      BY <3>1 DEF WalkInv, Walk
  <2>6. CASE Step
    <3> DEFINE e == handlers[Top.next]
               f == Moved(Top, Top.next + 1, IF e.active THEN e.id ELSE Nobody, Top.called)
    <3>1. Publishing /\ Top.next <= Len(handlers) /\ stack' = SetTop(f) /\ f.kind = "publish"
      BY <2>0, <2>6, StepMoves
    <3>2. e.id \notin Top.called
      BY <2>0, <2>5, <3>1, NextIsFresh
    <3>3. f.running \notin Top.called
      BY <2>5, <3>1, <3>2 DEF Moved
    <3> HIDE DEF f
    <3> QED
      BY <2>4, <3>1, <3>3
  <2>7. CASE HandlerReturns
    <3> DEFINE f == Moved(Top, Top.next, Nobody, Top.called \cup {Top.running})
    <3>1. Publishing /\ stack' = SetTop(f) /\ f.kind = "publish" /\ f.running = Nobody
      BY <2>0, <2>7, ReturnMoves DEF Moved
    <3> HIDE DEF f
    <3> QED
      BY <2>4, <2>5, <3>1
  <2> QED
    BY <2>0, <2>1, <2>2, <2>3, <2>6, <2>7, StackCases
<1> QED
  BY <1>1, <1>2, <1>3, PTL DEF Spec, EveryoneServedOnce
=============================================================================
