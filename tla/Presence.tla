------------------------------ MODULE Presence ------------------------------
(***************************************************************************)
(* What the server promises its players about each other, with the network *)
(* taken away.  Players enter with a fresh character and leave, and every  *)
(* client that follows along sees it at once: who is there when it enters, *)
(* and from the moment it connects everyone who comes or goes.  A player   *)
(* who enters again gets another character; the one before stays, and      *)
(* nobody ever hears of its leaving.                                       *)
(***************************************************************************)
EXTENDS Naturals

CONSTANTS Conn, None

VARIABLES
  owner,  \* the character each connection plays, or None
  there,  \* the characters in the game
  feed,   \* the connections that still follow the broadcasts
  view,   \* the characters each of those believes to be there
  next    \* the next character id

vars == <<owner, there, feed, view, next>>

Players(c) == {owner[d] : d \in Conn \ {c}} \ {None}

Init ==
  /\ owner = [c \in Conn |-> None]
  /\ there = {}
  /\ feed = {}
  /\ view = [c \in Conn |-> {}]
  /\ next = 1

Attach(c) ==
  /\ owner[c] = None
  /\ view[c] = {}
  /\ feed' = feed \cup {c}
  /\ UNCHANGED <<owner, there, view, next>>

Detach(c) ==
  /\ feed' = feed \ {c}
  /\ view' = [view EXCEPT ![c] = {}]
  /\ UNCHANGED <<owner, there, next>>

Enter(c) ==
  /\ owner' = [owner EXCEPT ![c] = next]
  /\ there' = there \cup {next}
  /\ next' = next + 1
  /\ view' = [d \in Conn |-> IF d \notin feed THEN view[d]
                             ELSE view[d] \cup (IF d = c THEN Players(c) ELSE {next})]
  /\ UNCHANGED feed

\* Whoever leaves stops following.
Leave(c) ==
  /\ owner[c] # None
  /\ owner' = [owner EXCEPT ![c] = None]
  /\ there' = there \ {owner[c]}
  /\ feed' = feed \ {c}
  /\ view' = [d \in Conn |-> IF d = c THEN {} ELSE view[d] \ {owner[c]}]
  /\ UNCHANGED next

Next == \E c \in Conn : Attach(c) \/ Detach(c) \/ Enter(c) \/ Leave(c)

Spec == Init /\ [][Next]_vars
=============================================================================
