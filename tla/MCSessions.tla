----------------------------- MODULE MCSessions -----------------------------
(***************************************************************************)
(* Sessions under the fairness of the running system, and the properties   *)
(* that need it.                                                           *)
(***************************************************************************)
EXTENDS Sessions

\* run() loops for as long as the server is up, so its next step is never put
\* off for ever; TCP in the end delivers what an open client wrote, so a client
\* whose bytes are awaited in poll after poll gets one read that finds them; a
\* client that keeps its end open keeps reading.  Nothing makes a client write
\* or close, and nothing makes the system accept.
Fairness ==
  /\ WF_vars(ServerStep)
  /\ \A c \in ConnId :
       /\ SF_vars(\E n \in 1 .. Len(inbox[c]) : Read(c, n))
       /\ WF_vars(ClientReceive(c))

FairSpec == Spec /\ Fairness

\* A logout that was sent ends the connection, unless the client hung up
\* before it arrived.
LogoutCompletes ==
  \A c \in ConnId :
    (c \in connections /\ said[c] = "logout") ~> (c \notin connections \/ peer[c] = "closed")

\* A client that goes on following does not keep an actor that is gone.
DepartureSeen ==
  \A c \in ConnId : \A a \in 1 .. MaxSends :
    (a \in otherActors[c] /\ a \notin actors) ~> (a \notin otherActors[c] \/ ~Follows(c))

\* A client that hung up is taken out, and its character with it.
ClosedPeerRemoved ==
  \A c \in ConnId : (c \in connections /\ peer[c] = "closed") ~> (c \notin connections)

\* A client that logs in, once, knows every other registered actor, or is about
\* to read of it, whatever the others did before or do after.
NewcomerSeesEveryActor ==
  \A c \in ConnId :
    Follows(c) /\ c \notin twice /\ connToCharacter[c] # NoActor =>
      \A a \in actors \ {connToCharacter[c]} : WillKnow(c, a)
=============================================================================
