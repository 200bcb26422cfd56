---------------------------- MODULE ReliableChannel ----------------------------
(***************************************************************************)
(* What an ImKcpp connection promises its two applications, with no        *)
(* segment, window or network in sight: a message that send() accepted at  *)
(* one end is returned by recv() at the other end at most once, whole,     *)
(* unchanged, and after every message accepted before it.                  *)
(***************************************************************************)
EXTENDS Naturals, Sequences

CONSTANTS
  Endpoint,         \* the two ends of the connection
  Message(_)        \* Message(i): what an application may send as its i-th

VARIABLES
  accepted,         \* accepted[e]: the messages send() accepted at e
  delivered         \* delivered[e]: the messages recv() returned at e

Peer(e) == CHOOSE p \in Endpoint : p # e

\* send() accepts one more message.
Accept(e) ==
  /\ \E m \in Message(Len(accepted[e]) + 1) :
       accepted' = [accepted EXCEPT ![e] = Append(@, m)]
  /\ UNCHANGED delivered

\* recv() returns the first message that it has not returned yet.
Deliver(e) ==
  /\ Len(delivered[e]) < Len(accepted[Peer(e)])
  /\ delivered' = [delivered EXCEPT ![e] =
       Append(@, accepted[Peer(e)][Len(@) + 1])]
  /\ UNCHANGED accepted

Init ==
  /\ accepted = [e \in Endpoint |-> <<>>]
  /\ delivered = [e \in Endpoint |-> <<>>]

Next == \E e \in Endpoint : Accept(e) \/ Deliver(e)

Spec == Init /\ [][Next]_<<accepted, delivered>>

=============================================================================
