------------------------------ MODULE EventFeed ------------------------------
(***************************************************************************)
(* What /api/ws promises a client: events that are stored already, each at *)
(* most once, in the order in which the API published them.  A client may  *)
(* miss events, never see one out of order.  Nothing is said of the order  *)
(* in which the events of different requests are published.                *)
(***************************************************************************)
EXTENDS Integers, Sequences

CONSTANT Clients

VARIABLES
    stored,     \* the latest revision in the event log
    feed,       \* the events published so far
    got         \* got[c]: the events client c was given

Published == {feed[p] : p \in DOMAIN feed}

Init ==
    /\ stored = 0
    /\ feed = <<>>
    /\ got = [c \in Clients |-> <<>>]

Store ==
    /\ stored' \in Nat /\ stored' > stored
    /\ UNCHANGED <<feed, got>>

Publish ==
    /\ \E e \in (1..stored) \ Published : feed' = Append(feed, e)
    /\ UNCHANGED <<stored, got>>

(* Any event that was published after the last one the client got.          *)
Give(c) ==
    /\ \E p \in DOMAIN feed :
        /\ \A q \in p..Len(feed) : \A i \in DOMAIN got[c] : got[c][i] # feed[q]
        /\ got' = [got EXCEPT ![c] = Append(@, feed[p])]
    /\ UNCHANGED <<stored, feed>>

Next == Store \/ Publish \/ \E c \in Clients : Give(c)

Spec == Init /\ [][Next]_<<stored, feed, got>>

=============================================================================
