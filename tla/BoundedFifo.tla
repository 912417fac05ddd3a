---------------------------- MODULE BoundedFifo -----------------------------
(***************************************************************************)
(* What a thread-safe bounded queue promises its callers, whatever the     *)
(* interleaving: each call takes effect in one step.                       *)
(*                                                                         *)
(*   queue   the items accepted and not yet taken, oldest first            *)
(*   held    per consumer, the item of a pop that has not returned yet     *)
(*   got     per consumer, the items its pops returned, in order           *)
(*   refused the items for which push returned false                       *)
(*                                                                         *)
(* With Strict, push may return false only when the queue is full; without *)
(* it, a push may be refused at any time.  A pop that returns nothing is a *)
(* step that changes nothing here, so it is always allowed.                *)
(***************************************************************************)
EXTENDS Naturals, Sequences

CONSTANTS Items, Consumers, Capacity, Strict, Null

VARIABLES queue, held, got, refused

vars == <<queue, held, got, refused>>

Pending == {queue[k] : k \in DOMAIN queue}
Handed == {held[c] : c \in Consumers} \cup
          UNION {{got[c][k] : k \in DOMAIN got[c]} : c \in Consumers}

Init == /\ queue = <<>>
        /\ held = [c \in Consumers |-> Null]
        /\ got = [c \in Consumers |-> <<>>]
        /\ refused = {}

\* An item is pushed once: it was neither accepted nor refused before.
Fresh(x) == x \notin Pending \cup Handed \cup refused

Accept(x) == /\ Fresh(x)
             /\ Len(queue) < Capacity
             /\ queue' = Append(queue, x)
             /\ UNCHANGED <<held, got, refused>>

Refuse(x) == /\ Fresh(x)
             /\ Strict => Len(queue) = Capacity
             /\ refused' = refused \cup {x}
             /\ UNCHANGED <<queue, held, got>>

Take(c) == /\ held[c] = Null
           /\ queue # <<>>
           /\ held' = [held EXCEPT ![c] = Head(queue)]
           /\ queue' = Tail(queue)
           /\ UNCHANGED <<got, refused>>

Deliver(c) == /\ held[c] # Null
              /\ got' = [got EXCEPT ![c] = Append(@, held[c])]
              /\ held' = [held EXCEPT ![c] = Null]
              /\ UNCHANGED <<queue, refused>>

Next == \/ \E x \in Items : Accept(x) \/ Refuse(x)
        \/ \E c \in Consumers : Take(c) \/ Deliver(c)

Spec == Init /\ [][Next]_vars
=============================================================================
