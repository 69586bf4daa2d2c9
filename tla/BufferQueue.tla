---------------------------- MODULE BufferQueue ----------------------------
(***************************************************************************)
(* What a virtqueue promises its two sides, without descriptors or rings:  *)
(* the driver offers request/response buffer pairs in order, the device    *)
(* takes them in that order, finishes them in any order, and the driver    *)
(* gets each of them back exactly once, in the order they were finished.   *)
(* A pair in use is named by a token no other pair in use has, and what it *)
(* names does not change until the driver has it back.                     *)
(***************************************************************************)
EXTENDS Naturals, Sequences, FiniteSets

CONSTANTS
    Token,      \* names of the pairs in use (the code: index of the head descriptor)
    Pair,       \* the (request, response) buffer pairs
    Capacity    \* how many pairs may be in use at once

VARIABLES
    offered,    \* tokens the device has not taken yet, oldest first
    owned,      \* tokens the device has taken
    done,       \* tokens the device has finished, oldest first
    pair        \* the pair each token in use stands for

vars == <<offered, owned, done, pair>>

InUse == DOMAIN pair

Init ==
    /\ offered = <<>>
    /\ owned = {}
    /\ done = <<>>
    /\ pair = [t \in {} |-> {}]

Post(t, p) ==
    /\ t \notin InUse
    /\ Cardinality(InUse) < Capacity
    /\ offered' = Append(offered, t)
    /\ pair' = [u \in InUse \union {t} |-> IF u = t THEN p ELSE pair[u]]
    /\ UNCHANGED <<owned, done>>

Take ==
    /\ offered # <<>>
    /\ owned' = owned \union {Head(offered)}
    /\ offered' = Tail(offered)
    /\ UNCHANGED <<done, pair>>

Finish(t) ==
    /\ t \in owned
    /\ owned' = owned \ {t}
    /\ done' = Append(done, t)
    /\ UNCHANGED <<offered, pair>>

Reap ==
    /\ done # <<>>
    /\ done' = Tail(done)
    /\ pair' = [u \in InUse \ {Head(done)} |-> pair[u]]
    /\ UNCHANGED <<offered, owned>>

Next ==
    \/ \E t \in Token, p \in Pair : Post(t, p)
    \/ Take
    \/ \E t \in Token : Finish(t)
    \/ Reap

Spec == Init /\ [][Next]_vars
=============================================================================
