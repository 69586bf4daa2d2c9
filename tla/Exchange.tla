------------------------------ MODULE Exchange ------------------------------
(***************************************************************************)
(* What Transport::Exchange promises the 9P session: calls are answered    *)
(* one at a time; a call that returns 0 delivers the reply to its own      *)
(* request; the server carries a request out at most once and only while   *)
(* its call is running, whatever the call then returns.                    *)
(***************************************************************************)
EXTENDS Naturals

CONSTANTS
    Req,        \* request names, reused after a while
    None        \* "no request"

VARIABLES
    calling,    \* a call is running
    req,        \* its request, or the last one
    served,     \* the request carried out since the last call began
    result      \* what the last call returned; no result while one runs

NoResult == [ok |-> FALSE, reply |-> None]

vars == <<calling, req, served, result>>

Init ==
    /\ calling = FALSE
    /\ req \in Req
    /\ served = None
    /\ result = NoResult

Call(r) ==
    /\ ~calling
    /\ calling' = TRUE
    /\ req' = r
    /\ served' = None
    /\ result' = NoResult

(* A call may be refused without a request being sent.                     *)
Refuse(r) ==
    /\ ~calling
    /\ req' = r
    /\ served' = None
    /\ result' = NoResult
    /\ UNCHANGED calling

Serve ==
    /\ calling
    /\ served = None
    /\ served' = req
    /\ UNCHANGED <<calling, req, result>>

Succeed ==
    /\ calling
    /\ served = req
    /\ calling' = FALSE
    /\ result' = [ok |-> TRUE, reply |-> req]
    /\ UNCHANGED <<req, served>>

Fail ==
    /\ calling
    /\ calling' = FALSE
    /\ result' = NoResult
    /\ UNCHANGED <<req, served>>

Next == (\E r \in Req : Call(r) \/ Refuse(r)) \/ Serve \/ Succeed \/ Fail

Spec == Init /\ [][Next]_vars
=============================================================================
