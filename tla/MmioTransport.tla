---------------------------- MODULE MmioTransport ----------------------------
(***************************************************************************)
(* The MMIO transport: its WaitForCompletion waits for one pulse, then     *)
(* looks for the answer for ten milliseconds.                              *)
(***************************************************************************)
EXTENDS VirtioTransport

MmioExchange == \E r \in Req : Exchange(r, "wait")

(* (Mutant: the interrupt stays masked.)                                   *)
PulseReceivedMasked ==
    /\ pc = "wait"
    /\ pulses = 1
    /\ pulses' = 0 /\ isr' = FALSE
    /\ pc' = "spin"
    /\ UNCHANGED <<masked, req, result, resources, server, owed, spurious>>

(* (Mutant: the interrupt is not acknowledged.)                            *)
PulseReceivedNoAck ==
    /\ pc = "wait"
    /\ pulses = 1
    /\ pulses' = 0 /\ masked' = FALSE
    /\ pc' = "spin"
    /\ UNCHANGED <<isr, req, result, resources, server, owed, spurious>>

(* The pulse: status read and acknowledged, interrupt unmasked.            *)
PulseReceived ==
    /\ pc = "wait"
    /\ pulses = 1
    /\ pulses' = 0 /\ isr' = FALSE /\ masked' = FALSE
    /\ pc' = "spin"
    /\ UNCHANGED <<req, result, resources, server, owed, spurious>>

(* (Mutant: no timeout is armed.)                                          *)
NoPulseUntimed ==
    /\ pc = "wait"
    /\ pulses = 0
    /\ ~res["chan"]
    /\ GiveUp("error")
    /\ UNCHANGED <<req, resources, server, interrupt>>

(* MsgReceivePulse fails: after 30 seconds, or at once without a channel.  *)
NoPulse ==
    /\ pc = "wait"
    /\ pulses = 0
    /\ Timeouts \/ ~res["chan"]
    /\ GiveUp("error")
    /\ UNCHANGED <<req, resources, server, interrupt>>

(* GetBuf finds the answer, at once or in one of the hundred retries.      *)
SpinFound ==
    /\ pc = "spin"
    /\ \E c \in Completed : Succeed(c)
    /\ pc' = "idle"
    /\ UNCHANGED <<req, resources, stale, content, served, interrupt>>

(* The last of them finds nothing: -EIO.                                   *)
SpinOver ==
    /\ pc = "spin"
    /\ Completed = {}
    /\ GiveUp("error")
    /\ UNCHANGED <<req, resources, server, interrupt>>

CallStep == PulseReceived \/ NoPulse \/ SpinFound \/ SpinOver \/ ResetStep

Next == MmioExchange \/ CallStep \/ Device \/ Shutdown

Spec == Init /\ [][Next]_vars

(* A call is a loop in one thread that nothing outside can stop for ever.  *)
FairSpec == Spec /\ WF_vars(CallStep)

-----------------------------------------------------------------------------
(* Properties.                                                             *)

ImplementsExchange == Promise!Spec

(* Every Exchange returns, even if the device never does anything again.   *)
ExchangeReturns == (pc \notin {"idle", "down"}) ~> (pc \in {"idle", "down"})

(* Between calls the interrupt is quiet: the one pulse a call waits for is *)
(* the pulse of its own request, so none is left over for the next call,   *)
(* which would give up ten milliseconds after it.                          *)
NoStalePulse == pc = "idle" => pulses = 0 /\ ~isr /\ ~owed
=============================================================================
