---------------------------- MODULE PciTransport ----------------------------
(***************************************************************************)
(* The PCI transport: its WaitForCompletion looks for the answer first,    *)
(* and goes back to waiting after an interrupt that brought none.          *)
(***************************************************************************)
EXTENDS VirtioTransport

PciExchange == \E r \in Req : Exchange(r, "fast")

(* Reading the ISR status lowers the INTx line.  It is not read for MSI-X, *)
(* and cannot be if the device has no such capability (isr_cfg_).          *)
IsrRead == isr' = IF irqMode \in {"msix", "noisr"} THEN isr ELSE FALSE

FastPathHit ==
    /\ pc = "fast"
    /\ \E c \in Completed : Succeed(c)
    /\ pc' = "drainIsr"
    /\ UNCHANGED <<req, resources, stale, content, served, interrupt>>

DrainIsr ==
    /\ pc = "drainIsr"
    /\ IsrRead
    /\ pc' = "drainPulse"
    /\ UNCHANGED <<req, result, resources, server, owed, masked, pulses, spurious>>

(* (Mutant: the drained interrupt is not unmasked.)                        *)
DrainPulseMasked ==
    /\ pc = "drainPulse"
    /\ pulses' = 0
    /\ pc' = "idle"
    /\ UNCHANGED <<masked, req, result, resources, server, isr, owed, spurious>>

(* A receive that does not wait; the interrupt may come just after it.     *)
DrainPulse ==
    /\ pc = "drainPulse"
    /\ pulses' = 0
    /\ masked' = IF pulses = 1 THEN FALSE ELSE masked
    /\ pc' = "idle"
    /\ UNCHANGED <<req, result, resources, server, isr, owed, spurious>>

FastPathMiss ==
    /\ pc = "fast"
    /\ Completed = {}
    /\ pc' = "wait"
    /\ UNCHANGED <<req, result, resources, server, interrupt>>

(* (Mutant: the interrupt stays masked.)                                   *)
PulseReceivedMasked ==
    /\ pc = "wait"
    /\ pulses = 1
    /\ IsrRead
    /\ pulses' = 0
    /\ pc' = "spin"
    /\ UNCHANGED <<masked, req, result, resources, server, owed, spurious>>

PulseReceived ==
    /\ pc = "wait"
    /\ pulses = 1
    /\ IsrRead
    /\ pulses' = 0 /\ masked' = FALSE
    /\ pc' = "spin"
    /\ UNCHANGED <<req, result, resources, server, owed, spurious>>

(* (Mutant: a timeout goes back to waiting like an interrupt.)             *)
NoPulseWaits ==
    /\ pc = "wait"
    /\ pulses = 0
    /\ Timeouts \/ ~res["chan"]
    /\ IsrRead
    /\ \E c \in Completed : Succeed(c)
    /\ pc' = "idle"
    /\ UNCHANGED <<req, resources, stale, content, served, owed, masked, pulses, spurious>>

(* MsgReceivePulse failed: the last-resort check.                          *)
NoPulse ==
    /\ pc = "wait"
    /\ pulses = 0
    /\ Timeouts \/ ~res["chan"]
    /\ IsrRead
    /\ IF Completed # {}
       THEN (\E c \in Completed : Succeed(c)) /\ pc' = "idle"
       ELSE GiveUp("error") /\ UNCHANGED chains
    /\ UNCHANGED <<req, resources, stale, content, served, owed, masked, pulses, spurious>>

SpinFound ==
    /\ pc = "spin"
    /\ \E c \in Completed : Succeed(c)
    /\ pc' = "idle"
    /\ UNCHANGED <<req, resources, stale, content, served, interrupt>>

(* (Mutant: -EIO at once, and no reset.)                                   *)
SpinOverReturns ==
    /\ pc = "spin"
    /\ Completed = {}
    /\ result' = Failed("error")
    /\ pc' = "idle"
    /\ UNCHANGED <<req, resources, server, interrupt>>

(* No answer after this interrupt: wait for another, with a new timeout.   *)
SpinOver ==
    /\ pc = "spin"
    /\ Completed = {}
    /\ pc' = "wait"
    /\ UNCHANGED <<req, result, resources, server, interrupt>>

CallStep ==
    \/ FastPathHit \/ DrainIsr \/ DrainPulse \/ FastPathMiss
    \/ PulseReceived \/ NoPulse \/ SpinFound \/ SpinOver
    \/ ResetStep

Next == PciExchange \/ CallStep \/ Device \/ Shutdown

Spec == Init /\ [][Next]_vars

(* A call is a loop in one thread that nothing outside can stop for ever.  *)
FairSpec == Spec /\ WF_vars(CallStep)

-----------------------------------------------------------------------------
(* Properties.                                                             *)

ImplementsExchange == Promise!Spec

(* Every Exchange returns, even if the device never does anything again,   *)
(* unless interrupts never cease: one that brings no answer starts the     *)
(* thirty seconds anew (WaitForCompletion), so any finite number of them   *)
(* only delays the return, and nothing but interrupts can.                 *)
ExchangeReturns ==
    \/ (pc \notin {"idle", "down"}) ~> (pc \in {"idle", "down"})
    \/ []<>(pulses = 1)
=============================================================================
