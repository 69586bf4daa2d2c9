------------------------- MODULE PciTransportProofs -------------------------
(***************************************************************************)
(* The PCI transport keeps the invariant of VirtioTransportProofs: for INTx*)
(* and MSI-X, with or without a fallback, for any queue size, any number   *)
(* of requests, pages, stale chains and spurious interrupts, and whatever  *)
(* stages of a re-initialisation fail.                                     *)
(***************************************************************************)
EXTENDS PciTransport, VirtioTransportProofs

(* Reading the status leaves a Boolean.                                    *)
LEMMA IsrReadType == ASSUME isr \in BOOLEAN, IsrRead PROVE isr' \in BOOLEAN
BY Zenon DEF IsrRead

(* Steps that only move on, or take the answer between two of them.        *)
LEMMA FastPathKeepsTransportInv == TransportInv /\ (FastPathHit \/ FastPathMiss) => TransportInv'
<1> SUFFICES ASSUME TransportInv, FastPathHit \/ FastPathMiss PROVE TransportInv'
  OBVIOUS
<1>1. TypeOK /\ ResourcesAccounted /\ AtMostOneChain /\ BareOnceFreed /\ NoLostWakeup
  BY DEF TransportInv
<1>2. CASE FastPathHit
  <2> USE DEF FastPathHit, resources, interrupt
  <2>1. chains' = {}
    BY <1>1, <1>2, SucceedEmpties
  <2>2. TypeOK'
    BY <1>1, <1>2, <2>1 DEF TypeOK, Succeed
  <2>3. ResourcesAccounted'
    BY <1>1, <1>2 DEF ResourcesAccounted
  <2>4. AtMostOneChain' /\ BareOnceFreed' /\ NoLostWakeup'
    BY <1>1, <1>2, <2>1 DEF AtMostOneChain, BareOnceFreed, NoLostWakeup, Announced
  <2> QED
    BY <2>2, <2>3, <2>4 DEF TransportInv
<1>3. CASE FastPathMiss
  <2> USE DEF FastPathMiss, resources, server, interrupt
  <2>1. TypeOK'
    BY <1>1, <1>3 DEF TypeOK
  <2>2. ResourcesAccounted'
    BY <1>1, <1>3 DEF ResourcesAccounted
  <2>3. AtMostOneChain' /\ BareOnceFreed'
    BY <1>1, <1>3 DEF AtMostOneChain, BareOnceFreed, Emptied
  <2>4. NoLostWakeup'
    BY <1>1, <1>3 DEF NoLostWakeup, Announced, Completed
  <2> QED
    BY <2>1, <2>2, <2>3, <2>4 DEF TransportInv
<1> QED
  BY <1>2, <1>3

\* The pulses and the ISR of earlier exchanges are drained.
LEMMA DrainKeepsTransportInv == TransportInv /\ (DrainIsr \/ DrainPulse) => TransportInv'
<1> SUFFICES ASSUME TransportInv, DrainIsr \/ DrainPulse PROVE TransportInv'
  OBVIOUS
<1> USE DEF resources, server
<1>1. TypeOK /\ ResourcesAccounted /\ AtMostOneChain /\ BareOnceFreed /\ NoLostWakeup
  BY DEF TransportInv
<1>2. UNCHANGED <<req, result, res, respVirt, respPhys, live, irqMode, chains,
                  stale, content, served, owed, spurious>>
  BY DEF DrainIsr, DrainPulse
<1>3. isr \in BOOLEAN /\ masked \in BOOLEAN
  BY <1>1 DEF TypeOK
<1>4. isr' \in BOOLEAN
  <2>1. CASE DrainIsr
    BY <1>3, <2>1, IsrReadType DEF DrainIsr
  <2>2. CASE DrainPulse
    BY <1>3, <2>2, Zenon DEF DrainPulse
  <2> QED
    BY <2>1, <2>2
<1>5. masked' \in BOOLEAN
  BY <1>3, Zenon DEF DrainIsr, DrainPulse
<1>6. pulses' \in 0 .. 1 /\ (masked' <=> pulses' = 1)
  <2>1. pulses \in 0 .. 1 /\ (masked <=> pulses = 1)
    BY <1>1 DEF TypeOK, NoLostWakeup
  <2>2. CASE DrainIsr
    BY <2>1, <2>2 DEF DrainIsr
  <2>3. CASE DrainPulse
    <3>1. pulses' = 0
      BY <2>3 DEF DrainPulse
    <3>2. ~masked'
      <4>1. CASE pulses = 1
        BY <2>3, <4>1, Zenon DEF DrainPulse
      <4>2. CASE pulses # 1
        BY <2>1, <2>3, <4>2, Zenon DEF DrainPulse
      <4> QED
        BY <4>1, <4>2
    <3> QED
      BY <3>1, <3>2
  <2> QED
    BY <2>2, <2>3
<1>7. pc \in {"drainIsr", "drainPulse"} /\ pc' \in {"drainPulse", "idle"}
  BY DEF DrainIsr, DrainPulse
<1>8. TypeOK'
  BY <1>1, <1>2, <1>4, <1>5, <1>6, <1>7 DEF TypeOK
<1>9. ResourcesAccounted'
  BY <1>1, <1>2 DEF ResourcesAccounted
<1>10. AtMostOneChain' /\ BareOnceFreed'
  BY <1>1, <1>2, <1>7 DEF AtMostOneChain, BareOnceFreed, Emptied
<1>11. NoLostWakeup'
  BY <1>6, <1>7 DEF NoLostWakeup, Announced
<1> QED
  BY <1>8, <1>9, <1>10, <1>11 DEF TransportInv

\* The pulse that ends the wait.
LEMMA PulseReceivedKeepsTransportInv == TransportInv /\ PulseReceived => TransportInv'
<1> SUFFICES ASSUME TransportInv, PulseReceived PROVE TransportInv'
  OBVIOUS
<1> USE DEF PulseReceived, resources, server
<1>1. TypeOK /\ ResourcesAccounted /\ AtMostOneChain /\ BareOnceFreed /\ NoLostWakeup
  BY DEF TransportInv
<1>2. TypeOK'
  <2>1. masked' \in BOOLEAN
    BY Zenon
  <2>2. isr' \in BOOLEAN
    BY <1>1, IsrReadType DEF TypeOK
  <2> QED
    BY <1>1, <2>1, <2>2 DEF TypeOK
<1>3. ResourcesAccounted'
  BY <1>1 DEF ResourcesAccounted
<1>4. AtMostOneChain' /\ BareOnceFreed' /\ NoLostWakeup'
  BY <1>1 DEF AtMostOneChain, BareOnceFreed, Emptied, NoLostWakeup, Announced
<1> QED
  BY <1>2, <1>3, <1>4 DEF TransportInv

(* A receive that fails: the last-resort check, then the reset.            *)
LEMMA NoPulseKeepsTransportInv == TransportInv /\ NoPulse => TransportInv'
<1> SUFFICES ASSUME TransportInv, NoPulse PROVE TransportInv'
  OBVIOUS
<1> USE DEF NoPulse, resources
<1>1. TypeOK /\ ResourcesAccounted /\ AtMostOneChain /\ BareOnceFreed /\ NoLostWakeup
  BY DEF TransportInv
<1>2. \/ pc' = "idle" /\ \E c \in Completed : Succeed(c)
      \/ pc' = "reset" /\ GiveUp("error") /\ UNCHANGED chains
  BY DEF GiveUp
<1>3. chains' \subseteq chains /\ (pc' = "idle" => chains' = {})
  BY <1>1, <1>2, SucceedEmpties
<1>4. result' \in [status : {"none", "ok", "error", "EINVAL", "ENOSPC"},
                   reply : Req \union {Zero, None}]
  BY <1>1, <1>2 DEF TypeOK, Succeed, GiveUp, Failed
<1>5. isr' \in BOOLEAN
  BY <1>1, IsrReadType DEF TypeOK
<1>6. TypeOK'
  BY <1>1, <1>2, <1>3, <1>4, <1>5 DEF TypeOK
<1>7. ResourcesAccounted'
  BY <1>1 DEF ResourcesAccounted
<1>8. AtMostOneChain' /\ BareOnceFreed'
  BY <1>1, <1>2, <1>3 DEF AtMostOneChain, BareOnceFreed, Emptied
<1>9. NoLostWakeup'
  BY <1>1, <1>2 DEF NoLostWakeup, Announced
<1> QED
  BY <1>6, <1>7, <1>8, <1>9 DEF TransportInv

\* The poll, whether it finds the answer or gives up.
LEMMA SpinKeepsTransportInv == TransportInv /\ (SpinFound \/ SpinOver) => TransportInv'
<1> SUFFICES ASSUME TransportInv, SpinFound \/ SpinOver PROVE TransportInv'
  OBVIOUS
<1>1. TypeOK /\ ResourcesAccounted /\ AtMostOneChain /\ BareOnceFreed /\ NoLostWakeup
  BY DEF TransportInv
<1>2. CASE SpinFound
  <2> USE DEF SpinFound, resources, interrupt
  <2>1. chains' = {}
    BY <1>1, <1>2, SucceedEmpties
  <2>2. TypeOK'
    BY <1>1, <1>2, <2>1 DEF TypeOK, Succeed
  <2>3. ResourcesAccounted'
    BY <1>1, <1>2 DEF ResourcesAccounted
  <2>4. AtMostOneChain' /\ BareOnceFreed' /\ NoLostWakeup'
    BY <1>1, <1>2, <2>1 DEF AtMostOneChain, BareOnceFreed, NoLostWakeup, Announced
  <2> QED
    BY <2>2, <2>3, <2>4 DEF TransportInv
<1>3. CASE SpinOver
  <2> USE DEF SpinOver, resources, server, interrupt
  <2>1. TypeOK'
    BY <1>1, <1>3 DEF TypeOK
  <2>2. ResourcesAccounted'
    BY <1>1, <1>3 DEF ResourcesAccounted
  <2>3. AtMostOneChain' /\ BareOnceFreed'
    BY <1>1, <1>3 DEF AtMostOneChain, BareOnceFreed, Emptied
  <2>4. NoLostWakeup'
    BY <1>1, <1>3 DEF NoLostWakeup, Announced, Completed
  <2> QED
    BY <2>1, <2>2, <2>3, <2>4 DEF TransportInv
<1> QED
  BY <1>2, <1>3

-----------------------------------------------------------------------------

(* The invariant holds throughout every behaviour of the PCI transport.    *)
THEOREM PciTransportInv == Spec => []TransportInv
<1>1. Init => TransportInv
  BY InitTransportInv
<1>2. TransportInv /\ [Next]_vars => TransportInv'
  <2> SUFFICES ASSUME TransportInv, [Next]_vars PROVE TransportInv'
    OBVIOUS
  <2>1. CASE PciExchange
    BY <2>1, ExchangeKeepsTransportInv DEF PciExchange
  <2>2. CASE FastPathHit \/ FastPathMiss
    BY <2>2, FastPathKeepsTransportInv
  <2>3. CASE DrainIsr \/ DrainPulse
    BY <2>3, DrainKeepsTransportInv
  <2>4. CASE PulseReceived
    BY <2>4, PulseReceivedKeepsTransportInv
  <2>5. CASE NoPulse
    BY <2>5, NoPulseKeepsTransportInv
  <2>6. CASE SpinFound \/ SpinOver
    BY <2>6, SpinKeepsTransportInv
  <2>7. CASE ResetStep
    BY <2>7, ResetKeepsTransportInv
  <2>8. CASE Device
    BY <2>8, DeviceKeepsTransportInv
  <2>9. CASE Shutdown
    BY <2>9, ShutdownKeepsTransportInv
  <2>10. CASE UNCHANGED vars
    BY <2>10, StutterKeepsTransportInv
  <2> QED
    BY <2>1, <2>2, <2>3, <2>4, <2>5, <2>6, <2>7, <2>8, <2>9, <2>10 DEF Next, CallStep
<1> QED
  BY <1>1, <1>2, PTL DEF Spec

(* Types: in particular the kernel never has two pulses of one interrupt.  *)
THEOREM PciTypeCorrect == Spec => []TypeOK
<1>1. TransportInv => TypeOK
  BY DEF TransportInv
<1> QED
  BY <1>1, PciTransportInv, PTL

(* Whatever stage of whatever re-initialisation fails, with INTx or MSI-X, *)
(* the kernel has given out exactly what the transport's fields claim of   *)
(* the queue memory, the two buffers, the channel, the connection and the  *)
(* interrupt (InterruptAttachEvent): it takes each back once before it     *)
(* gives out another, and after Shutdown it has all of them back.          *)
THEOREM PciResourcesAccounted ==
    Spec => /\ []ResourcesAccounted
            /\ [][EachGivenBackOnce]_vars
            /\ []NothingKept
<1>1. TransportInv => ResourcesAccounted /\ NothingKept
  BY InvGivesAccounts
<1>2. TransportInv /\ TransportInv' => EachGivenBackOnce
  BY InvGivesAccounts
<1> QED
  BY <1>1, <1>2, PciTransportInv, PTL

(* The virtqueue is empty between calls, so AddBuf never finds it full.    *)
THEOREM PciOneInFlight == Spec => []OneInFlight
BY PciTransportInv, InvGivesOneInFlight, PTL

(* No answer the driver waits for goes unannounced, whatever interrupts    *)
(* earlier calls left behind.                                              *)
THEOREM PciNoLostWakeup == Spec => []NoLostWakeup
<1>1. TransportInv => NoLostWakeup
  BY DEF TransportInv
<1> QED
  BY <1>1, PciTransportInv, PTL

-----------------------------------------------------------------------------
(* What a call promises.                                                   *)

\* The answer is there; the call returns when the interrupt is drained.
LEMMA DrainKeepsPromise ==
    ASSUME TransportInv, CallInv, FastPathHit \/ DrainIsr \/ DrainPulse
    PROVE  CallInv' /\ PromiseStep
<1> USE DEF resources, server
<1>1. CASE FastPathHit
  <2>1. PICK c \in Completed : Succeed(c)
    BY <1>1 DEF FastPathHit
  <2>2. result' = [status |-> "ok", reply |-> req] /\ served = req /\ chains' = {}
    BY <2>1, AnswerIsTheCalls
  <2>3. CallInv'
    BY <1>1, <2>2 DEF FastPathHit, CallInv
  <2>4. PromiseStep
    BY <1>1 DEF FastPathHit, PromiseStep, Promise!vars
  <2> QED
    BY <2>3, <2>4
<1>2. CASE DrainIsr \/ DrainPulse
  <2>1. /\ pc \in {"drainIsr", "drainPulse"} /\ chains = {}
        /\ served = req /\ result = [status |-> "ok", reply |-> req]
    BY <1>2 DEF DrainIsr, DrainPulse, TransportInv, AtMostOneChain, Emptied, CallInv
  <2>2. /\ pc' \in {"drainPulse", "idle"}
        /\ UNCHANGED <<req, result, res, respVirt, respPhys, chains, stale,
                       content, served>>
    BY <1>2 DEF DrainIsr, DrainPulse
  <2>3. CallInv'
    BY <2>1, <2>2 DEF CallInv
  <2>4. CASE pc' = "drainPulse"
    BY <2>1, <2>2, <2>3, <2>4 DEF PromiseStep, Promise!vars
  <2>5. CASE pc' = "idle"
    <3>1. Promise!Succeed
      BY <2>1, <2>2, <2>5 DEF Promise!Succeed
    <3> QED
      BY <2>3, <3>1 DEF PromiseStep, Promise!Next
  <2> QED
    BY <2>2, <2>4, <2>5
<1> QED
  BY <1>1, <1>2

\* A timeout that finds the answer after all, or gives up.
LEMMA NoPulseKeepsPromise ==
    ASSUME TransportInv, CallInv, NoPulse PROVE CallInv' /\ PromiseStep
<1>1. CASE Completed # {}
  BY <1>1, SucceedKeepsPromise DEF NoPulse
<1>2. CASE Completed = {}
  BY <1>2, GiveUpKeepsPromise DEF NoPulse, server
<1> QED
  BY <1>1, <1>2

\* Every step is a step of the promise, or none that it can see.
LEMMA PciStepKeepsPromise ==
    ASSUME AtRest, TransportInv, CallInv, [Next]_vars
    PROVE  CallInv' /\ PromiseStep
<1>1. CASE PciExchange
  BY <1>1, ExchangeKeepsPromise DEF PciExchange
<1>2. CASE FastPathMiss \/ PulseReceived \/ SpinOver
  BY <1>2, WaitingKeepsPromise DEF FastPathMiss, PulseReceived, SpinOver
<1>3. CASE SpinFound
  BY <1>3, SucceedKeepsPromise DEF SpinFound
<1>4. CASE UNCHANGED vars
  <2>1. UNCHANGED <<pc, req, result, res, respVirt, respPhys, chains, stale,
                    content, served>>
    BY <1>4 DEF vars, driver, resources, server
  <2>2. CallInv'
    BY <2>1 DEF CallInv, ChainIsTheCalls
  <2> QED
    BY <2>1, <2>2, StutterPromise
<1> QED
  BY <1>1, <1>2, <1>3, <1>4, DrainKeepsPromise, NoPulseKeepsPromise,
     ResetKeepsPromise, DeviceKeepsPromise, ShutdownKeepsPromise
     DEF Next, CallStep

\* The PCI transport implements Exchange, whether the device signals by INTx
\* or MSI-X and whatever interrupts are spurious: a call that returns 0
\* delivers the answer to its own request; on the same assumptions as MMIO.
THEOREM PciImplementsExchange ==
    ASSUME AtRest PROVE Spec => ImplementsExchange
<1>1. Init => CallInv /\ Promise!Init
  BY InitCallInv
<1>2. TransportInv /\ CallInv /\ [Next]_vars => CallInv' /\ PromiseStep
  BY PciStepKeepsPromise
<1> QED
  BY <1>1, <1>2, PciTransportInv, PTL
     DEF Spec, ImplementsExchange, Promise!Spec, PromiseStep

\* Under the same assumptions the device writes answers only to the page that
\* is mapped as the response buffer, for INTx and for MSI-X.
THEOREM PciNoDmaToFreed ==
    ASSUME AtRest PROVE Spec => []NoDmaToFreed
<1>1. Init => CallInv
  BY InitCallInv
<1>2. TransportInv /\ CallInv /\ [Next]_vars => CallInv'
  BY PciStepKeepsPromise
<1>3. CallInv => NoDmaToFreed
  BY CallInvGivesNoDma
<1> QED
  BY <1>1, <1>2, <1>3, PciTransportInv, PTL DEF Spec
=============================================================================
