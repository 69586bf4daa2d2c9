------------------------ MODULE MmioTransportProofs ------------------------
(***************************************************************************)
(* The MMIO transport keeps the invariant of VirtioTransportProofs: for    *)
(* any queue size, any number of requests, pages, stale chains and         *)
(* spurious interrupts, and whatever stages of a re-initialisation fail.   *)
(***************************************************************************)
EXTENDS MmioTransport, VirtioTransportProofs

\* The pulse that ends the wait.
LEMMA PulseReceivedKeepsTransportInv == TransportInv /\ PulseReceived => TransportInv'
<1> SUFFICES ASSUME TransportInv, PulseReceived PROVE TransportInv'
  OBVIOUS
<1> USE DEF PulseReceived, resources, server
<1>1. TypeOK /\ ResourcesAccounted /\ AtMostOneChain /\ BareOnceFreed /\ NoLostWakeup
  BY DEF TransportInv
<1>2. TypeOK'
  <2>1. isr' \in BOOLEAN /\ masked' \in BOOLEAN
    BY Zenon
  <2> QED
    BY <1>1, <2>1 DEF TypeOK
<1>3. ResourcesAccounted'
  BY <1>1 DEF ResourcesAccounted
<1>4. AtMostOneChain' /\ BareOnceFreed' /\ NoLostWakeup'
  BY <1>1 DEF AtMostOneChain, BareOnceFreed, Emptied, NoLostWakeup, Announced
<1> QED
  BY <1>2, <1>3, <1>4 DEF TransportInv

\* A wait or a poll that ends without an answer.
LEMMA GivingUpKeepsTransportInv == TransportInv /\ (NoPulse \/ SpinOver) => TransportInv'
<1> SUFFICES ASSUME TransportInv, NoPulse \/ SpinOver PROVE TransportInv'
  OBVIOUS
<1> USE DEF NoPulse, SpinOver, GiveUp, Failed, resources, server, interrupt
<1>1. TypeOK /\ ResourcesAccounted /\ AtMostOneChain /\ BareOnceFreed /\ NoLostWakeup
  BY DEF TransportInv
<1>2. TypeOK'
  BY <1>1 DEF TypeOK
<1>3. ResourcesAccounted'
  BY <1>1 DEF ResourcesAccounted
<1>4. AtMostOneChain' /\ BareOnceFreed' /\ NoLostWakeup'
  BY <1>1 DEF AtMostOneChain, BareOnceFreed, Emptied, NoLostWakeup, Announced
<1> QED
  BY <1>2, <1>3, <1>4 DEF TransportInv

\* A poll that finds the answer.
LEMMA SpinFoundKeepsTransportInv == TransportInv /\ SpinFound => TransportInv'
<1> SUFFICES ASSUME TransportInv, SpinFound PROVE TransportInv'
  OBVIOUS
<1> USE DEF SpinFound, resources, interrupt
<1>1. TypeOK /\ ResourcesAccounted /\ AtMostOneChain /\ BareOnceFreed /\ NoLostWakeup
  BY DEF TransportInv
<1>2. chains' = {}
  BY <1>1, SucceedEmpties
<1>3. TypeOK'
  BY <1>1, <1>2 DEF TypeOK, Succeed
<1>4. ResourcesAccounted'
  BY <1>1 DEF ResourcesAccounted
<1>5. AtMostOneChain' /\ BareOnceFreed' /\ NoLostWakeup'
  BY <1>1, <1>2 DEF AtMostOneChain, BareOnceFreed, NoLostWakeup, Announced
<1> QED
  BY <1>3, <1>4, <1>5 DEF TransportInv

-----------------------------------------------------------------------------

(* The invariant holds throughout every behaviour of the MMIO transport.   *)
THEOREM MmioTransportInv == Spec => []TransportInv
<1>1. Init => TransportInv
  BY InitTransportInv
<1>2. TransportInv /\ [Next]_vars => TransportInv'
  <2> SUFFICES ASSUME TransportInv, [Next]_vars PROVE TransportInv'
    OBVIOUS
  <2>1. CASE MmioExchange
    BY <2>1, ExchangeKeepsTransportInv DEF MmioExchange
  <2>2. CASE PulseReceived
    BY <2>2, PulseReceivedKeepsTransportInv
  <2>3. CASE NoPulse \/ SpinOver
    BY <2>3, GivingUpKeepsTransportInv
  <2>4. CASE SpinFound
    BY <2>4, SpinFoundKeepsTransportInv
  <2>5. CASE ResetStep
    BY <2>5, ResetKeepsTransportInv
  <2>6. CASE Device
    BY <2>6, DeviceKeepsTransportInv
  <2>7. CASE Shutdown
    BY <2>7, ShutdownKeepsTransportInv
  <2>8. CASE UNCHANGED vars
    BY <2>8, StutterKeepsTransportInv
  <2> QED
    BY <2>1, <2>2, <2>3, <2>4, <2>5, <2>6, <2>7, <2>8 DEF Next, CallStep
<1> QED
  BY <1>1, <1>2, PTL DEF Spec

(* Whatever stage of whatever re-initialisation fails, the kernel has      *)
(* given out exactly what the transport's fields claim of the queue        *)
(* memory, the two buffers, the channel, the connection and the interrupt  *)
(* (InterruptAttachEvent): it takes each back once before it gives out     *)
(* another, and after Shutdown it has all of them back.                    *)
THEOREM MmioResourcesAccounted ==
    Spec => /\ []ResourcesAccounted
            /\ [][EachGivenBackOnce]_vars
            /\ []NothingKept
<1>1. TransportInv => ResourcesAccounted /\ NothingKept
  BY InvGivesAccounts
<1>2. TransportInv /\ TransportInv' => EachGivenBackOnce
  BY InvGivesAccounts
<1> QED
  BY <1>1, <1>2, MmioTransportInv, PTL

(* The virtqueue is empty between calls, so AddBuf never finds it full.    *)
THEOREM MmioOneInFlight == Spec => []OneInFlight
BY MmioTransportInv, InvGivesOneInFlight, PTL

(* No answer the driver waits for goes unannounced.                        *)
THEOREM MmioNoLostWakeup == Spec => []NoLostWakeup
<1>1. TransportInv => NoLostWakeup
  BY DEF TransportInv
<1> QED
  BY <1>1, MmioTransportInv, PTL

-----------------------------------------------------------------------------
(* What a call promises.                                                   *)

\* Every step is a step of the promise, or none that it can see.
LEMMA MmioStepKeepsPromise ==
    ASSUME AtRest, TransportInv, CallInv, [Next]_vars
    PROVE  CallInv' /\ PromiseStep
<1>1. CASE MmioExchange
  BY <1>1, ExchangeKeepsPromise DEF MmioExchange
<1>2. CASE PulseReceived
  BY <1>2, WaitingKeepsPromise DEF PulseReceived
<1>3. CASE NoPulse \/ SpinOver
  BY <1>3, GiveUpKeepsPromise DEF NoPulse, SpinOver
<1>4. CASE SpinFound
  BY <1>4, SucceedKeepsPromise DEF SpinFound
<1>5. CASE UNCHANGED vars
  <2>1. UNCHANGED <<pc, req, result, res, respVirt, respPhys, chains, stale,
                    content, served>>
    BY <1>5 DEF vars, driver, resources, server
  <2>2. CallInv'
    BY <2>1 DEF CallInv, ChainIsTheCalls
  <2> QED
    BY <2>1, <2>2, StutterPromise
<1> QED
  BY <1>1, <1>2, <1>3, <1>4, <1>5, ResetKeepsPromise, DeviceKeepsPromise,
     ShutdownKeepsPromise DEF Next, CallStep

\* The MMIO transport implements Exchange: a call that returns 0 delivers the
\* answer to its own request, and the server works on a request only once
\* and while its call runs; if every device is at rest after its reset and
\* the address of every new response buffer can be looked up.
THEOREM MmioImplementsExchange ==
    ASSUME AtRest PROVE Spec => ImplementsExchange
<1>1. Init => CallInv /\ Promise!Init
  BY InitCallInv
<1>2. TransportInv /\ CallInv /\ [Next]_vars => CallInv' /\ PromiseStep
  BY MmioStepKeepsPromise
<1> QED
  BY <1>1, <1>2, MmioTransportInv, PTL
     DEF Spec, ImplementsExchange, Promise!Spec, PromiseStep

\* Under the same assumptions the device writes answers only to the page that
\* is mapped as the response buffer.
THEOREM MmioNoDmaToFreed ==
    ASSUME AtRest PROVE Spec => []NoDmaToFreed
<1>1. Init => CallInv
  BY InitCallInv
<1>2. TransportInv /\ CallInv /\ [Next]_vars => CallInv'
  BY MmioStepKeepsPromise
<1>3. CallInv => NoDmaToFreed
  BY CallInvGivesNoDma
<1> QED
  BY <1>1, <1>2, <1>3, MmioTransportInv, PTL DEF Spec

-----------------------------------------------------------------------------
(* The pulse of a request.                                                 *)

(* No interrupts but those of the device's answers.                        *)
OnlyAnswersSignal == MaxSpurious = 0 /\ MaxStale = 0

NoSignal == pulses = 0 /\ ~isr /\ ~owed

(* A request is signalled once: early, or owed with its answer, then by    *)
(* the line, then by the pulse that ends the wait.                         *)
SignalledOnce ==
    /\ pc \in {"idle", "spin", "reinit", "down"} => NoSignal
    /\ pc = "free" => ~isr /\ ~owed
    /\ pc = "spin" => \A c \in chains : c.at \in {"raised", "used", "usedLate"}
    /\ pc = "wait" =>
           /\ owed => pulses = 0 /\ ~isr
           /\ \A c \in chains :
                /\ c.at \in {"avail", "device", "served"} => NoSignal
                /\ c.at \in {"raised", "usedLate"} => ~owed
    /\ pc \notin {"fast", "drainIsr", "drainPulse"} /\ stale = {}

\* The device and the kernel pass a request's one signal on.
LEMMA DeviceSignalsOnce ==
    ASSUME OnlyAnswersSignal, TransportInv, SignalledOnce, Device
    PROVE  SignalledOnce'
<1> USE DEF driver, resources
<1>1. TypeOK /\ AtMostOneChain
  BY DEF TransportInv
<1>2. CASE DeviceRaise
  BY <1>2 DEF DeviceRaise, server, SignalledOnce, NoSignal
<1>3. CASE Deliver
  BY <1>3 DEF Deliver, server, SignalledOnce, NoSignal
<1>4. ~DeliverSpurious
  BY <1>1 DEF DeliverSpurious, OnlyAnswersSignal, TypeOK
<1>5. ASSUME NEW c \in chains,
             DeviceTake(c) \/ DeviceServe(c) \/ DeviceAnswer(c) \/ DeviceRaiseEarly(c)
      PROVE  SignalledOnce'
  <2>1. c \in Chain /\ UNCHANGED <<pc, stale, pulses>>
    BY <1>1, <1>5 DEF DeviceTake, DeviceServe, DeviceAnswer, DeviceRaiseEarly,
                      TypeOK, interrupt
  <2>2. PICK at \in {"device", "served", "raised", "used", "usedLate"} :
          /\ Advance(c, at)
          /\ \/ at \in {"device", "served"} /\ c.at \in {"avail", "device"}
                /\ UNCHANGED <<isr, owed>>
             \/ at = "used" /\ c.at = "served" /\ owed' /\ UNCHANGED isr
             \/ at = "usedLate" /\ c.at = "raised" /\ ~owed' /\ UNCHANGED isr
             \/ at = "raised" /\ c.at = "served" /\ ~owed /\ isr' /\ UNCHANGED owed
    BY <1>5, Zenon DEF DeviceTake, DeviceServe, DeviceAnswer, DeviceRaiseEarly, interrupt
  <2>3. chains' = {[c EXCEPT !.at = at]} /\ pc \notin Emptied
    BY <1>1, <2>2, AdvanceKeepsOneChain
  <2>4. \A d \in chains' : d.at = at
    BY <2>1, <2>3 DEF Chain
  <2>5. pc = "spin" => c.at = "raised" /\ NoSignal
    BY <2>2 DEF SignalledOnce
  <2>6. pc = "wait" => (c.at \in {"avail", "device", "served"} => NoSignal)
    BY DEF SignalledOnce
  <2>7. pc = "wait" => (owed => pulses = 0 /\ ~isr)
    BY DEF SignalledOnce
  <2> QED
    BY <2>1, <2>2, <2>3, <2>4, <2>5, <2>6, <2>7 DEF SignalledOnce, NoSignal, Emptied
<1> QED
  BY <1>2, <1>3, <1>4, <1>5 DEF Device, SignalledOnce

\* A reset leaves no signal behind.
LEMMA ResetSignalsNothing ==
    ASSUME OnlyAnswersSignal, TransportInv, SignalledOnce, ResetStep
    PROVE  SignalledOnce'
<1>1. CASE ResetQuiesced
  BY <1>1 DEF ResetQuiesced, SignalledOnce
<1>2. ~ResetGaveUp
  BY RestsInTime DEF OnlyAnswersSignal, TransportInv, SignalledOnce
<1>3. CASE FreeAll
  BY <1>3 DEF FreeAll, server, SignalledOnce, NoSignal
<1>4. ASSUME NEW n \in 0 .. 10, NEW mem \in RespMem, Reinit(n, mem)
      PROVE  SignalledOnce'
  BY <1>4 DEF Reinit, interrupt, SignalledOnce, NoSignal
<1> QED
  BY <1>1, <1>2, <1>3, <1>4 DEF ResetStep

\* Every step keeps the signal of a request its own.
LEMMA MmioStepSignalsOnce ==
    ASSUME OnlyAnswersSignal, TransportInv, SignalledOnce, [Next]_vars
    PROVE  SignalledOnce'
<1>1. CASE MmioExchange
  BY <1>1 DEF MmioExchange, Exchange, interrupt, SignalledOnce, NoSignal
<1>2. CASE PulseReceived
  <2>1. pc = "wait" /\ pc' = "spin" /\ pulses = 1 /\ pulses' = 0 /\ ~isr'
        /\ UNCHANGED <<chains, stale, owed>>
    BY <1>2 DEF PulseReceived, server
  <2>2. chains \subseteq Chain
    BY DEF TransportInv, TypeOK
  <2>3. ~owed /\ \A c \in chains : c.at \notin {"avail", "device", "served"}
    BY <2>1 DEF SignalledOnce, NoSignal
  <2>4. \A c \in chains : c.at \in {"raised", "used", "usedLate"}
    BY <2>2, <2>3 DEF Chain
  <2> QED
    BY <2>1, <2>3, <2>4 DEF SignalledOnce, NoSignal
<1>3. CASE NoPulse \/ SpinOver
  BY <1>3 DEF NoPulse, SpinOver, GiveUp, server, SignalledOnce
<1>4. CASE SpinFound
  BY <1>4 DEF SpinFound, interrupt, SignalledOnce, NoSignal
<1>5. CASE Shutdown
  BY <1>5 DEF Shutdown, SignalledOnce, NoSignal
<1>6. CASE UNCHANGED vars
  BY <1>6 DEF vars, driver, server, interrupt, SignalledOnce, NoSignal
<1> QED
  BY <1>1, <1>2, <1>3, <1>4, <1>5, <1>6, DeviceSignalsOnce, ResetSignalsNothing
     DEF Next, CallStep

\* With no interrupts but its own and a device at rest after a reset, a call
\* leaves no pulse behind for the next one.
THEOREM MmioNoStalePulse ==
    ASSUME OnlyAnswersSignal PROVE Spec => []NoStalePulse
<1>1. Init => SignalledOnce
  BY DEF Init, SignalledOnce, NoSignal
<1>2. TransportInv /\ SignalledOnce /\ [Next]_vars => SignalledOnce'
  BY MmioStepSignalsOnce
<1>3. SignalledOnce => NoStalePulse
  BY DEF SignalledOnce, NoSignal, NoStalePulse
<1> QED
  BY <1>1, <1>2, <1>3, MmioTransportInv, PTL DEF Spec
=============================================================================
