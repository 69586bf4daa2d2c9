------------------------ MODULE VirtioTransportProofs ------------------------
(***************************************************************************)
(* The inductive invariant of both transports, and the steps they share    *)
(* that preserve it: Exchange up to the wait, the reset, the device, the   *)
(* kernel and Shutdown.  MmioTransportProofs and PciTransportProofs add    *)
(* the steps of their own wait.                                            *)
(***************************************************************************)
EXTENDS VirtioTransport, FiniteSetTheorems, TLAPS

(* Where in a call the virtqueue has been emptied already.                 *)
Emptied == {"idle", "drainIsr", "drainPulse", "free", "reinit", "down"}

(* At most one chain, and none outside the wait and the start of a reset.  *)
AtMostOneChain ==
    /\ \A c, d \in chains : c = d
    /\ pc \in Emptied => chains = {}

(* Re-initialisation begins, and Shutdown ends, with nothing left in the   *)
(* transport's hands.                                                      *)
BareOnceFreed == pc \in {"reinit", "down"} => \A k \in Kinds : ~res[k]

TransportInv ==
    /\ TypeOK
    /\ ResourcesAccounted
    /\ AtMostOneChain
    /\ BareOnceFreed
    /\ NoLostWakeup

-----------------------------------------------------------------------------

\* A transport that has not been initialised.
LEMMA InitTransportInv == Init => TransportInv
<1> SUFFICES ASSUME Init PROVE TransportInv
  OBVIOUS
<1> USE TransportAssumption DEF Init
<1>1. TypeOK
  <2>1. res \in [Kinds -> BOOLEAN] /\ live \in [Kinds -> Nat]
    OBVIOUS
  <2>2. content \in [RespMem -> Req \union {Zero}]
    OBVIOUS
  <2>3. result \in [status : {"none", "ok", "error", "EINVAL", "ENOSPC"},
                     reply : Req \union {Zero, None}]
    OBVIOUS
  <2>4. irqMode \in IrqModes \union {"deaf"}
    OBVIOUS
  <2>5. isr \in BOOLEAN /\ owed \in BOOLEAN /\ masked \in BOOLEAN
    OBVIOUS
  <2>6. pulses \in 0 .. 1 /\ spurious \in 0 .. MaxSpurious
    OBVIOUS
  <2> QED
    BY <2>1, <2>2, <2>3, <2>4, <2>5, <2>6 DEF TypeOK
<1>2. ResourcesAccounted
  BY DEF ResourcesAccounted
<1>3. AtMostOneChain /\ BareOnceFreed
  BY DEF AtMostOneChain, BareOnceFreed
<1>4. NoLostWakeup
  BY DEF NoLostWakeup, Announced
<1> QED
  BY <1>1, <1>2, <1>3, <1>4 DEF TransportInv

(* The invariant speaks of nothing but the variables.                      *)
LEMMA StutterKeepsTransportInv == TransportInv /\ UNCHANGED vars => TransportInv'
BY DEF TransportInv, TypeOK, ResourcesAccounted, AtMostOneChain, BareOnceFreed,
       NoLostWakeup, Announced, vars, driver, resources, server, interrupt

(* A call begins with an empty virtqueue, so it adds the only chain.       *)
LEMMA ExchangeKeepsTransportInv ==
    ASSUME TransportInv, NEW r \in Req, NEW waitPc \in {"wait", "fast"},
           Exchange(r, waitPc)
    PROVE  TransportInv'
<1> USE DEF Exchange, resources, interrupt
<1> DEFINE new == [req |-> r, mem |-> respPhys, at |-> "avail"]
<1>1. TypeOK /\ ResourcesAccounted /\ BareOnceFreed /\ NoLostWakeup
  BY DEF TransportInv
<1>2. pc = "idle" /\ chains = {}
  BY DEF TransportInv, AtMostOneChain, Emptied
<1>3. \/ pc' = "idle" /\ chains' = {}
      \/ pc' = waitPc /\ chains' = {new}
  BY <1>2
<1>4. new \in Chain
  BY <1>1 DEF TypeOK, Chain
<1>5. TypeOK'
  <2>1. chains' \subseteq Chain
    BY <1>3, <1>4
  <2>2. result' \in [status : {"none", "ok", "error", "EINVAL", "ENOSPC"},
                     reply : Req \union {Zero, None}]
    BY <1>1 DEF TypeOK, Failed
  <2>3. content' \in [RespMem -> Req \union {Zero}]
    BY <1>1 DEF TypeOK
  <2>4. served' \in Req \union {None}
    OBVIOUS
  <2> QED
    BY <1>1, <1>3, <2>1, <2>2, <2>3, <2>4 DEF TypeOK
<1>6. ResourcesAccounted'
  BY <1>1 DEF ResourcesAccounted
<1>7. AtMostOneChain' /\ BareOnceFreed'
  BY <1>3 DEF AtMostOneChain, BareOnceFreed, Emptied
<1>8. NoLostWakeup'
  BY <1>1, <1>3 DEF NoLostWakeup, Announced
<1> QED
  BY <1>5, <1>6, <1>7, <1>8 DEF TransportInv

-----------------------------------------------------------------------------
(* The reset.                                                              *)

\* The device confirms its reset.
LEMMA ResetQuiescedKeepsTransportInv == TransportInv /\ ResetQuiesced => TransportInv'
<1> SUFFICES ASSUME TransportInv, ResetQuiesced PROVE TransportInv'
  OBVIOUS
<1> USE DEF TransportInv, ResetQuiesced, resources
<1>1. TypeOK'
  BY DEF TypeOK
<1>2. ResourcesAccounted'
  BY DEF ResourcesAccounted
<1>3. AtMostOneChain' /\ BareOnceFreed' /\ NoLostWakeup'
  BY DEF AtMostOneChain, BareOnceFreed, NoLostWakeup, Announced
<1> QED
  BY <1>1, <1>2, <1>3

\* The device does not confirm its reset in time.
LEMMA ResetGaveUpKeepsTransportInv == TransportInv /\ ResetGaveUp => TransportInv'
<1> SUFFICES ASSUME TransportInv, ResetGaveUp PROVE TransportInv'
  OBVIOUS
<1> USE DEF TransportInv, ResetGaveUp, resources
<1>1. stale' \subseteq [req : Req, mem : RespMem, served : BOOLEAN]
  <2> SUFFICES ASSUME NEW s \in stale', s \notin stale
               PROVE  s \in [req : Req, mem : RespMem, served : BOOLEAN]
    BY DEF TypeOK
  <2>1. PICK c \in chains : s = [req |-> c.req, mem |-> c.mem, served |-> c.at # "device"]
    OBVIOUS
  <2>2. c \in Chain
    BY DEF TypeOK
  <2> QED
    BY <2>1, <2>2 DEF Chain
<1>2. TypeOK'
  BY <1>1 DEF TypeOK
<1>3. ResourcesAccounted'
  BY DEF ResourcesAccounted
<1>4. AtMostOneChain' /\ BareOnceFreed' /\ NoLostWakeup'
  BY DEF AtMostOneChain, BareOnceFreed, NoLostWakeup, Announced
<1> QED
  BY <1>2, <1>3, <1>4

(* What is released is what was held, so nothing is left of it.            *)
LEMMA FreeAllKeepsTransportInv == TransportInv /\ FreeAll => TransportInv'
<1> SUFFICES ASSUME TransportInv, FreeAll PROVE TransportInv'
  OBVIOUS
<1> USE DEF FreeAll, server
<1>1. TypeOK /\ ResourcesAccounted /\ AtMostOneChain
  BY DEF TransportInv
<1>2. \A k \in Kinds : live'[k] = 0 /\ ~res'[k]
  BY <1>1 DEF TypeOK, ResourcesAccounted
<1>3. TypeOK'
  <2>1. live' \in [Kinds -> Nat] /\ res' \in [Kinds -> BOOLEAN]
    BY <1>2
  <2>2. masked' \in BOOLEAN
    BY Zenon
  <2>3. pulses' \in 0 .. 1
    OBVIOUS
  <2> QED
    BY <1>1, <2>1, <2>2, <2>3 DEF TypeOK
<1>4. ResourcesAccounted' /\ BareOnceFreed'
  BY <1>2 DEF ResourcesAccounted, BareOnceFreed
<1>5. AtMostOneChain'
  BY <1>1 DEF AtMostOneChain, Emptied
<1>6. NoLostWakeup'
  BY DEF NoLostWakeup, Announced
<1> QED
  BY <1>3, <1>4, <1>5, <1>6 DEF TransportInv

(* Whatever stage fails, what was allocated by then is what is held.       *)
LEMMA ReinitKeepsTransportInv ==
    ASSUME TransportInv, NEW n \in 0 .. 10, NEW mem \in RespMem, Reinit(n, mem)
    PROVE  TransportInv'
<1> USE DEF Reinit, interrupt
<1>1. TypeOK /\ ResourcesAccounted /\ AtMostOneChain /\ BareOnceFreed /\ NoLostWakeup
  BY DEF TransportInv
<1>2. res' \in [Kinds -> BOOLEAN]
  BY DEF Kinds
<1>3. \A k \in Kinds : live[k] = 0
  BY <1>1 DEF BareOnceFreed, ResourcesAccounted
<1>4. \A k \in Kinds : live'[k] = IF res'[k] THEN 1 ELSE 0
  <2> SUFFICES ASSUME NEW k \in Kinds
               PROVE  live'[k] = IF res'[k] THEN 1 ELSE 0
    OBVIOUS
  <2>1. live'[k] = live[k] + IF res'[k] THEN 1 ELSE 0
    <3>1. live' = [j \in Kinds |-> live[j] + IF res'[j] THEN 1 ELSE 0]
      BY Zenon
    <3> HIDE DEF Reinit
    <3> QED
      BY <3>1, Zenon
  <2>2. live[k] = 0
    BY <1>3
  <2> HIDE DEF Reinit
  <2>3. CASE res'[k]
    BY <2>1, <2>2, <2>3
  <2>4. CASE ~res'[k]
    BY <2>1, <2>2, <2>4
  <2> QED
    BY <2>3, <2>4
<1>5. live' \in [Kinds -> Nat]
  <2>1. live' = [k \in Kinds |-> live[k] + IF res'[k] THEN 1 ELSE 0]
    BY Zenon
  <2> QED
    BY <1>3, <2>1
<1>6. /\ {respVirt', respPhys'} \subseteq RespMem
      /\ content' \in [RespMem -> Req \union {Zero}]
  BY <1>1 DEF TypeOK
<1>7. irqMode' \in IrqModes \union {"deaf"}
  BY <1>1 DEF TypeOK
<1>8. TypeOK'
  BY <1>1, <1>2, <1>5, <1>6, <1>7 DEF TypeOK
<1>9. ResourcesAccounted'
  BY <1>4 DEF ResourcesAccounted
<1>10. AtMostOneChain' /\ BareOnceFreed'
  BY <1>1 DEF AtMostOneChain, BareOnceFreed, Emptied
<1>11. NoLostWakeup'
  BY <1>1 DEF NoLostWakeup, Announced
<1> QED
  BY <1>8, <1>9, <1>10, <1>11 DEF TransportInv

\* Every step of ResetDevice.
LEMMA ResetKeepsTransportInv == TransportInv /\ ResetStep => TransportInv'
BY ResetQuiescedKeepsTransportInv, ResetGaveUpKeepsTransportInv,
   FreeAllKeepsTransportInv, ReinitKeepsTransportInv DEF ResetStep

\* Shutdown.
LEMMA ShutdownKeepsTransportInv == TransportInv /\ Shutdown => TransportInv'
<1> SUFFICES ASSUME TransportInv, Shutdown PROVE TransportInv'
  OBVIOUS
<1> USE DEF Shutdown
<1>1. TypeOK /\ ResourcesAccounted
  BY DEF TransportInv
<1>2. \A k \in Kinds : live'[k] = 0 /\ ~res'[k]
  BY <1>1 DEF TypeOK, ResourcesAccounted
<1>3. TypeOK'
  <2>1. live' \in [Kinds -> Nat] /\ res' \in [Kinds -> BOOLEAN]
    BY <1>2
  <2>2. masked' \in BOOLEAN /\ isr' \in BOOLEAN /\ owed' \in BOOLEAN
    BY Zenon
  <2>3. pulses' \in 0 .. 1
    OBVIOUS
  <2> QED
    BY <1>1, <2>1, <2>2, <2>3 DEF TypeOK
<1>4. ResourcesAccounted'
  BY <1>2 DEF ResourcesAccounted
<1>5. AtMostOneChain' /\ BareOnceFreed' /\ NoLostWakeup'
  BY DEF AtMostOneChain, BareOnceFreed, NoLostWakeup, Announced
<1> QED
  BY <1>3, <1>4, <1>5 DEF TransportInv

-----------------------------------------------------------------------------
(* The device and the kernel.                                              *)

(* A chain that moves on stays the only one, and the call is still waiting.*)
LEMMA AdvanceKeepsOneChain ==
    ASSUME TypeOK, AtMostOneChain, NEW c \in chains,
           NEW at \in {"avail", "device", "served", "raised", "used", "usedLate"},
           Advance(c, at)
    PROVE  /\ chains' = {[c EXCEPT !.at = at]}
           /\ chains' \subseteq Chain
           /\ pc \notin Emptied
<1>1. chains' = {[c EXCEPT !.at = at]}
  BY DEF Advance, AtMostOneChain
<1>2. c \in Chain
  BY DEF TypeOK
<1>3. [c EXCEPT !.at = at] \in Chain
  BY <1>2 DEF Chain
<1>4. pc \notin Emptied
  BY DEF AtMostOneChain
<1> QED
  BY <1>1, <1>3, <1>4

(* Steps of the device on the chain of the call.                           *)
LEMMA ChainStepKeepsTransportInv ==
    ASSUME TransportInv, NEW c \in chains,
           DeviceTake(c) \/ DeviceServe(c) \/ DeviceAnswer(c) \/ DeviceRaiseEarly(c)
    PROVE  TransportInv'
<1> USE DEF driver, resources
<1>1. TypeOK /\ ResourcesAccounted /\ AtMostOneChain /\ BareOnceFreed /\ NoLostWakeup
  BY DEF TransportInv
<1>2. UNCHANGED <<pc, req, result, res, respVirt, respPhys, live, irqMode, stale,
                  masked, pulses, spurious>>
  BY DEF DeviceTake, DeviceServe, DeviceAnswer, DeviceRaiseEarly, interrupt
<1>3. PICK at \in {"device", "served", "raised", "used", "usedLate"} :
           /\ Advance(c, at)
           /\ at = "used" => owed'
  BY Zenon DEF DeviceTake, DeviceServe, DeviceAnswer, DeviceRaiseEarly
<1>4. /\ chains' = {[c EXCEPT !.at = at]}
      /\ chains' \subseteq Chain
      /\ pc \notin Emptied
  BY <1>1, <1>3, AdvanceKeepsOneChain
<1>5. c \in Chain
  BY <1>1 DEF TypeOK
<1>6. TypeOK'
  <2>1. content' \in [RespMem -> Req \union {Zero}]
    BY <1>1, <1>5 DEF TypeOK, Chain, DeviceTake, DeviceServe, DeviceAnswer, DeviceRaiseEarly
  <2>2. served' \in Req \union {None}
    BY <1>1, <1>5 DEF TypeOK, Chain, DeviceTake, DeviceServe, DeviceAnswer, DeviceRaiseEarly
  <2>3. isr \in BOOLEAN /\ owed \in BOOLEAN
    BY <1>1 DEF TypeOK
  <2>4. isr' \in BOOLEAN
    BY <2>3, Zenon DEF DeviceTake, DeviceServe, DeviceAnswer, DeviceRaiseEarly, interrupt
  <2>5. owed' \in BOOLEAN
    BY <2>3, Zenon DEF DeviceTake, DeviceServe, DeviceAnswer, DeviceRaiseEarly, interrupt
  <2> QED
    BY <1>1, <1>2, <1>4, <2>1, <2>2, <2>4, <2>5 DEF TypeOK
<1>7. ResourcesAccounted'
  BY <1>1, <1>2 DEF ResourcesAccounted
<1>8. AtMostOneChain' /\ BareOnceFreed'
  BY <1>1, <1>2, <1>4 DEF AtMostOneChain, BareOnceFreed
<1>9. NoLostWakeup'
  <2>1. (\E d \in chains' : d.at = "used") => owed'
    BY <1>3, <1>4, <1>5 DEF Chain
  <2> QED
    BY <1>1, <1>2, <2>1 DEF NoLostWakeup, Announced
<1> QED
  BY <1>6, <1>7, <1>8, <1>9 DEF TransportInv

(* What a device that was not at rest does to memory no one waits for.     *)
LEMMA StaleStepKeepsTransportInv ==
    ASSUME TransportInv, NEW s \in stale, StaleServe(s) \/ StaleAnswer(s)
    PROVE  TransportInv'
<1> USE DEF driver, resources, interrupt
<1>1. TypeOK /\ ResourcesAccounted /\ AtMostOneChain /\ BareOnceFreed /\ NoLostWakeup
  BY DEF TransportInv
<1>2. s \in [req : Req, mem : RespMem, served : BOOLEAN]
  BY <1>1 DEF TypeOK
<1>3. UNCHANGED <<pc, req, result, res, respVirt, respPhys, live, irqMode, chains,
                  isr, owed, masked, pulses, spurious>>
  BY DEF StaleServe, StaleAnswer
<1>4. stale' \subseteq [req : Req, mem : RespMem, served : BOOLEAN]
  <2>1. [s EXCEPT !.served = TRUE] \in [req : Req, mem : RespMem, served : BOOLEAN]
    BY <1>2
  <2> QED
    BY <1>1, <2>1 DEF TypeOK, StaleServe, StaleAnswer
<1>5. content' \in [RespMem -> Req \union {Zero}] /\ served' \in Req \union {None}
  BY <1>1, <1>2 DEF TypeOK, StaleServe, StaleAnswer
<1>6. TypeOK'
  BY <1>1, <1>3, <1>4, <1>5 DEF TypeOK
<1>7. ResourcesAccounted'
  BY <1>1, <1>3 DEF ResourcesAccounted
<1>8. AtMostOneChain' /\ BareOnceFreed'
  BY <1>1, <1>3 DEF AtMostOneChain, BareOnceFreed
<1>9. NoLostWakeup'
  BY <1>1, <1>3 DEF NoLostWakeup, Announced
<1> QED
  BY <1>6, <1>7, <1>8, <1>9 DEF TransportInv

(* An answer announced stays announced: what was owed is on the line, what *)
(* was on the line is a pulse.                                             *)
LEMMA SignalKeepsTransportInv ==
    ASSUME TransportInv, DeviceRaise \/ Deliver \/ DeliverSpurious
    PROVE  TransportInv'
<1> USE DEF driver, resources, server
<1>1. TypeOK /\ ResourcesAccounted /\ AtMostOneChain /\ BareOnceFreed /\ NoLostWakeup
  BY DEF TransportInv
<1>2. UNCHANGED <<pc, req, result, res, respVirt, respPhys, live, irqMode, chains,
                  stale, content, served>>
  BY DEF DeviceRaise, Deliver, DeliverSpurious
<1>3. isr' \in BOOLEAN /\ owed' \in BOOLEAN /\ masked' \in BOOLEAN
  <2>1. isr \in BOOLEAN /\ owed \in BOOLEAN /\ masked \in BOOLEAN
    BY <1>1 DEF TypeOK
  <2>2. CASE DeviceRaise
    BY <2>1, <2>2, Zenon DEF DeviceRaise
  <2>3. CASE Deliver
    BY <2>1, <2>3, Zenon DEF Deliver
  <2>4. CASE DeliverSpurious
    BY <2>1, <2>4, Zenon DEF DeliverSpurious
  <2> QED
    BY <2>2, <2>3, <2>4
<1>4. pulses' \in 0 .. 1 /\ (masked' <=> pulses' = 1)
  <2>1. pulses \in 0 .. 1 /\ (masked <=> pulses = 1)
    BY <1>1 DEF TypeOK, NoLostWakeup
  <2>2. CASE DeviceRaise
    BY <2>1, <2>2 DEF DeviceRaise
  <2>3. CASE Deliver
    BY <2>1, <2>3 DEF Deliver
  <2>4. CASE DeliverSpurious
    BY <2>1, <2>4 DEF DeliverSpurious
  <2> QED
    BY <2>2, <2>3, <2>4
<1>5. spurious' \in 0 .. MaxSpurious
  <2>1. spurious \in 0 .. MaxSpurious /\ MaxSpurious \in Nat
    BY <1>1, TransportAssumption DEF TypeOK
  <2> QED
    BY <2>1 DEF DeviceRaise, Deliver, DeliverSpurious
<1>6. TypeOK'
  BY <1>1, <1>2, <1>3, <1>4, <1>5 DEF TypeOK
<1>7. ResourcesAccounted'
  BY <1>1, <1>2 DEF ResourcesAccounted
<1>8. AtMostOneChain' /\ BareOnceFreed'
  BY <1>1, <1>2 DEF AtMostOneChain, BareOnceFreed
<1>9. irqMode' # "deaf" => Announced'
  <2>1. irqMode # "deaf" => Announced
    BY <1>1 DEF NoLostWakeup
  <2>2. CASE DeviceRaise
    BY <1>2, <2>1, <2>2 DEF Announced, DeviceRaise
  <2>3. CASE Deliver \/ DeliverSpurious
    <3>1. pulses' = 1
      BY <1>1, <2>3 DEF TypeOK, NoLostWakeup, Deliver, DeliverSpurious
    <3> QED
      BY <3>1 DEF Announced
  <2> QED
    BY <2>2, <2>3
<1>10. NoLostWakeup'
  BY <1>4, <1>9 DEF NoLostWakeup
<1> QED
  BY <1>6, <1>7, <1>8, <1>10 DEF TransportInv

\* What the device does by itself.
LEMMA DeviceKeepsTransportInv == TransportInv /\ Device => TransportInv'
BY ChainStepKeepsTransportInv, StaleStepKeepsTransportInv, SignalKeepsTransportInv
   DEF Device

(* What the invariant says between calls.                                  *)
(* What the kernel takes back is what the transport holds, of which nothing*)
(* is left and which its field no longer claims; what it gives out is of a *)
(* kind the transport holds none of.                                       *)
EachGivenBackOnce ==
    \A k \in Kinds :
        /\ live'[k] < live[k] => res[k] /\ ~res'[k] /\ live'[k] = 0
        /\ live'[k] > live[k] => ~res[k] /\ res'[k] /\ live'[k] = 1

(* Once the transport is shut down it has given everything back.           *)
NothingKept == pc = "down" => \A k \in Kinds : live[k] = 0

LEMMA InvGivesAccounts ==
    /\ TransportInv => ResourcesAccounted /\ NothingKept
    /\ TransportInv /\ TransportInv' => EachGivenBackOnce
<1>1. TransportInv => ResourcesAccounted /\ NothingKept
  BY DEF TransportInv, ResourcesAccounted, BareOnceFreed, NothingKept
<1>2. TransportInv /\ TransportInv' => EachGivenBackOnce
  BY DEF TransportInv, ResourcesAccounted, EachGivenBackOnce
<1> QED
  BY <1>1, <1>2

LEMMA InvGivesOneInFlight == TransportInv => OneInFlight
BY DEF TransportInv, AtMostOneChain, Emptied, OneInFlight

(* A call that takes back its chain leaves an empty virtqueue.             *)
LEMMA SucceedEmpties ==
    ASSUME AtMostOneChain, NEW c \in Completed, Succeed(c)
    PROVE  chains' = {}
BY DEF AtMostOneChain, Completed, Succeed

-----------------------------------------------------------------------------
(* What Exchange promises.  A device that is at rest within a second of    *)
(* its reset, and a mapping whose address can be looked up, are assumed:   *)
(* without them an answer can go to memory that is not the transport's.    *)

AtRest == MaxStale = 0 /\ "respphys" \notin FailingStages

(* The chain in the virtqueue is the running call's, the device writes to  *)
(* the page the transport reads, and what it has written is the answer.    *)
ChainIsTheCalls(c) ==
    /\ c.req = req /\ c.mem = respPhys /\ res["resp"]
    /\ served = IF c.at \in {"avail", "device"} THEN None ELSE req
    /\ c.at \in {"used", "usedLate"} => content[respVirt] = req

CallInv ==
    /\ stale = {} /\ respVirt = respPhys
    /\ \A c \in chains : ChainIsTheCalls(c)
    /\ pc \in {"drainIsr", "drainPulse"} =>
           served = req /\ result = [status |-> "ok", reply |-> req]
    /\ pc \in {"reset", "free", "reinit"} => result = Failed("error")
    /\ result.status # "ok" => result.reply = None

PromiseStep == [Promise!Next]_(Promise!vars)

\* A transport that has not been called.
LEMMA InitCallInv == Init => CallInv /\ Promise!Init
<1> SUFFICES ASSUME Init PROVE CallInv /\ Promise!Init
  OBVIOUS
<1>1. /\ pc = "idle" /\ chains = {} /\ stale = {} /\ served = None /\ req \in Req
      /\ respVirt = respPhys
  BY DEF Init
<1>2. result.status # "ok" /\ result.reply = None
  BY DEF Init
<1>3. CallInv
  BY <1>1, <1>2 DEF CallInv
<1>4. Promise!Init
  BY <1>1, <1>2 DEF Promise!Init, Promise!NoResult
<1> QED
  BY <1>3, <1>4

\* Only the variables matter to the promise.
LEMMA StutterPromise ==
    ASSUME UNCHANGED <<pc, req, result, served>> PROVE PromiseStep
BY DEF PromiseStep, Promise!vars

\* Exchange is a call, or a refusal.
LEMMA ExchangeKeepsPromise ==
    ASSUME TransportInv, CallInv, NEW r \in Req, NEW waitPc \in {"wait", "fast"},
           Exchange(r, waitPc)
    PROVE  CallInv' /\ PromiseStep
<1> USE DEF Exchange, resources
<1>1. pc = "idle" /\ chains = {}
  BY DEF TransportInv, AtMostOneChain, Emptied
<1>2. respVirt \in RespMem /\ content \in [RespMem -> Req \union {Zero}]
  BY DEF TransportInv, TypeOK
<1>3. CASE pc' = "idle" /\ chains' = {}
           /\ result' \in {Failed("EINVAL"), Failed("ENOSPC")}
  <2>1. result'.status # "ok" /\ result'.reply = None
    BY <1>3 DEF Failed
  <2>2. CallInv'
    BY <1>3, <2>1 DEF CallInv
  <2>3. Promise!Refuse(r)
    BY <1>1, <1>3, <2>1 DEF Promise!Refuse, Promise!NoResult
  <2> QED
    BY <2>2, <2>3 DEF PromiseStep, Promise!Next
<1>4. CASE /\ pc' = waitPc /\ UNCHANGED result /\ res["resp"]
           /\ chains' = {[req |-> r, mem |-> respPhys, at |-> "avail"]}
  <2>1. \A c \in chains' : c.req = r /\ c.mem = respPhys /\ c.at = "avail"
    BY <1>4
  <2>2. CallInv'
    BY <1>4, <2>1 DEF CallInv, ChainIsTheCalls
  <2>3. Promise!Call(r)
    BY <1>1, <1>4 DEF Promise!Call, Promise!NoResult
  <2> QED
    BY <2>2, <2>3 DEF PromiseStep, Promise!Next
<1> QED
  BY <1>1, <1>3, <1>4 DEF Usable

\* A device that is at rest within a second keeps no chain of a virtqueue
\* that is freed.
LEMMA RestsInTime ==
    ASSUME MaxStale = 0, stale = {}, AtMostOneChain PROVE ~ResetGaveUp
<1> SUFFICES ASSUME ResetGaveUp PROVE FALSE
  OBVIOUS
<1>1. stale' # {} /\ \A s, t \in stale' : s = t
  BY DEF ResetGaveUp, AtMostOneChain
<1>2. PICK s : stale' = {s}
  BY <1>1
<1>3. Cardinality(stale') = 1
  BY <1>2, FS_Singleton
<1> QED
  BY <1>3 DEF ResetGaveUp

\* A reset happens within the call that asked for it.
LEMMA ResetKeepsPromise ==
    ASSUME AtRest, TransportInv, CallInv, ResetStep
    PROVE  CallInv' /\ PromiseStep
<1> USE DEF driver, resources, server
<1>1. CASE ResetQuiesced
  <2>1. CallInv'
    BY <1>1 DEF ResetQuiesced, CallInv
  <2>2. PromiseStep
    BY <1>1 DEF ResetQuiesced, PromiseStep, Promise!vars
  <2> QED
    BY <2>1, <2>2
<1>2. ~ResetGaveUp
  BY RestsInTime DEF AtRest, TransportInv, CallInv
<1>3. CASE FreeAll
  <2>1. CallInv'
    BY <1>3 DEF FreeAll, TransportInv, AtMostOneChain, Emptied, CallInv
  <2>2. PromiseStep
    BY <1>3 DEF FreeAll, PromiseStep, Promise!vars
  <2> QED
    BY <2>1, <2>2
<1>4. ASSUME NEW n \in 0 .. 10, NEW mem \in RespMem, Reinit(n, mem)
      PROVE  CallInv' /\ PromiseStep
  <2>1. pc = "reinit" /\ chains = {} /\ result = Failed("error")
    BY <1>4 DEF Reinit, TransportInv, AtMostOneChain, Emptied, CallInv
  <2>2. n # 6
    BY <1>4 DEF Reinit, Stages, AtRest
  <2>3. respVirt' = respPhys'
    BY <1>4, <2>2 DEF Reinit, CallInv
  <2>4. pc' = "idle" /\ UNCHANGED <<req, result, chains, stale, served>>
    BY <1>4 DEF Reinit
  <2>5. CallInv'
    BY <2>1, <2>3, <2>4 DEF CallInv
  <2>6. Promise!Fail
    BY <2>1, <2>4 DEF Promise!Fail, Promise!NoResult, Failed
  <2> QED
    BY <2>5, <2>6 DEF PromiseStep, Promise!Next
<1> QED
  BY <1>1, <1>2, <1>3, <1>4 DEF ResetStep

\* Shutdown happens between calls.
LEMMA ShutdownKeepsPromise ==
    ASSUME CallInv, Shutdown PROVE CallInv' /\ PromiseStep
BY DEF Shutdown, CallInv, PromiseStep, Promise!vars

\* The server carries out the request of the running call, once; nothing
\* else that the device and the kernel do is part of the promise.
LEMMA DeviceKeepsPromise ==
    ASSUME TransportInv, CallInv, Device
    PROVE  CallInv' /\ PromiseStep
<1> USE DEF driver, resources
<1>1. stale = {} /\ TypeOK /\ AtMostOneChain
  BY DEF CallInv, TransportInv
<1>2. CASE DeviceRaise \/ Deliver \/ DeliverSpurious
  <2>1. UNCHANGED <<pc, req, result, res, respVirt, respPhys, chains, stale,
                    content, served>>
    BY <1>2 DEF DeviceRaise, Deliver, DeliverSpurious, server
  <2>2. CallInv'
    BY <2>1 DEF CallInv, ChainIsTheCalls
  <2> QED
    BY <2>1, <2>2, StutterPromise
<1>3. ASSUME NEW c \in chains,
             DeviceTake(c) \/ DeviceServe(c) \/ DeviceAnswer(c) \/ DeviceRaiseEarly(c)
      PROVE  CallInv' /\ PromiseStep
  <2>1. /\ UNCHANGED <<pc, req, result, res, respVirt, respPhys, stale>>
        /\ c \in Chain /\ ChainIsTheCalls(c)
        /\ respVirt = respPhys /\ respVirt \in RespMem
        /\ content \in [RespMem -> Req \union {Zero}]
    BY <1>1, <1>3 DEF DeviceTake, DeviceServe, DeviceAnswer, DeviceRaiseEarly,
                      TypeOK, CallInv
  <2>2. PICK at \in {"device", "served", "raised", "used", "usedLate"} :
          /\ Advance(c, at)
          /\ served' = IF at = "device" THEN None ELSE req
          /\ at \in {"used", "usedLate"} => content'[respVirt] = req
          /\ served' = served \/ c.at = "device"
    BY <1>3, <2>1 DEF DeviceTake, DeviceServe, DeviceAnswer, DeviceRaiseEarly,
                      ChainIsTheCalls
  <2>3. chains' = {[c EXCEPT !.at = at]} /\ pc \notin Emptied
    BY <1>1, <2>2, AdvanceKeepsOneChain
  <2>4. ASSUME NEW d \in chains' PROVE ChainIsTheCalls(d)'
    <3>1. d.req = c.req /\ d.mem = c.mem /\ d.at = at
      BY <2>1, <2>3 DEF Chain
    <3> QED
      BY <2>1, <2>2, <3>1 DEF ChainIsTheCalls
  <2>5. CallInv'
    BY <2>1, <2>3, <2>4 DEF CallInv, Emptied
  <2>6. CASE served' = served
    BY <2>1, <2>5, <2>6, StutterPromise
  <2>7. CASE c.at = "device" /\ at # "device"
    <3>1. Promise!Serve
      BY <2>1, <2>2, <2>3, <2>7 DEF Promise!Serve, ChainIsTheCalls, Emptied
    <3> QED
      BY <2>5, <3>1 DEF PromiseStep, Promise!Next
  <2>8. c.at = "device" /\ at = "device" => served' = served
    BY <2>1, <2>2 DEF ChainIsTheCalls
  <2> QED
    BY <2>2, <2>5, <2>6, <2>7, <2>8
<1> QED
  BY <1>1, <1>2, <1>3 DEF Device

\* A wait that ends with the answer, between calls or before the drain.
LEMMA AnswerIsTheCalls ==
    ASSUME TransportInv, CallInv, NEW c \in Completed, Succeed(c)
    PROVE  /\ result' = [status |-> "ok", reply |-> req]
           /\ served = req /\ chains' = {}
<1>1. ChainIsTheCalls(c) /\ c.at \in {"used", "usedLate"}
  BY DEF Completed, CallInv
<1> QED
  BY <1>1, SucceedEmpties DEF Succeed, ChainIsTheCalls, TransportInv

\* A wait that returns the answer at once.
LEMMA SucceedKeepsPromise ==
    ASSUME TransportInv, CallInv, NEW c \in Completed, Succeed(c),
           pc \notin {"idle", "down"}, pc' = "idle",
           UNCHANGED <<req, served, stale, content, resources>>
    PROVE  CallInv' /\ PromiseStep
<1>1. result' = [status |-> "ok", reply |-> req] /\ served = req /\ chains' = {}
  BY AnswerIsTheCalls
<1>2. CallInv'
  BY <1>1 DEF CallInv, resources
<1>3. Promise!Succeed
  BY <1>1 DEF Promise!Succeed
<1> QED
  BY <1>2, <1>3 DEF PromiseStep, Promise!Next

\* A wait that gives up is still in its call.
LEMMA GiveUpKeepsPromise ==
    ASSUME CallInv, GiveUp("error"), pc \notin {"idle", "down"},
           UNCHANGED <<req, resources, server>>
    PROVE  CallInv' /\ PromiseStep
<1>1. pc' = "reset" /\ result' = Failed("error")
      /\ result'.reply = None
  BY DEF GiveUp, Failed
<1>2. CallInv'
  BY <1>1 DEF CallInv, ChainIsTheCalls, resources, server
<1>3. PromiseStep
  BY <1>1 DEF PromiseStep, Promise!vars, server
<1> QED
  BY <1>2, <1>3

\* A step of the wait that changes nothing of this.
LEMMA WaitingKeepsPromise ==
    ASSUME CallInv, pc \notin {"idle", "down"},
           pc' \in {"fast", "wait", "spin"},
           UNCHANGED <<req, result, resources, server>>
    PROVE  CallInv' /\ PromiseStep
<1>1. CallInv'
  BY DEF CallInv, ChainIsTheCalls, resources, server
<1>2. PromiseStep
  BY DEF PromiseStep, Promise!vars, server
<1> QED
  BY <1>1, <1>2

\* The device never writes to memory that is not the response buffer.
LEMMA CallInvGivesNoDma == CallInv => NoDmaToFreed
BY DEF CallInv, ChainIsTheCalls, NoDmaToFreed
=============================================================================
