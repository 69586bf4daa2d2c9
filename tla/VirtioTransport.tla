--------------------------- MODULE VirtioTransport ---------------------------
(***************************************************************************)
(* What the MMIO and the PCI transport have in common: Exchange up to the  *)
(* wait, the device and its interrupt, and ResetDevice with every point at *)
(* which it can fail.  MmioTransport and PciTransport add the wait for     *)
(* completion, in which they differ.  The virtqueue is the one Virtqueue   *)
(* refines: here only which chains are in it, and how far each has come.   *)
(***************************************************************************)
EXTENDS Integers, FiniteSets

CONSTANTS
    Req,            \* request names, reused after a while
    None,           \* "no request"
    Zero,           \* what a zeroed response page holds
    RespMem,        \* pages the response bounce buffer may be mapped to
    QueueSize,      \* queue_size_: min(what the device offers, kDefaultQueueSize)
    IrqModes,       \* how the device may be wired: some of "mmio", "intx", "msix",
                    \* and "noisr", an INTx device without an ISR capability
    MaxStale,       \* chains a device may still work on a second after a reset
    EarlyIrq,       \* the interrupt may overtake the used-ring write
    Timeouts,       \* a wait may last 30 seconds
    FailingStages,  \* steps of re-initialisation that may fail
    MaxSpurious,    \* interrupts that announce no completion
    CountSpurious   \* FALSE: any number of them, if MaxSpurious > 0

Kinds == {"queue", "req", "resp", "chan", "conn", "irq"}

(* The steps of InitializeDevice, in order.                                *)
Stages == <<"features", "queuesize", "queuemem", "reqmap", "reqphys",
            "respmap", "respphys", "channel", "connect", "irq">>

ASSUME TransportAssumption ==
    /\ QueueSize \in Nat \ {0}
    /\ Req # {} /\ RespMem # {} /\ {None, Zero} \intersect Req = {} /\ None # Zero
    /\ IrqModes \subseteq {"mmio", "intx", "msix", "noisr"}
    /\ EarlyIrq \in BOOLEAN /\ Timeouts \in BOOLEAN /\ CountSpurious \in BOOLEAN
    /\ FailingStages \subseteq {Stages[i] : i \in 1 .. 10}
    /\ MaxSpurious \in Nat /\ MaxStale \in Nat

VARIABLES
    pc, req, result,            \* the call in progress, its request, the last result
    res, respVirt, respPhys,    \* what the transport holds; dma_resp_virt_, dma_resp_phys_
    live,                       \* how many of each kind the kernel has given out
    chains,                     \* chains in the current virtqueue
    stale,                      \* chains of a freed virtqueue the device still works on
    content,                    \* what is in each response page
    served,                     \* the request the server carried out since the call began
    irqMode,                    \* how completions are signalled (see Reinit)
    isr, owed,                  \* interrupt status; a completion not yet signalled
    masked, pulses, spurious    \* the interrupt in the kernel; spurious ones so far

driver    == <<pc, req, result>>
resources == <<res, respVirt, respPhys, live, irqMode>>
server    == <<chains, stale, content, served>>
interrupt == <<isr, owed, masked, pulses, spurious>>
vars == <<driver, resources, server, interrupt>>

(* Initialize succeeded: fs-virtio9p does not get further otherwise.       *)
Init ==
    /\ pc = "idle" /\ req \in Req
    /\ result = [status |-> "none", reply |-> None]
    /\ res = [k \in Kinds |-> TRUE]
    /\ respVirt \in RespMem /\ respPhys = respVirt
    /\ live = [k \in Kinds |-> 1]
    /\ chains = {} /\ stale = {} /\ served = None
    /\ content = [m \in RespMem |-> Zero]
    /\ irqMode \in IrqModes \union (IF "msix" \in IrqModes THEN {"deaf"} ELSE {})
    /\ isr = FALSE /\ owed = FALSE /\ masked = FALSE
    /\ pulses = 0 /\ spurious = 0

-----------------------------------------------------------------------------
(* Exchange, up to the wait.                                               *)

Usable == res["queue"] /\ res["req"] /\ res["resp"]

Failed(status) == [status |-> status, reply |-> None]

(* waitPc is where the transport's WaitForCompletion begins.               *)
Exchange(r, waitPc) ==
    /\ pc = "idle"
    /\ r # req
    /\ req' = r
    /\ served' = None
    /\ IF ~Usable THEN
            /\ result' = Failed("EINVAL")
            /\ UNCHANGED <<pc, chains, content>>
       ELSE IF 2 * Cardinality(chains) + 2 > QueueSize THEN
            /\ result' = Failed("ENOSPC")
            /\ content' = [content EXCEPT ![respVirt] = Zero]
            /\ UNCHANGED <<pc, chains>>
       ELSE
            /\ content' = [content EXCEPT ![respVirt] = Zero]
            /\ chains' = chains \union {[req |-> r, mem |-> respPhys, at |-> "avail"]}
            /\ pc' = waitPc
            /\ UNCHANGED result
    /\ UNCHANGED <<resources, stale, interrupt>>

(* Virtqueue::GetBuf returns a chain.                                      *)
Completed == {c \in chains : c.at \in {"used", "usedLate"}}

(* The completed chain is reaped and its answer copied out.                *)
Succeed(c) ==
    /\ chains' = chains \ {c}
    /\ result' = [status |-> "ok", reply |-> content[respVirt]]

-----------------------------------------------------------------------------
(* ResetDevice, after a wait that failed.                                  *)

(* (Mutant: the transport is not reset.)                                   *)
GiveUpNoReset(status) ==
    /\ result' = Failed(status)
    /\ pc' = "idle"

(* (Mutant: the buffers are freed and allocated anew, the device goes on.) *)
GiveUpFreeOnly(status) ==
    /\ result' = Failed(status)
    /\ pc' = "free"

GiveUp(status) ==
    /\ result' = Failed(status)
    /\ pc' = "reset"

(* The status register reads back 0: the device has dropped its chains.    *)
ResetQuiesced ==
    /\ pc = "reset"
    /\ chains' = {} /\ stale' = {}
    /\ isr' = FALSE /\ owed' = FALSE
    /\ pc' = "free"
    /\ UNCHANGED <<req, result, resources, content, served, masked, pulses, spurious>>

(* A hundred reads later it still does not, and the code goes on.          *)
ResetGaveUp ==
    /\ pc = "reset"
    /\ stale' = stale \union
            {[req |-> c.req, mem |-> c.mem, served |-> c.at # "device"] :
                c \in {d \in chains : d.at \in {"device", "served", "raised"}}}
    /\ stale' # stale /\ Cardinality(stale') <= MaxStale
    /\ chains' = {}
    /\ isr' = FALSE /\ owed' = FALSE
    /\ pc' = "free"
    /\ UNCHANGED <<req, result, resources, content, served, masked, pulses, spurious>>

(* (Mutant: the interrupt is detached, the channel and its pulses stay.)   *)
FreeAllButPulses ==
    /\ pc = "free"
    /\ live' = [k \in Kinds |-> live[k] - IF res[k] THEN 1 ELSE 0]
    /\ res' = [k \in Kinds |-> FALSE]
    /\ masked' = FALSE
    /\ pc' = "reinit"
    /\ UNCHANGED <<pulses, req, result, respVirt, respPhys, irqMode, server, isr, owed, spurious>>

(* (Mutant: the request buffer's pointer is cleared but not unmapped.)     *)
FreeAllButRequest ==
    /\ pc = "free"
    /\ live' = [k \in Kinds |-> live[k] - IF res[k] /\ k # "req" THEN 1 ELSE 0]
    /\ res' = [k \in Kinds |-> FALSE]
    /\ masked' = FALSE /\ pulses' = 0
    /\ pc' = "reinit"
    /\ UNCHANGED <<req, result, respVirt, respPhys, irqMode, server, isr, owed, spurious>>

FreeAll ==
    /\ pc = "free"
    /\ live' = [k \in Kinds |-> live[k] - IF res[k] THEN 1 ELSE 0]
    /\ res' = [k \in Kinds |-> FALSE]
    /\ masked' = FALSE /\ pulses' = 0       \* interrupt detached, channel destroyed
    /\ pc' = "reinit"
    /\ UNCHANGED <<req, result, respVirt, respPhys, irqMode, server, isr, owed, spurious>>

(* Re-initialisation gets through n of its stages.  Exchange ignores the   *)
(* result of the reset and returns the error of the wait.  A device may    *)
(* refuse its MSI-X vector when the queue is set up again: use_msix_ is    *)
(* cleared, but INTx stays disabled and irq_num_ the MSI-X one ("deaf").   *)
Reinit(n, mem) ==
    /\ pc = "reinit"
    /\ n < 10 => Stages[n + 1] \in FailingStages
    /\ res' = [k \in Kinds |-> n >= CASE k = "queue" -> 2
                                      [] k = "req"   -> 4
                                      [] k = "resp"  -> 6
                                      [] k = "chan"  -> 8
                                      [] k = "conn"  -> 9
                                      [] k = "irq"   -> 10]
    /\ live' = [k \in Kinds |-> live[k] + IF res'[k] THEN 1 ELSE 0]
    /\ IF n >= 6
       THEN respVirt' = mem /\ content' = [content EXCEPT ![mem] = Zero]
       ELSE UNCHANGED <<respVirt, content>>
    /\ respPhys' = IF n >= 7 THEN mem ELSE respPhys
    /\ irqMode' \in IF n >= 3 /\ irqMode = "msix" THEN {"msix", "deaf"} ELSE {irqMode}
    /\ pc' = "idle"
    /\ UNCHANGED <<req, result, chains, stale, served, interrupt>>

ResetStep ==
    \/ ResetQuiesced
    \/ ResetGaveUp
    \/ FreeAll
    \/ \E n \in 0 .. 10, mem \in RespMem : Reinit(n, mem)

Shutdown ==
    /\ pc = "idle"
    /\ live' = [k \in Kinds |-> live[k] - IF res[k] THEN 1 ELSE 0]
    /\ res' = [k \in Kinds |-> FALSE]
    /\ masked' = FALSE /\ pulses' = 0 /\ isr' = FALSE /\ owed' = FALSE
    /\ chains' = {}
    /\ pc' = "down"
    /\ UNCHANGED <<req, result, respVirt, respPhys, irqMode, stale, content, served, spurious>>

-----------------------------------------------------------------------------
(* The device and the 9P server behind it, from how the driver uses them.  *)

Advance(c, at) == chains' = (chains \ {c}) \union {[c EXCEPT !.at = at]}

DeviceTake(c) ==
    /\ c.at = "avail"
    /\ pc # "reset"
    /\ Advance(c, "device")
    /\ UNCHANGED <<driver, resources, stale, content, served, interrupt>>

DeviceServe(c) ==
    /\ c.at = "device"
    /\ served' = c.req
    /\ Advance(c, "served")
    /\ UNCHANGED <<driver, resources, stale, content, interrupt>>

(* The response, the used element and the used index are written ...       *)
DeviceAnswer(c) ==
    /\ c.at \in {"served", "raised"}
    /\ ~owed
    /\ content' = [content EXCEPT ![c.mem] = c.req]
    /\ Advance(c, IF c.at = "served" THEN "used" ELSE "usedLate")
    /\ owed' = (c.at = "served")
    /\ UNCHANGED <<driver, resources, stale, served, isr, masked, pulses, spurious>>

(* ... and the interrupt is raised,                                        *)
DeviceRaise ==
    /\ owed
    /\ owed' = FALSE
    /\ isr' = TRUE
    /\ UNCHANGED <<driver, resources, server, masked, pulses, spurious>>

(* or it overtakes them ("DMA/KVM ordering race").                         *)
DeviceRaiseEarly(c) ==
    /\ EarlyIrq
    /\ c.at = "served"
    /\ ~owed
    /\ Advance(c, "raised")
    /\ isr' = TRUE
    /\ UNCHANGED <<driver, resources, stale, content, served, owed, masked, pulses, spurious>>

(* What a device that was not at rest does with the chains it still has.   *)
StaleServe(s) ==
    /\ ~s.served
    /\ served' = s.req
    /\ stale' = (stale \ {s}) \union {[s EXCEPT !.served = TRUE]}
    /\ UNCHANGED <<driver, resources, chains, content, interrupt>>

StaleAnswer(s) ==
    /\ s.served
    /\ content' = [content EXCEPT ![s.mem] = s.req]
    /\ stale' = stale \ {s}
    /\ UNCHANGED <<driver, resources, chains, served, interrupt>>

(* The kernel masks the interrupt and queues the pulse; a level-triggered  *)
(* line stays up until the status is read, a message is gone.              *)
Deliver ==
    /\ res["irq"] /\ ~masked /\ irqMode # "deaf"
    /\ isr
    /\ isr' = (irqMode # "msix")
    /\ masked' = TRUE /\ pulses' = pulses + 1
    /\ UNCHANGED <<driver, resources, server, owed, spurious>>

(* A device sharing the line, or a configuration change.                   *)
DeliverSpurious ==
    /\ res["irq"] /\ ~masked /\ irqMode # "deaf"
    /\ spurious < MaxSpurious
    /\ spurious' = IF CountSpurious THEN spurious + 1 ELSE spurious
    /\ masked' = TRUE /\ pulses' = pulses + 1
    /\ UNCHANGED <<driver, resources, server, isr, owed>>

Device ==
    \/ \E c \in chains : DeviceTake(c) \/ DeviceServe(c) \/ DeviceAnswer(c) \/ DeviceRaiseEarly(c)
    \/ \E s \in stale : StaleServe(s) \/ StaleAnswer(s)
    \/ DeviceRaise \/ Deliver \/ DeliverSpurious

-----------------------------------------------------------------------------
(* Properties both transports share.                                       *)

Chain == [req : Req, mem : RespMem,
          at : {"avail", "device", "served", "raised", "used", "usedLate"}]

(* Types; the kernel never has two pulses of one masked interrupt.         *)
TypeOK ==
    /\ pc \in {"idle", "fast", "drainIsr", "drainPulse", "wait", "spin",
               "reset", "free", "reinit", "down"}
    /\ req \in Req
    /\ result \in [status : {"none", "ok", "error", "EINVAL", "ENOSPC"},
                   reply : Req \union {Zero, None}]
    /\ res \in [Kinds -> BOOLEAN] /\ live \in [Kinds -> Nat]
    /\ {respVirt, respPhys} \subseteq RespMem
    /\ chains \subseteq Chain
    /\ stale \subseteq [req : Req, mem : RespMem, served : BOOLEAN]
    /\ content \in [RespMem -> Req \union {Zero}]
    /\ served \in Req \union {None}
    /\ irqMode \in IrqModes \union {"deaf"}
    /\ isr \in BOOLEAN /\ owed \in BOOLEAN /\ masked \in BOOLEAN
    /\ pulses \in 0 .. 1 /\ spurious \in 0 .. MaxSpurious

(* Whatever fails in whatever order, the kernel has given out exactly what *)
(* the transport's fields say it holds: no reset loses a mapping, a        *)
(* channel or an interrupt, and none is released twice.                    *)
ResourcesAccounted == \A k \in Kinds : live[k] = IF res[k] THEN 1 ELSE 0

(* Between calls the virtqueue is empty, so AddBuf always finds its two    *)
(* descriptors: every way a wait can fail goes through the reset.          *)
OneInFlight == pc = "idle" => chains = {}

(* The device writes answers only to memory the transport still has mapped *)
(* as its response buffer.                                                 *)
NoDmaToFreed ==
    \A c \in (chains \ Completed) \union stale :
        res["resp"] /\ c.mem = respVirt

(* The answer the driver waits for is announced: by the pulse, by the line *)
(* or message, or by the device still about to raise it.                   *)
Announced ==
    pc = "wait" /\ res["irq"] /\ (\E c \in chains : c.at = "used")
        => pulses = 1 \/ (isr /\ irqMode # "deaf") \/ owed

(* An interrupt is masked exactly while its pulse waits to be received, so *)
(* no answer the driver waits for goes unannounced, whatever interrupts    *)
(* earlier calls left behind; only one that was overtaken by its interrupt *)
(* or comes to a deaf device is left to the timeout.                       *)
NoLostWakeup ==
    /\ masked <=> pulses = 1
    /\ irqMode # "deaf" => Announced

(* Every call delivers the answer to its own request or fails, and the     *)
(* server works on a request only while its call runs.                     *)
Promise == INSTANCE Exchange WITH
    calling <- pc \notin {"idle", "down"},
    result <- IF pc \in {"idle", "down"}
              THEN [ok |-> result.status = "ok", reply |-> result.reply]
              ELSE [ok |-> FALSE, reply |-> None]
=============================================================================
