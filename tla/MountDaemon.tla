----------------------------- MODULE MountDaemon -----------------------------
(***************************************************************************)
(* Mounting: the loop of startup.sh runs mount_virtio9p until it succeeds; *)
(* each attempt is a parent that forks a child, the daemon, and waits at a *)
(* pipe for it to say whether it serves (FsVirtio9pMain).  The parent is   *)
(* gone as soon as it has read a byte, so the next attempt begins while    *)
(* the child of the last one still shuts down, and both have the device.   *)
(*                                                                         *)
(* A child's steps are the steps of Initialize, of the session, of the     *)
(* resource manager and of Shutdown that touch something processes share   *)
(* or that can fail; what the transport and the session do in them is the  *)
(* other modules' concern.  A child may be killed at any time.             *)
(***************************************************************************)
EXTENDS ParseArgs

CONSTANTS
    Child,      \* process slots: bound on the children alive at a time
    NoChild,
    MaxFaults   \* bound on calls that fail and processes that are killed

ASSUME ChildAssumption == NoChild \notin Child
ASSUME FaultsAssumption == MaxFaults \in Nat

VARIABLES machine,  \* "x86_64" or "arm64"
          mnt,      \* the script's place in its loop, and its attempt's child
          child,    \* the daemon processes
          dev,      \* the device, its PCI configuration, its owner, and who
                    \* has the vector for MSI-X in the resource database
          faults    \* faults so far

mountVars == <<machine, mnt, child, dev, faults>>

\* The mount line of each startup.sh, and the bus its machine has.
MountLine ==
    [x86_64 |-> <<Options(<<Option("transport", "pci")>>),
                  Word("none"), Word("/opt/tests")>>,
     arm64  |-> <<Options(<<Option("smem", "0xa003a00"), Option("irq", "77")>>),
                  Word("none"), Word("/opt/tests")>>]
BusOf == [x86_64 |-> "pci", arm64 |-> "mmio"]

Config    == ParseArgs(MountHelper(MountLine[machine]))
Transport == TransportOf(Config)

SetupPcs    == {"start", "map", "attach", "bus", "msix", "features", "queue",
                "dma", "session", "dispatch", "path", "context"}
ShutdownPcs == {"reset", "msixOff", "detach"}
Pcs == SetupPcs \cup ShutdownPcs
           \cup {"none", "tell0", "tell1", "serving", "exit"}

\* pipe: its end of the pipe is open; said: the byte it wrote; mapped: the
\* registers are; irq: what it waits for; served is a history variable.
Fresh == [pc |-> "start", pipe |-> TRUE, said |-> "nothing", mapped |-> FALSE,
          irq |-> "none", served |-> FALSE]
Gone  == [Fresh EXCEPT !.pc = "none", !.pipe = FALSE]

MountInit ==
    /\ machine \in {"x86_64", "arm64"}
    /\ mnt = [pc |-> "retry", child |-> NoChild]
    /\ child = [c \in Child |-> Gone]
    /\ dev = [driver |-> NoChild, owner |-> NoChild, msix |-> FALSE,
              intxOff |-> FALSE, vector |-> NoChild]
    /\ faults = 0

-----------------------------------------------------------------------------
(* The loop and the parent.                                                *)

\* A pipe or a fork that fails is an attempt without a child.
Fork(c) ==
    /\ mnt.pc = "retry" /\ child[c].pc = "none"
    /\ mnt' = [pc |-> "wait", child |-> c]
    /\ child' = [child EXCEPT ![c] = Fresh]
    /\ UNCHANGED <<machine, dev, faults>>

\* (Mutant: the parent's own end of the pipe stays open.)
NoWritersButParent(c) == FALSE
NoWriters(c) == ~child[c].pipe

\* (Mutant: the status is 0 until the child says otherwise.)
StatusOfSilence == "0"
StatusOfNothing == "1"

\* read() gives the byte, or nothing once nobody can write one.
ParentReads ==
    /\ mnt.pc = "wait"
    /\ LET c      == mnt.child
           status == IF child[c].said # "nothing" THEN child[c].said
                     ELSE StatusOfNothing
       IN  /\ child[c].said # "nothing" \/ NoWriters(c)
           /\ mnt' = [mnt EXCEPT !.pc = IF status = "0" THEN "mounted"
                                        ELSE "retry"]
    /\ UNCHANGED <<machine, child, dev, faults>>

-----------------------------------------------------------------------------
(* The child.                                                              *)

\* (Mutant: the PCI device is detached before it is reset.)
DetachFirst == <<"detach", "reset", "msixOff">>
\* The steps of Shutdown.
ShutdownOrder == <<"reset", "msixOff", "detach">>
ShutdownBegins == Head(ShutdownOrder)

At(c, pc) == child[c].pc = pc /\ UNCHANGED <<machine, mnt>>

Fault == faults < MaxFaults /\ faults' = faults + 1
Goto(c, pc) == child' = [child EXCEPT ![c].pc = pc]

\* A step of setup succeeds, or fails and the child goes to ifNot.
Succeed(c, pc)  == Goto(c, pc) /\ UNCHANGED faults
FailTo(c, ifNot) == Goto(c, ifNot) /\ Fault /\ UNCHANGED dev

\* ThreadCtl, CreateTransport.
Start(c) ==
    /\ At(c, "start")
    /\ \/ /\ Succeed(c, IF Transport = "mmio" THEN "map" ELSE "attach")
          /\ UNCHANGED dev
       \/ FailTo(c, "tell1")

\* MMIO: mmap_device_memory, at an address where a device is.
Map(c) ==
    /\ At(c, "map")
    /\ UNCHANGED dev
    /\ \/ /\ Transport = BusOf[machine] /\ UNCHANGED faults
          /\ child' = [child EXCEPT ![c].pc = "features", ![c].mapped = TRUE]
       \/ Transport # BusOf[machine] /\ Succeed(c, "tell1")
       \/ FailTo(c, "tell1")

\* PCI: pci_device_find, the capabilities, pci_device_attach as the owner.
\* DiscoverDevice does not shut down when it fails.
Attach(c) ==
    /\ At(c, "attach")
    /\ \/ /\ Transport = BusOf[machine] /\ dev.owner = NoChild
          /\ Succeed(c, "bus") /\ dev' = [dev EXCEPT !.owner = c]
       \/ /\ Transport # BusOf[machine] \/ dev.owner # NoChild
          /\ Succeed(c, "tell1") /\ UNCHANGED dev
       \/ FailTo(c, "tell1")

\* rsrcdbmgr_attach, if irq is for MSI-X: a vector has one holder.
Claim(c, irq) ==
    /\ irq = "msix" => dev.vector = NoChild
    /\ dev' = IF irq = "msix" THEN [dev EXCEPT !.vector = c] ELSE dev

\* Bus mastering, an interrupt for MSI-X or else INTx, the BARs.  A child
\* that fails after it chose MSI-X has the vector, but no registers.
Bus(c) ==
    /\ At(c, "bus")
    /\ \/ \E irq \in {"msix", "intx"} :
            /\ Claim(c, irq)
            /\ IF irq = "intx" /\ dev.vector = NoChild THEN Fault
               ELSE UNCHANGED faults
            /\ child' = [child EXCEPT ![c].pc = "msix", ![c].mapped = TRUE,
                                      ![c].irq = irq]
       \/ \E irq \in {"msix", "none"} :
            /\ Claim(c, irq) /\ Fault
            /\ child' = [child EXCEPT ![c].pc = "tell1", ![c].irq = irq]

\* rsrcdbmgr_detach: the database takes back what c has, and only that.
\* (Shutdown calls it whenever there was an interrupt, the second time too.)
GivenBack(c) == IF dev.vector = c THEN NoChild ELSE dev.vector

\* The MSI-X table is programmed and MSI-X enabled; INTx is then disabled,
\* and nothing enables it again.
Msix(c) ==
    /\ At(c, "msix") /\ Succeed(c, "features")
    /\ dev' = IF child[c].irq = "msix"
              THEN [dev EXCEPT !.msix = TRUE, !.intxOff = TRUE] ELSE dev

\* The table's BAR is not mapped: INTx after all, if there is one.
MsixFallback(c) ==
    /\ At(c, "msix") /\ child[c].irq = "msix" /\ Fault
    /\ \E pc \in {"features", "tell1"} :
         child' = [child EXCEPT ![c].pc = pc, ![c].irq = "intx"]
    /\ dev' = [dev EXCEPT !.vector = GivenBack(c)]

\* (MMIO: magic and device id.)  NegotiateFeatures begins with a reset.
Features(c) ==
    /\ At(c, "features")
    /\ \/ Succeed(c, "queue") /\ dev' = [dev EXCEPT !.driver = NoChild]
       \/ /\ Goto(c, ShutdownBegins) /\ Fault
          /\ dev' \in {dev, [dev EXCEPT !.driver = NoChild]}

\* SetupVirtqueue ends with DRIVER_OK.
Queue(c) ==
    /\ At(c, "queue")
    /\ \/ Succeed(c, "dma") /\ dev' = [dev EXCEPT !.driver = c]
       \/ FailTo(c, ShutdownBegins)

\* Bounce buffers, channel, InterruptAttachEvent.
Dma(c) == /\ At(c, "dma")
          /\ \/ Succeed(c, "session") /\ UNCHANGED dev
             \/ FailTo(c, ShutdownBegins)

\* GetMountTag, session.Initialize: a request that finds the device reset
\* by another process times out, and the transport sets the device up again.
Session(c) ==
    /\ At(c, "session")
    /\ \/ Succeed(c, "dispatch") /\ dev' = [dev EXCEPT !.driver = c]
       \/ FailTo(c, "tell1")

\* dispatch_create, resmgr_attach, dispatch_context_alloc.
ServeSteps == [dispatch |-> "path", path |-> "context", context |-> "tell0"]
Serve(c) == \E pc \in DOMAIN ServeSteps :
              /\ At(c, pc)
              /\ \/ Succeed(c, ServeSteps[pc]) /\ UNCHANGED dev
                 \/ FailTo(c, "tell1")

\* (Mutant: the child keeps its end of the pipe.)
TellAndKeepPipe(c, pc, byte, then) ==
    /\ At(c, pc)
    /\ child' = [child EXCEPT ![c].pc = then, ![c].said = byte,
                              ![c].served = then = "serving"]
    /\ UNCHANGED <<dev, faults>>
\* The byte is written and the pipe closed.
Tell(c, pc, byte, then) ==
    /\ At(c, pc)
    /\ child' = [child EXCEPT ![c].pc = then, ![c].pipe = FALSE,
                              ![c].said = byte, ![c].served = then = "serving"]
    /\ UNCHANGED <<dev, faults>>
TellOk(c)   == Tell(c, "tell0", "0", "serving")
TellFail(c) == Tell(c, "tell1", "1", ShutdownBegins)

\* dispatch_block fails, and the main loop ends with Shutdown.
StopServing(c) == At(c, "serving") /\ FailTo(c, ShutdownBegins)

-----------------------------------------------------------------------------
(* Shutdown, in Initialize when it fails, and in the destructor.           *)

\* The step after one of them: the destructor runs after the byte.
AfterShutdown(c, pc) ==
    LET i == CHOOSE i \in 1..3 : ShutdownOrder[i] = pc
    IN  IF i < 3 THEN ShutdownOrder[i + 1]
        ELSE IF child[c].pipe THEN "tell1" ELSE "exit"

Unmapped(c, to) == child[c].mapped /\ to \notin {"tell1", "exit"}

Shutdown(c) ==
    \E pc \in ShutdownPcs :
      LET to == AfterShutdown(c, pc) IN
      /\ At(c, pc) /\ UNCHANGED faults
      /\ dev' = CASE pc = "reset" /\ child[c].mapped ->
                        [dev EXCEPT !.driver = NoChild]
                  [] pc = "msixOff" ->
                        [dev EXCEPT !.msix = @ /\ child[c].irq # "msix",
                                    !.vector = GivenBack(c)]
                  [] pc = "detach" /\ dev.owner = c ->
                        [dev EXCEPT !.owner = NoChild]
                  [] OTHER -> dev
      /\ child' = [child EXCEPT ![c].pc = to, ![c].mapped = Unmapped(c, to),
                                ![c].irq = IF pc = "msixOff" THEN "none" ELSE @]

\* The process ends: by itself, or killed.  What it owned is released; the
\* device and its configuration stay as they are.
End(c) == /\ child' = [child EXCEPT ![c] = [Gone EXCEPT !.said = child[c].said,
                                                !.served = child[c].served]]
          /\ dev' = [dev EXCEPT !.owner = IF @ = c THEN NoChild ELSE @,
                                !.vector = GivenBack(c)]
          /\ UNCHANGED <<machine, mnt>>
Exit(c) == At(c, "exit") /\ End(c) /\ UNCHANGED faults
Killed(c) == child[c].pc # "none" /\ End(c) /\ Fault

ChildStep(c) ==
    \/ Start(c) \/ Map(c) \/ Attach(c) \/ Bus(c) \/ Msix(c) \/ MsixFallback(c)
    \/ Features(c) \/ Queue(c) \/ Dma(c) \/ Session(c) \/ Serve(c)
    \/ TellOk(c) \/ TellFail(c) \/ StopServing(c) \/ Shutdown(c) \/ Exit(c)

MountNext == ParentReads \/ \E c \in Child : Fork(c) \/ ChildStep(c) \/ Killed(c)

\* The scheduler runs every process and the script.
MountFairness == /\ WF_mountVars(ParentReads)
                 /\ WF_mountVars(\E c \in Child : Fork(c))
                 /\ \A c \in Child : WF_mountVars(ChildStep(c))
MountSpec == MountInit /\ [][MountNext]_mountVars /\ MountFairness

-----------------------------------------------------------------------------
(* Properties.                                                             *)

\* Every variable has its type; a byte is said once, and the pipe is closed
\* with it.
MountTypeOK ==
    /\ machine \in {"x86_64", "arm64"}
    /\ mnt.pc \in {"retry", "wait", "mounted"}
    /\ mnt.child \in Child \cup {NoChild}
    /\ \A c \in Child :
         /\ child[c].pc \in Pcs
         /\ child[c].irq \in {"none", "msix", "intx"}
         /\ child[c].said \in {"nothing", "0", "1"}
         /\ child[c].pipe => child[c].said = "nothing"
    /\ dev.driver \in Child \cup {NoChild}
    /\ {dev.owner, dev.vector} \subseteq Child \cup {NoChild}
    /\ faults \in 0..MaxFaults

\* mount_virtio9p succeeds only if the daemon of that attempt reached its
\* dispatch loop, whatever failed or was killed on the way; and a daemon
\* that serves is one whose mount has succeeded or is about to.
MountedWhenTold ==
    /\ mnt.pc = "mounted" => child[mnt.child].served
    /\ \A c \in Child : child[c].pc = "serving" =>
                            mnt.child = c /\ mnt.pc \in {"wait", "mounted"}

\* PCI: while one process owns the device, no step of another one resets
\* it, sets it up, changes its MSI-X state or gives away its vector.  (MMIO
\* has no such owner.)
OwnersDeviceStays ==
    [][\A c \in Child :
         dev.owner = c /\ child'[c] = child[c] => dev' = dev]_mountVars
=============================================================================
