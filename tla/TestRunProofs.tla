---------------------------- MODULE TestRunProofs ----------------------------
(***************************************************************************)
(* Proofs about the mount of MountDaemon.tla, and about a whole test run,  *)
(* TestRun.tla, for every number of process slots, failures and kills: the *)
(* mount succeeds only when the daemon serves, and the device of a process *)
(* stays as it is while others run; the mount's invariant holds in a whole *)
(* test run, a test runs with nothing of an earlier run, and the wrapper's *)
(* exit code is the test's.                                                *)
(***************************************************************************)
EXTENDS TestRun, TLAPS

-----------------------------------------------------------------------------
(* The mount.                                                              *)

ChildType == [pc : Pcs, pipe : BOOLEAN, said : {"nothing", "0", "1"},
              mapped : BOOLEAN, irq : {"none", "msix", "intx"},
              served : BOOLEAN]

Devices == [driver : Child \cup {NoChild}, owner : Child \cup {NoChild},
            msix : BOOLEAN, intxOff : BOOLEAN, vector : Child \cup {NoChild}]

\* The types of the variables as sets of records, for the provers.
TypesOf == /\ machine \in {"x86_64", "arm64"}
           /\ mnt \in [pc : {"retry", "wait", "mounted"},
                       child : Child \cup {NoChild}]
           /\ child \in [Child -> ChildType]
           /\ dev \in Devices
           /\ faults \in 0..MaxFaults

\* A child that has its pipe is the one the parent waits for.
PipeIsWaitedFor(c) ==
    child[c].pipe => /\ mnt.child = c /\ mnt.pc = "wait"
                     /\ child[c].said = "nothing"

\* Before its byte a child has its pipe.
PipeBeforeByte(c) ==
    child[c].pc \in SetupPcs \cup {"tell0", "tell1"} => child[c].pipe

\* Bytes are true, and a daemon that serves is known to the parent.
ByteIsTrue(c) ==
    /\ child[c].said = "0" => child[c].served
    /\ child[c].pc = "serving" => /\ child[c].said = "0" /\ mnt.child = c
                                  /\ mnt.pc \in {"wait", "mounted"}

\* Only a failure ends a daemon that said it serves.
ServesUnlessFaulty(c) ==
    child[c].said = "0" /\ faults = 0 => child[c].pc = "serving"

MountedServed ==
    mnt.pc = "mounted" => /\ mnt.child \in Child
                          /\ child[mnt.child].served
                          /\ child[mnt.child].said = "0"

StatusInv == /\ \A c \in Child : /\ PipeIsWaitedFor(c) /\ PipeBeforeByte(c)
                                 /\ ByteIsTrue(c) /\ ServesUnlessFaulty(c)
             /\ MountedServed
             /\ mnt.pc = "wait" => mnt.child \in Child

\* The steps in which a child may touch the device.
Touches(c) == \/ child[c].mapped \/ child[c].irq # "none"
              \/ child[c].pc \in {"bus", "msix", "features", "queue", "dma",
                                  "session"}

\* A child has neither the registers, an interrupt, the device nor its vector.
HasNothing(c) == /\ ~child[c].mapped /\ child[c].irq = "none"
                 /\ dev.owner # c /\ dev.vector # c

\* On PCI whoever may touch the device, or has its vector, owns it.
OwnsWhatItTouches(c) ==
    /\ child[c].pc = "map" => Transport = "mmio"
    /\ child[c].pc = "attach" => Transport # "mmio"
    /\ child[c].pc = "detach" => child[c].irq = "none" /\ dev.vector # c
    /\ child[c].pc = "exit" => HasNothing(c)
    /\ Touches(c) /\ machine = "x86_64" => dev.owner = c
    /\ child[c].pc \in {"bus", "msix"} \/ dev.vector = c => dev.owner = c

\* On MMIO nobody owns it.
Ownership == /\ \A c \in Child : OwnsWhatItTouches(c)
             /\ machine = "arm64" => dev.owner = NoChild

MountInv == TypesOf /\ StatusInv /\ Ownership

\* The command line names one of two transports.
LEMMA TransportValues == Transport \in {"mmio", "pci"}
  BY DEF Transport, TransportOf

\* A machine's mount line, and so its transport, never changes.
LEMMA TransportStays == ASSUME machine' = machine PROVE Transport' = Transport
  BY DEF Transport, Config

\* The steps of Shutdown, one by one.
LEMMA ShutdownSteps ==
  /\ ShutdownOrder[1] = "reset" /\ ShutdownOrder[2] = "msixOff"
  /\ ShutdownOrder[3] = "detach" /\ ShutdownBegins = "reset"
  BY DEF ShutdownOrder, ShutdownBegins

\* Where Shutdown goes after each of its steps.
LEMMA ShutdownGoes ==
  ASSUME NEW c
  PROVE  /\ AfterShutdown(c, "reset") = "msixOff"
         /\ AfterShutdown(c, "msixOff") = "detach"
         /\ AfterShutdown(c, "detach") = IF child[c].pipe THEN "tell1" ELSE "exit"
<1>1. (CHOOSE i \in 1..3 : ShutdownOrder[i] = "reset") = 1
  BY ShutdownSteps
<1>2. (CHOOSE i \in 1..3 : ShutdownOrder[i] = "msixOff") = 2
  BY ShutdownSteps
<1>3. (CHOOSE i \in 1..3 : ShutdownOrder[i] = "detach") = 3
  BY ShutdownSteps
<1> QED BY <1>1, <1>2, <1>3, ShutdownSteps DEF AfterShutdown

\* One child's record changes to r, which keeps what is said of every child.
LEMMA ChangeKeepsStatus ==
  ASSUME TypesOf, StatusInv, NEW c \in Child, NEW r \in ChildType,
         child' = [child EXCEPT ![c] = r], UNCHANGED mnt,
         r.pipe => mnt.child = c /\ mnt.pc = "wait" /\ r.said = "nothing",
         r.pc \in SetupPcs \cup {"tell0", "tell1"} => r.pipe,
         r.said = "0" => r.served,
         r.pc = "serving" => /\ r.said = "0" /\ mnt.child = c
                             /\ mnt.pc \in {"wait", "mounted"},
         r.said = "0" /\ faults' = 0 => r.pc = "serving",
         mnt.pc = "mounted" /\ mnt.child = c => r.said = "0",
         faults' = 0 => faults = 0
  PROVE  StatusInv'
<1>1. child'[c] = r /\ \A d \in Child \ {c} : child'[d] = child[d]
  BY DEF TypesOf
<1>2. ASSUME NEW d \in Child
      PROVE  /\ PipeIsWaitedFor(d)' /\ PipeBeforeByte(d)'
             /\ ByteIsTrue(d)' /\ ServesUnlessFaulty(d)'
  <2>1. CASE d = c
    <3>1. PipeIsWaitedFor(d)' BY <2>1, <1>1 DEF PipeIsWaitedFor
    <3>2. PipeBeforeByte(d)' BY <2>1, <1>1 DEF PipeBeforeByte
    <3>3. ByteIsTrue(d)' BY <2>1, <1>1 DEF ByteIsTrue
    <3>4. ServesUnlessFaulty(d)' BY <2>1, <1>1 DEF ServesUnlessFaulty
    <3> QED BY <3>1, <3>2, <3>3, <3>4
  <2>2. CASE d # c
    BY <2>2, <1>1
       DEF StatusInv, PipeIsWaitedFor, PipeBeforeByte, ByteIsTrue, ServesUnlessFaulty
  <2> QED BY <2>1, <2>2
<1>3. MountedServed'
  <2>1. CASE mnt.child = c BY <2>1, <1>1 DEF StatusInv, MountedServed
  <2>2. CASE mnt.child # c BY <2>2, <1>1 DEF StatusInv, MountedServed
  <2> QED BY <2>1, <2>2
<1> QED BY <1>2, <1>3 DEF StatusInv

(***************************************************************************)
(* Most steps of a child change its pc and its hold on the device, and     *)
(* leave its pipe, its byte and its history alone.                         *)
(***************************************************************************)
LEMMA MoveKeepsStatus ==
  ASSUME TypesOf, StatusInv, NEW c \in Child, NEW r \in ChildType,
         child' = [child EXCEPT ![c] = r], UNCHANGED mnt,
         r.pipe <=> child[c].pipe, r.said = child[c].said,
         r.served <=> child[c].served,
         r.pc \in SetupPcs \cup {"tell0", "tell1"} => child[c].pipe,
         r.pc = "serving" => child[c].pc = "serving",
         faults' = 0 => faults = 0 /\ (child[c].pc = "serving" => r.pc = "serving")
  PROVE  StatusInv'
<1>1. /\ PipeIsWaitedFor(c) /\ PipeBeforeByte(c) /\ ByteIsTrue(c)
      /\ ServesUnlessFaulty(c) /\ MountedServed
  BY DEF StatusInv
<1>2. r.pipe => mnt.child = c /\ mnt.pc = "wait" /\ r.said = "nothing"
  BY <1>1 DEF PipeIsWaitedFor
<1>3. r.pc \in SetupPcs \cup {"tell0", "tell1"} => r.pipe OBVIOUS
<1>4. r.said = "0" => r.served BY <1>1 DEF ByteIsTrue
<1>5. r.pc = "serving" => /\ r.said = "0" /\ mnt.child = c
                          /\ mnt.pc \in {"wait", "mounted"}
  BY <1>1 DEF ByteIsTrue
<1>6. r.said = "0" /\ faults' = 0 => r.pc = "serving"
  BY <1>1 DEF ServesUnlessFaulty
<1>7. mnt.pc = "mounted" /\ mnt.child = c => r.said = "0"
  BY <1>1 DEF MountedServed
<1> QED BY <1>2, <1>3, <1>4, <1>5, <1>6, <1>7, ChangeKeepsStatus

\* A child that only goes from one pc to another keeps what is said of all.
LEMMA GotoMoves ==
  ASSUME TypesOf, StatusInv, NEW c \in Child, NEW pc \in Pcs, Goto(c, pc),
         UNCHANGED mnt, child[c].pc # "serving", pc # "serving",
         pc \in SetupPcs \cup {"tell0", "tell1"} => child[c].pipe,
         faults' = 0 => faults = 0
  PROVE  /\ StatusInv'
         /\ child' \in [Child -> ChildType]
         /\ child'[c] = [child[c] EXCEPT !.pc = pc]
         /\ \A d \in Child \ {c} : child'[d] = child[d]
<1> DEFINE r == [child[c] EXCEPT !.pc = pc]
<1>1. child[c] \in ChildType BY DEF TypesOf
<1>2. r \in ChildType BY <1>1 DEF ChildType
<1>3. child' = [child EXCEPT ![c] = r] BY DEF Goto
<1>4. /\ r.pipe = child[c].pipe /\ r.said = child[c].said
      /\ r.served = child[c].served /\ r.pc = pc
  BY <1>1 DEF ChildType
<1>5. StatusInv'
  <2> HIDE DEF r
  <2> QED BY <1>2, <1>3, <1>4, MoveKeepsStatus
<1> QED BY <1>2, <1>3, <1>5 DEF TypesOf

\* A child that comes by no new hold on the device disturbs no owner.
LEMMA OwnershipStays ==
  ASSUME Ownership, NEW c \in Child, machine' = machine,
         dev'.owner = dev.owner, dev'.vector = dev.vector,
         Touches(c)' => Touches(c),
         child'[c].pc \notin {"map", "attach", "bus", "msix", "detach", "exit"},
         \A d \in Child \ {c} : child'[d] = child[d]
  PROVE  Ownership'
<1>1. Transport' = Transport BY TransportStays
<1>2. ASSUME NEW d \in Child
      PROVE  OwnsWhatItTouches(d)'
  <2>1. CASE d = c BY <2>1 DEF Ownership, OwnsWhatItTouches
  <2>2. CASE d # c BY <2>2, <1>1 DEF Ownership, OwnsWhatItTouches, HasNothing, Touches
  <2> QED BY <2>1, <2>2
<1> QED BY <1>2 DEF Ownership, OwnsWhatItTouches

(***************************************************************************)
(* The steps of setup.                                                     *)
(***************************************************************************)

\* A failure is counted within its bound.
LEMMA FaultCounts == ASSUME TypesOf, Fault
                     PROVE  faults' \in 0..MaxFaults /\ faults' # 0
  BY FaultsAssumption DEF TypesOf, Fault

\* A step of setup that goes to "to", where the child has its pipe.
LEMMA SetupGoes ==
  ASSUME MountInv, NEW c \in Child, NEW to \in Pcs, Goto(c, to),
         UNCHANGED <<machine, mnt>>,
         child[c].pc \in SetupPcs, to # "serving",
         UNCHANGED faults \/ Fault,
         dev' \in Devices
  PROVE  /\ TypesOf' /\ StatusInv'
         /\ child'[c] = [child[c] EXCEPT !.pc = to]
         /\ \A d \in Child \ {c} : child'[d] = child[d]
<1>1. child[c].pipe BY DEF MountInv, StatusInv, PipeBeforeByte
<1>2. child[c].pc # "serving" BY DEF SetupPcs
<1>3. faults' \in 0..MaxFaults /\ (faults' = 0 => faults = 0)
  BY FaultCounts DEF MountInv, TypesOf
<1>4. /\ StatusInv' /\ child' \in [Child -> ChildType]
      /\ child'[c] = [child[c] EXCEPT !.pc = to]
      /\ \A d \in Child \ {c} : child'[d] = child[d]
  BY <1>1, <1>2, <1>3, GotoMoves DEF MountInv
<1> QED BY <1>3, <1>4 DEF MountInv, TypesOf

\* One that fails, or succeeds without a new hold on the device.
LEMMA SetupGoesOn ==
  ASSUME MountInv, NEW c \in Child, NEW to \in Pcs, Goto(c, to),
         UNCHANGED <<machine, mnt>>,
         child[c].pc \in SetupPcs,
         to \notin {"serving", "map", "attach", "bus", "msix", "detach", "exit"},
         UNCHANGED faults \/ Fault,
         dev' \in Devices,
         dev'.owner = dev.owner, dev'.vector = dev.vector,
         to \in {"features", "queue", "dma", "session"} =>
             child[c].pc \in {"bus", "msix", "features", "queue", "dma", "session"}
  PROVE  MountInv'
<1>1. /\ TypesOf' /\ StatusInv'
      /\ child'[c] = [child[c] EXCEPT !.pc = to]
      /\ \A d \in Child \ {c} : child'[d] = child[d]
  BY SetupGoes
<1>2. child[c] \in ChildType BY DEF MountInv, TypesOf
<1>3. child'[c].pc = to /\ (Touches(c)' => Touches(c))
  BY <1>1, <1>2 DEF Touches, ChildType
<1>4. Ownership' BY <1>1, <1>3, OwnershipStays DEF MountInv
<1> QED BY <1>1, <1>4 DEF MountInv

\* What the next two use of the device's type.
LEMMA DevType == ASSUME MountInv
                 PROVE  dev \in Devices
  BY DEF MountInv, TypesOf

\* A step of setup that fails keeps the invariant.
LEMMA FailureKeeps ==
  ASSUME MountInv, NEW c \in Child, UNCHANGED <<machine, mnt>>,
         child[c].pc \in SetupPcs, NEW ifNot \in {"tell1", "reset"},
         FailTo(c, ifNot)
  PROVE  MountInv'
<1>1. ifNot \in Pcs /\ ifNot \notin
      {"serving", "map", "attach", "detach", "exit", "bus", "msix", "features",
       "queue", "dma", "session"}
  BY DEF Pcs, ShutdownPcs
<1> QED BY <1>1, DevType, SetupGoesOn DEF FailTo

\* The choice of the transport.
LEMMA StartKeeps == ASSUME MountInv, NEW c \in Child, Start(c) PROVE MountInv'
<1>1. child[c].pc = "start" /\ child[c].pc \in SetupPcs /\ UNCHANGED <<machine, mnt>>
  BY DEF Start, At, SetupPcs
<1> DEFINE to == IF Transport = "mmio" THEN "map" ELSE "attach"
<1>2. CASE Succeed(c, to) /\ UNCHANGED dev
  <2>1. to \in Pcs /\ to # "serving" BY DEF Pcs, SetupPcs
  <2>2. Goto(c, to) /\ UNCHANGED faults BY <1>2 DEF Succeed
  <2>3. /\ TypesOf' /\ StatusInv'
        /\ child'[c] = [child[c] EXCEPT !.pc = to]
        /\ \A d \in Child \ {c} : child'[d] = child[d]
    <3> HIDE DEF to
    <3> QED BY <1>1, <1>2, <2>1, <2>2, DevType, SetupGoes
  <2>4. child[c] \in ChildType BY DEF MountInv, TypesOf
  <2>5. Transport' = Transport BY <1>1, TransportStays
  <2>6. child'[c].pc = to /\ (Touches(c)' => Touches(c))
    BY <2>3, <2>4 DEF Touches, ChildType
  <2>7. ASSUME NEW d \in Child
        PROVE  OwnsWhatItTouches(d)'
    <3>1. CASE d = c BY <3>1, <1>1, <1>2, <2>5, <2>6 DEF MountInv, Ownership, OwnsWhatItTouches
    <3>2. CASE d # c BY <3>2, <1>1, <1>2, <2>3, <2>5 DEF MountInv, Ownership, OwnsWhatItTouches, HasNothing, Touches
    <3> QED BY <3>1, <3>2
  <2>8. Ownership' BY <2>7, <1>1, <1>2 DEF MountInv, Ownership, OwnsWhatItTouches
  <2> QED BY <2>3, <2>8 DEF MountInv
<1>3. CASE FailTo(c, "tell1") BY <1>1, <1>3, FailureKeeps
<1> QED BY <1>2, <1>3 DEF Start

\* A step that also takes the registers or an interrupt, or gives back the
\* vector, by a child that owns the device, or on MMIO.
LEMMA TakeKeeps ==
  ASSUME MountInv, NEW c \in Child, UNCHANGED <<machine, mnt>>,
         child[c].pc \in SetupPcs, UNCHANGED faults \/ Fault,
         dev' \in Devices, dev'.owner = dev.owner,
         dev'.vector \in {dev.vector, NoChild, c},
         dev'.vector = c => dev.owner = c,
         NEW to \in {"msix", "features", "tell1"}, NEW mapped \in BOOLEAN,
         NEW irq \in {"none", "msix", "intx"},
         child' = [child EXCEPT ![c] = [child[c] EXCEPT !.pc = to,
                                           !.mapped = mapped, !.irq = irq]],
         machine = "x86_64" \/ to = "msix" => dev.owner = c
  PROVE  MountInv'
<1> DEFINE r == [child[c] EXCEPT !.pc = to, !.mapped = mapped, !.irq = irq]
<1>1. child[c] \in ChildType BY DEF MountInv, TypesOf
<1>2. r \in ChildType /\ r.pc = to /\ r.pipe = child[c].pipe
      /\ r.said = child[c].said /\ r.served = child[c].served
  BY <1>1 DEF ChildType, Pcs, SetupPcs
<1>3. child' = [child EXCEPT ![c] = r] OBVIOUS
<1> HIDE DEF r
<1>4. child[c].pipe BY DEF MountInv, StatusInv, PipeBeforeByte
<1>5. child[c].pc # "serving" /\ to # "serving" BY DEF SetupPcs
<1>6. faults' \in 0..MaxFaults /\ (faults' = 0 => faults = 0)
  BY FaultCounts DEF MountInv, TypesOf
<1>7. StatusInv'
  BY <1>2, <1>3, <1>4, <1>5, <1>6, MoveKeepsStatus DEF MountInv
<1>8. child'[c] = r /\ \A d \in Child \ {c} : child'[d] = child[d]
  BY <1>3 DEF MountInv, TypesOf
<1>9. TypesOf' BY <1>2, <1>3, <1>6 DEF MountInv, TypesOf
<1>10. Transport' = Transport BY TransportStays
<1>11. ASSUME NEW d \in Child
      PROVE  OwnsWhatItTouches(d)'
  <2>1. CASE d = c BY <2>1, <1>2, <1>8 DEF OwnsWhatItTouches
  <2>2. CASE d # c
    BY <2>2, <1>8, <1>10, ChildAssumption
       DEF MountInv, Ownership, OwnsWhatItTouches, HasNothing, Touches
  <2> QED BY <2>1, <2>2
<1>12. Ownership' BY <1>11 DEF MountInv, Ownership, OwnsWhatItTouches
<1> QED BY <1>7, <1>9, <1>12 DEF MountInv

\* The registers of the MMIO device.
LEMMA MapKeeps == ASSUME MountInv, NEW c \in Child, Map(c) PROVE MountInv'
<1>1. /\ child[c].pc = "map" /\ child[c].pc \in SetupPcs
      /\ UNCHANGED <<machine, mnt, dev>>
  BY DEF Map, At, SetupPcs
<1>2. Transport = "mmio" BY <1>1 DEF MountInv, Ownership, OwnsWhatItTouches
<1>3. CASE /\ Transport = BusOf[machine] /\ UNCHANGED faults
           /\ child' = [child EXCEPT ![c].pc = "features", ![c].mapped = TRUE]
  <2>1. machine # "x86_64" BY <1>2, <1>3 DEF BusOf
  <2>2. child[c] \in ChildType BY DEF MountInv, TypesOf
  <2>3. child' = [child EXCEPT ![c] = [child[c] EXCEPT !.pc = "features",
                                !.mapped = TRUE, !.irq = child[c].irq]]
    BY <1>3, <2>2 DEF ChildType, MountInv, TypesOf
  <2>4. child[c].irq \in {"none", "msix", "intx"} BY <2>2 DEF ChildType
  <2>5. dev.vector = c => dev.owner = c
    BY DEF MountInv, Ownership, OwnsWhatItTouches
  <2> QED BY <1>1, <1>3, <2>1, <2>3, <2>4, <2>5, DevType, TakeKeeps
<1>4. CASE Transport # BusOf[machine] /\ Succeed(c, "tell1")
  <2>1. "tell1" \in Pcs BY DEF Pcs
  <2> QED BY <1>1, <1>4, <2>1, DevType, SetupGoesOn DEF Succeed
<1>5. CASE FailTo(c, "tell1") BY <1>1, <1>5, FailureKeeps
<1> QED BY <1>3, <1>4, <1>5 DEF Map

\* The PCI device becomes this child's, or cannot be had.
LEMMA AttachKeeps == ASSUME MountInv, NEW c \in Child, Attach(c) PROVE MountInv'
<1>1. /\ child[c].pc = "attach" /\ child[c].pc \in SetupPcs
      /\ UNCHANGED <<machine, mnt>>
  BY DEF Attach, At, SetupPcs
<1>2. Transport = "pci" BY <1>1, TransportValues DEF MountInv, Ownership, OwnsWhatItTouches
<1>3. CASE /\ Transport = BusOf[machine] /\ dev.owner = NoChild
           /\ Succeed(c, "bus") /\ dev' = [dev EXCEPT !.owner = c]
  <2>1. machine # "arm64" BY <1>2, <1>3 DEF BusOf
  <2>2. dev'.owner = c /\ dev'.vector = dev.vector /\ dev' \in Devices
    BY <1>3, DevType DEF Devices
  <2>3. "bus" \in Pcs /\ Goto(c, "bus") /\ UNCHANGED faults
    BY <1>3 DEF Succeed, Pcs, SetupPcs
  <2>4. /\ TypesOf' /\ StatusInv'
        /\ child'[c] = [child[c] EXCEPT !.pc = "bus"]
        /\ \A d \in Child \ {c} : child'[d] = child[d]
    BY <1>1, <2>2, <2>3, SetupGoes
  <2>5. child[c] \in ChildType BY DEF MountInv, TypesOf
  <2>6. child'[c].pc = "bus" BY <2>4, <2>5 DEF ChildType
  <2>7. Transport' = Transport BY <1>1, TransportStays
  <2>8. ASSUME NEW d \in Child
        PROVE  OwnsWhatItTouches(d)'
    <3>1. CASE d = c BY <3>1, <2>2, <2>6 DEF OwnsWhatItTouches
    <3>2. CASE d # c
      <4>1. /\ ~(Touches(d) /\ machine = "x86_64")
            /\ child[d].pc \notin {"bus", "msix"} /\ dev.vector # d
        BY <1>3, ChildAssumption DEF MountInv, Ownership, OwnsWhatItTouches
      <4> QED BY <3>2, <4>1, <1>1, <2>2, <2>4, <2>7 DEF MountInv, Ownership, OwnsWhatItTouches, HasNothing, Touches
    <3> QED BY <3>1, <3>2
  <2>9. Ownership' BY <2>8, <2>1, <1>1 DEF Ownership, OwnsWhatItTouches
  <2> QED BY <2>4, <2>9 DEF MountInv
<1>4. CASE /\ Transport # BusOf[machine] \/ dev.owner # NoChild
           /\ Succeed(c, "tell1") /\ UNCHANGED dev
  <2>1. "tell1" \in Pcs BY DEF Pcs
  <2> QED BY <1>1, <1>4, <2>1, DevType, SetupGoesOn DEF Succeed
<1>5. CASE FailTo(c, "tell1") BY <1>1, <1>5, FailureKeeps
<1> QED BY <1>3, <1>4, <1>5 DEF Attach

\* The vector is this child's, or its holder's.
LEMMA ClaimType ==
  ASSUME MountInv, NEW c \in Child, NEW irq, Claim(c, irq)
  PROVE  /\ dev' \in Devices /\ dev'.owner = dev.owner
         /\ dev'.vector \in {dev.vector, c}
  BY DevType DEF Claim, Devices

\* The vector, the BARs and the interrupt.
LEMMA BusKeeps == ASSUME MountInv, NEW c \in Child, Bus(c) PROVE MountInv'
<1>1. /\ child[c].pc = "bus" /\ child[c].pc \in SetupPcs
      /\ UNCHANGED <<machine, mnt>>
  BY DEF Bus, At, SetupPcs
<1>2. dev.owner = c BY <1>1 DEF MountInv, Ownership, OwnsWhatItTouches
<1>3. child[c] \in ChildType BY DEF MountInv, TypesOf
<1>4. ASSUME NEW irq \in {"msix", "intx"}, Claim(c, irq),
             UNCHANGED faults \/ Fault,
             child' = [child EXCEPT ![c].pc = "msix", ![c].mapped = TRUE,
                                    ![c].irq = irq]
      PROVE  MountInv'
  <2>1. child' = [child EXCEPT ![c] = [child[c] EXCEPT !.pc = "msix",
                                           !.mapped = TRUE, !.irq = irq]]
    BY <1>3, <1>4 DEF ChildType, MountInv, TypesOf
  <2>2. /\ dev' \in Devices /\ dev'.owner = dev.owner
        /\ dev'.vector \in {dev.vector, NoChild, c}
    BY <1>4, ClaimType
  <2> QED BY <1>1, <1>2, <1>4, <2>1, <2>2, TakeKeeps
<1>5. ASSUME NEW irq \in {"msix", "none"}, Claim(c, irq), Fault,
             child' = [child EXCEPT ![c].pc = "tell1", ![c].irq = irq]
      PROVE  MountInv'
  <2>1. child' = [child EXCEPT ![c] = [child[c] EXCEPT !.pc = "tell1",
                                !.mapped = child[c].mapped, !.irq = irq]]
    BY <1>3, <1>5 DEF ChildType, MountInv, TypesOf
  <2>2. /\ dev' \in Devices /\ dev'.owner = dev.owner
        /\ dev'.vector \in {dev.vector, NoChild, c}
    BY <1>5, ClaimType
  <2>3. child[c].mapped \in BOOLEAN BY <1>3 DEF ChildType
  <2> QED BY <1>1, <1>2, <1>5, <2>1, <2>2, <2>3, TakeKeeps
<1> QED BY <1>4, <1>5 DEF Bus

\* What giving back the vector does to the device.
LEMMA GivenBackVector ==
  ASSUME MountInv, NEW c \in Child
  PROVE  /\ GivenBack(c) \in {dev.vector, NoChild} /\ GivenBack(c) # c
         /\ GivenBack(c) \in Child \cup {NoChild}
         /\ dev.vector # c => GivenBack(c) = dev.vector
  BY DevType, ChildAssumption DEF GivenBack, Devices

\* MSI-X, enabled by the device's owner.
LEMMA MsixKeeps == ASSUME MountInv, NEW c \in Child, Msix(c) PROVE MountInv'
<1>1. /\ child[c].pc = "msix" /\ child[c].pc \in SetupPcs
      /\ UNCHANGED <<machine, mnt>> /\ Succeed(c, "features")
  BY DEF Msix, At, SetupPcs
<1>2. /\ dev'.owner = dev.owner /\ dev'.vector = dev.vector
      /\ dev' \in Devices
  BY DevType DEF Msix, Devices
<1>3. "features" \in Pcs BY DEF Pcs, SetupPcs
<1> QED BY <1>1, <1>2, <1>3, SetupGoesOn DEF Succeed

\* INTx instead, or no interrupt at all.
LEMMA MsixFallbackKeeps ==
  ASSUME MountInv, NEW c \in Child, MsixFallback(c) PROVE MountInv'
<1>1. /\ child[c].pc = "msix" /\ child[c].pc \in SetupPcs /\ Fault
      /\ UNCHANGED <<machine, mnt>>
      /\ dev' = [dev EXCEPT !.vector = GivenBack(c)]
  BY DEF MsixFallback, At, SetupPcs
<1>2. PICK pc \in {"features", "tell1"} :
        child' = [child EXCEPT ![c].pc = pc, ![c].irq = "intx"]
  BY DEF MsixFallback
<1>3. child[c] \in ChildType BY DEF MountInv, TypesOf
<1>4. child' = [child EXCEPT ![c] = [child[c] EXCEPT !.pc = pc,
                              !.mapped = child[c].mapped, !.irq = "intx"]]
  BY <1>2, <1>3 DEF ChildType, MountInv, TypesOf
<1>5. machine = "x86_64" => dev.owner = c
  BY <1>1 DEF MountInv, Ownership, OwnsWhatItTouches, HasNothing, Touches
<1>6. child[c].mapped \in BOOLEAN BY <1>3 DEF ChildType
<1>7. /\ dev' \in Devices /\ dev'.owner = dev.owner
      /\ dev'.vector \in {dev.vector, NoChild} /\ dev'.vector # c
  BY <1>1, DevType, GivenBackVector DEF Devices
<1> QED BY <1>1, <1>2, <1>4, <1>5, <1>6, <1>7, TakeKeeps

\* The reset and the feature negotiation.
LEMMA FeaturesKeeps == ASSUME MountInv, NEW c \in Child, Features(c) PROVE MountInv'
<1>1. /\ child[c].pc = "features" /\ child[c].pc \in SetupPcs
      /\ UNCHANGED <<machine, mnt>>
  BY DEF Features, At, SetupPcs
<1>2. PICK to \in {"queue", "reset"} : Goto(c, to) /\ (UNCHANGED faults \/ Fault)
  BY ShutdownSteps DEF Features, Succeed
<1>3. /\ dev'.owner = dev.owner /\ dev'.vector = dev.vector
      /\ dev' \in Devices
  BY DevType DEF Features, Devices
<1>4. to \in Pcs BY DEF Pcs, SetupPcs, ShutdownPcs
<1> QED BY <1>1, <1>2, <1>3, <1>4, SetupGoesOn

\* The queue, the buffers and the session.
LEMMA LaterSetupKeeps ==
  ASSUME MountInv, NEW c \in Child, Queue(c) \/ Dma(c) \/ Session(c)
  PROVE  MountInv'
<1>1. PICK to \in {"dma", "session", "dispatch", "reset", "tell1"} :
        Goto(c, to) /\ (UNCHANGED faults \/ Fault)
  BY ShutdownSteps DEF Queue, Dma, Session, Succeed, FailTo
<1>2. /\ child[c].pc \in {"queue", "dma", "session"}
      /\ UNCHANGED <<machine, mnt>>
  BY DEF Queue, Dma, Session, At
<1>3. /\ dev'.owner = dev.owner /\ dev'.vector = dev.vector
      /\ dev' \in Devices
  BY DevType DEF Queue, Dma, Session, FailTo, Devices
<1>4. to \in Pcs /\ child[c].pc \in SetupPcs
  BY <1>2 DEF Pcs, SetupPcs, ShutdownPcs
<1> QED BY <1>1, <1>2, <1>3, <1>4, SetupGoesOn

\* The resource manager is set up.
LEMMA ServeKeeps == ASSUME MountInv, NEW c \in Child, Serve(c) PROVE MountInv'
<1>1. PICK pc \in {"dispatch", "path", "context"} :
        /\ At(c, pc)
        /\ (Succeed(c, ServeSteps[pc]) /\ UNCHANGED dev) \/ FailTo(c, "tell1")
  BY DEF Serve, ServeSteps
<1>2. PICK to \in {"path", "context", "tell0", "tell1"} :
        Goto(c, to) /\ (UNCHANGED faults \/ Fault) /\ UNCHANGED dev
  BY <1>1 DEF ServeSteps, Succeed, FailTo
<1>3. to \in Pcs /\ child[c].pc \in SetupPcs /\ UNCHANGED <<machine, mnt>>
  BY <1>1 DEF Pcs, SetupPcs, At
<1> QED BY <1>2, <1>3, DevType, SetupGoesOn

(***************************************************************************)
(* The byte, Shutdown and the end.                                         *)
(***************************************************************************)

\* The owner and every other child stay, and c takes hold of nothing.
LEMMA ChangeKeeps ==
  ASSUME MountInv, NEW c \in Child, NEW r \in ChildType,
         child' = [child EXCEPT ![c] = r], UNCHANGED machine,
         dev'.owner = dev.owner, dev'.vector \in {dev.vector, NoChild},
         r.pc \notin SetupPcs,
         r.mapped => child[c].mapped,
         r.irq # "none" => child[c].irq # "none",
         r.pc = "detach" => r.irq = "none" /\ dev'.vector # c,
         r.pc = "exit" => /\ ~r.mapped /\ r.irq = "none"
                          /\ dev.owner # c /\ dev.vector # c
  PROVE  Ownership'
<1>1. child'[c] = r /\ \A d \in Child \ {c} : child'[d] = child[d]
  BY DEF MountInv, TypesOf
<1>2. Transport' = Transport BY TransportStays
<1>3. Touches(c)' => Touches(c) BY <1>1 DEF Touches, SetupPcs
<1>4. ASSUME NEW d \in Child PROVE OwnsWhatItTouches(d)'
  <2>1. CASE d = c
    BY <2>1, <1>1, <1>3, ChildAssumption
       DEF MountInv, Ownership, OwnsWhatItTouches, HasNothing, SetupPcs
  <2>2. CASE d # c
    BY <2>2, <1>1, <1>2, ChildAssumption
       DEF MountInv, Ownership, OwnsWhatItTouches, HasNothing, Touches
  <2> QED BY <2>1, <2>2
<1> QED BY <1>4 DEF MountInv, Ownership

\* The byte for the parent; the pipe closes with it.
LEMMA TellKeeps ==
  ASSUME MountInv, NEW c \in Child, TellOk(c) \/ TellFail(c) PROVE MountInv'
<1>1. PICK byte \in {"0", "1"}, then \in {"serving", "reset"} :
        /\ byte = "0" <=> then = "serving"
        /\ child[c].pc \in {"tell0", "tell1"} /\ UNCHANGED <<machine, mnt, dev, faults>>
        /\ child' = [child EXCEPT ![c].pc = then, ![c].pipe = FALSE,
                       ![c].said = byte, ![c].served = then = "serving"]
  BY ShutdownSteps DEF TellOk, TellFail, Tell, At
<1> DEFINE r == [child[c] EXCEPT !.pc = then, !.pipe = FALSE, !.said = byte,
                                 !.served = then = "serving"]
<1>2. child[c] \in ChildType BY DEF MountInv, TypesOf
<1>3. r \in ChildType /\ r.pc = then /\ r.pipe = FALSE /\ r.said = byte
      /\ (r.served <=> then = "serving") /\ r.mapped = child[c].mapped
      /\ r.irq = child[c].irq
  BY <1>2 DEF ChildType, Pcs, ShutdownPcs
<1>4. child' = [child EXCEPT ![c] = r] BY <1>1, <1>2 DEF ChildType, MountInv, TypesOf
<1> HIDE DEF r
<1>5. child[c].pipe /\ mnt.child = c /\ mnt.pc = "wait"
  BY <1>1 DEF MountInv, StatusInv, PipeBeforeByte, PipeIsWaitedFor
<1>6. then \notin SetupPcs \cup {"tell0", "tell1"} BY DEF SetupPcs
<1>7. StatusInv'
  BY <1>1, <1>3, <1>4, <1>5, <1>6, ChangeKeepsStatus DEF MountInv
<1>8. Ownership' BY <1>1, <1>3, <1>4, <1>6, ChangeKeeps
<1>9. child' \in [Child -> ChildType] BY <1>3, <1>4 DEF MountInv, TypesOf
<1>10. TypesOf' BY <1>1, <1>9 DEF MountInv, TypesOf
<1> QED BY <1>7, <1>8, <1>10 DEF MountInv

\* The dispatch loop ends.
LEMMA StopServingKeeps ==
  ASSUME MountInv, NEW c \in Child, StopServing(c) PROVE MountInv'
<1> DEFINE r == [child[c] EXCEPT !.pc = "reset"]
<1>1. /\ child[c].pc = "serving" /\ UNCHANGED <<machine, mnt, dev>> /\ Fault
      /\ child' = [child EXCEPT ![c].pc = "reset"]
  BY ShutdownSteps DEF StopServing, At, FailTo, Goto
<1>2. child[c] \in ChildType BY DEF MountInv, TypesOf
<1>3. r \in ChildType /\ r.pc = "reset" /\ r.pipe = child[c].pipe
      /\ r.said = child[c].said /\ r.served = child[c].served
      /\ r.mapped = child[c].mapped /\ r.irq = child[c].irq
  BY <1>2 DEF ChildType, Pcs, ShutdownPcs
<1>4. child' = [child EXCEPT ![c] = r] BY <1>1
<1> HIDE DEF r
<1>5. faults' \in 0..MaxFaults /\ faults' # 0 BY <1>1, FaultCounts DEF MountInv
<1>6. r.pc \notin SetupPcs \cup {"tell0", "tell1"} BY <1>3 DEF SetupPcs
<1>7. StatusInv'
  <2>1. /\ PipeIsWaitedFor(c) /\ ByteIsTrue(c) /\ MountedServed
    BY DEF MountInv, StatusInv
  <2>2. /\ r.pipe => mnt.child = c /\ mnt.pc = "wait" /\ r.said = "nothing"
        /\ r.said = "0" => r.served
        /\ mnt.pc = "mounted" /\ mnt.child = c => r.said = "0"
    BY <1>3, <2>1 DEF PipeIsWaitedFor, ByteIsTrue, MountedServed
  <2> QED BY <1>1, <1>3, <1>4, <1>5, <1>6, <2>2, ChangeKeepsStatus DEF MountInv
<1>8. Ownership' BY <1>1, <1>3, <1>4, <1>6, ChangeKeeps
<1>9. TypesOf' BY <1>1, <1>3, <1>4, <1>5 DEF MountInv, TypesOf
<1> QED BY <1>7, <1>8, <1>9 DEF MountInv

\* A step of Shutdown gives up what it says it gives up.
LEMMA ShutdownKeeps ==
  ASSUME MountInv, NEW c \in Child, Shutdown(c) PROVE MountInv'
<1>1. PICK pc \in ShutdownPcs :
        LET to == AfterShutdown(c, pc) IN
        /\ At(c, pc) /\ UNCHANGED faults
        /\ dev' = CASE pc = "reset" /\ child[c].mapped ->
                          [dev EXCEPT !.driver = NoChild]
                    [] pc = "msixOff" ->
                          [dev EXCEPT !.msix = @ /\ child[c].irq # "msix",
                                      !.vector = GivenBack(c)]
                    [] pc = "detach" /\ dev.owner = c ->
                          [dev EXCEPT !.owner = NoChild]
                    [] OTHER -> dev
        /\ child' = [child EXCEPT ![c].pc = to, ![c].mapped = Unmapped(c, to),
                                  ![c].irq = IF pc = "msixOff" THEN "none" ELSE @]
  BY DEF Shutdown
<1> DEFINE to == AfterShutdown(c, pc)
           irq == IF pc = "msixOff" THEN "none" ELSE child[c].irq
           r == [child[c] EXCEPT !.pc = to, !.mapped = Unmapped(c, to), !.irq = irq]
<1>2. child[c] \in ChildType BY DEF MountInv, TypesOf
<1>3. /\ to \in {"msixOff", "detach", "tell1", "exit"}
      /\ to = "tell1" => child[c].pipe
      /\ to = "detach" <=> pc = "msixOff"
      /\ pc = "detach" <=> to \in {"tell1", "exit"}
  <2>1. CASE pc = "reset" BY <2>1, ShutdownGoes
  <2>2. CASE pc = "msixOff" BY <2>2, ShutdownGoes
  <2>3. CASE pc = "detach" BY <2>3, ShutdownGoes
  <2> QED BY <2>1, <2>2, <2>3 DEF ShutdownPcs
<1>4. Unmapped(c, to) \in BOOLEAN
      /\ (Unmapped(c, to) => child[c].mapped /\ to \notin {"tell1", "exit"})
  BY DEF Unmapped
<1>5. /\ child[c].pc = pc /\ UNCHANGED <<machine, mnt, faults>>
      /\ child' = [child EXCEPT ![c] = r]
  BY <1>1, <1>2 DEF At, ChildType, MountInv, TypesOf
<1>6. irq \in {"none", "msix", "intx"} /\ to \in Pcs
      /\ (irq # "none" => child[c].irq # "none")
  BY <1>2, <1>3 DEF ChildType, Pcs, ShutdownPcs
<1>7. /\ r.pc = to /\ r.pipe = child[c].pipe /\ r.said = child[c].said
      /\ r.served = child[c].served /\ r.irq = irq
      /\ r.mapped = Unmapped(c, to)
  BY <1>2 DEF ChildType
<1>8. r \in ChildType BY <1>2, <1>4, <1>6 DEF ChildType
<1>9. /\ dev' \in Devices /\ dev'.vector \in {dev.vector, NoChild}
      /\ \/ dev'.owner = dev.owner /\ (pc = "detach" => dev.owner # c)
         \/ pc = "detach" /\ dev.owner = c /\ dev'.owner = NoChild
      /\ pc = "msixOff" => dev'.vector # c
      /\ pc # "msixOff" => dev'.vector = dev.vector
  BY <1>1, DevType, GivenBackVector DEF Devices
<1>10. pc # "serving" /\ to # "serving" /\ to \notin SetupPcs /\ to # "tell0"
  BY <1>3 DEF ShutdownPcs, SetupPcs
<1>11. irq = "none" \/ pc # "msixOff" OBVIOUS
<1>12. pc = "detach" => irq = "none" /\ dev.vector # c
  BY <1>2, <1>5 DEF MountInv, Ownership, OwnsWhatItTouches
<1> HIDE DEF r, to, irq
<1>13. StatusInv'
  BY <1>3, <1>5, <1>7, <1>8, <1>10, MoveKeepsStatus DEF MountInv
<1>14. TypesOf' BY <1>5, <1>8, <1>9 DEF MountInv, TypesOf
<1>15. CASE dev'.owner = dev.owner /\ (pc = "detach" => dev.owner # c)
  <2>1. /\ r.pc = "detach" => r.irq = "none" /\ dev'.vector # c
        /\ r.pc = "exit" => /\ ~r.mapped /\ r.irq = "none"
                            /\ dev.owner # c /\ dev.vector # c
    BY <1>3, <1>4, <1>7, <1>9, <1>11, <1>12, <1>15
  <2>2. r.pc \notin SetupPcs /\ (r.mapped => child[c].mapped)
        /\ (r.irq # "none" => child[c].irq # "none")
    BY <1>4, <1>6, <1>7, <1>10
  <2>3. Ownership' BY <1>5, <1>8, <1>9, <1>15, <2>1, <2>2, ChangeKeeps
  <2> QED BY <2>3, <1>13, <1>14 DEF MountInv
<1>16. CASE pc = "detach" /\ dev.owner = c /\ dev'.owner = NoChild
  <2>1. child'[c] = r /\ \A d \in Child \ {c} : child'[d] = child[d]
    BY <1>5 DEF MountInv, TypesOf
  <2>2. ~Touches(c)' /\ dev'.vector = dev.vector /\ HasNothing(c)'
    BY <1>3, <1>4, <1>7, <1>9, <1>12, <1>16, <2>1, ChildAssumption
       DEF Touches, HasNothing
  <2>3. Transport' = Transport BY <1>5, TransportStays
  <2>4. ASSUME NEW d \in Child PROVE OwnsWhatItTouches(d)'
    <3>1. CASE d = c
      BY <3>1, <1>3, <1>7, <1>12, <1>16, <2>1, <2>2 DEF OwnsWhatItTouches
    <3>2. CASE d # c
      BY <3>2, <1>5, <1>16, <2>1, <2>2, <2>3, ChildAssumption
         DEF MountInv, Ownership, OwnsWhatItTouches, HasNothing, Touches
    <3> QED BY <3>1, <3>2
  <2>5. Ownership' BY <2>4, <1>16 DEF Ownership
  <2> QED BY <2>5, <1>13, <1>14 DEF MountInv
<1> QED BY <1>9, <1>15, <1>16

\* A process that ends releases what it owned.
LEMMA EndKeeps ==
  ASSUME MountInv, NEW c \in Child, End(c),
         Fault \/ (UNCHANGED faults /\ child[c].pc = "exit")
  PROVE  MountInv'
<1> DEFINE r == [Gone EXCEPT !.said = child[c].said, !.served = child[c].served]
<1>1. child[c] \in ChildType BY DEF MountInv, TypesOf
<1>2. /\ r \in ChildType /\ r.pc = "none" /\ r.pipe = FALSE
      /\ r.said = child[c].said /\ (r.served <=> child[c].served)
      /\ r.mapped = FALSE /\ r.irq = "none"
  BY <1>1 DEF Gone, Fresh, ChildType, Pcs
<1>3. /\ child' = [child EXCEPT ![c] = r] /\ UNCHANGED <<machine, mnt>>
      /\ dev' = [dev EXCEPT !.owner = IF @ = c THEN NoChild ELSE @,
                            !.vector = GivenBack(c)]
  BY DEF End
<1> HIDE DEF r
<1>4. faults' \in 0..MaxFaults /\ (faults' = 0 => faults = 0 /\ child[c].pc = "exit")
  BY FaultCounts DEF MountInv, TypesOf
<1>5. r.pc \notin SetupPcs \cup {"tell0", "tell1"} /\ r.pc # "serving"
  BY <1>2 DEF SetupPcs
<1>6. StatusInv'
  <2>1. /\ PipeIsWaitedFor(c) /\ ByteIsTrue(c) /\ MountedServed
        /\ ServesUnlessFaulty(c)
    BY DEF MountInv, StatusInv
  <2>2. /\ r.said = "0" => r.served
        /\ mnt.pc = "mounted" /\ mnt.child = c => r.said = "0"
        /\ r.said = "0" /\ faults' = 0 => r.pc = "serving"
    BY <1>2, <1>4, <2>1 DEF ByteIsTrue, MountedServed, ServesUnlessFaulty
  <2> QED BY <1>2, <1>3, <1>4, <1>5, <2>2, ChangeKeepsStatus DEF MountInv
<1>7. /\ dev' \in Devices /\ dev'.vector = GivenBack(c)
      /\ dev'.owner = IF dev.owner = c THEN NoChild ELSE dev.owner
  BY <1>3, DevType, GivenBackVector DEF Devices
<1>8. TypesOf' BY <1>2, <1>3, <1>4, <1>7 DEF MountInv, TypesOf
<1>9. child'[c] = r /\ \A d \in Child \ {c} : child'[d] = child[d]
  BY <1>3 DEF MountInv, TypesOf
<1>10. Transport' = Transport BY <1>3, TransportStays
<1>11. ASSUME NEW d \in Child PROVE OwnsWhatItTouches(d)'
  <2>1. CASE d = c
    BY <2>1, <1>2, <1>7, <1>9, GivenBackVector
       DEF OwnsWhatItTouches, HasNothing, Touches
  <2>2. CASE d # c
    BY <2>2, <1>3, <1>7, <1>9, <1>10, GivenBackVector, ChildAssumption
       DEF MountInv, Ownership, OwnsWhatItTouches, HasNothing, Touches
  <2> QED BY <2>1, <2>2
<1>12. Ownership' BY <1>3, <1>7, <1>11 DEF MountInv, Ownership
<1> QED BY <1>6, <1>8, <1>12 DEF MountInv

\* Every step of a child keeps the invariant.
LEMMA ChildStepKeeps ==
  ASSUME MountInv, NEW c \in Child, ChildStep(c) \/ Killed(c) PROVE MountInv'
<1>1. CASE Exit(c) BY <1>1, EndKeeps DEF Exit, At
<1>2. CASE Killed(c) BY <1>2, EndKeeps DEF Killed
<1> QED BY <1>1, <1>2, StartKeeps, MapKeeps, AttachKeeps, BusKeeps, MsixKeeps,
           MsixFallbackKeeps, FeaturesKeeps, LaterSetupKeeps, ServeKeeps,
           TellKeeps, StopServingKeeps, ShutdownKeeps
        DEF ChildStep

(***************************************************************************)
(* The loop and the parent.                                                *)
(***************************************************************************)

\* A new attempt begins when nobody has a pipe.
LEMMA ForkKeeps == ASSUME MountInv, NEW c \in Child, Fork(c) PROVE MountInv'
<1>1. /\ mnt.pc = "retry" /\ mnt' = [pc |-> "wait", child |-> c]
      /\ child' = [child EXCEPT ![c] = Fresh] /\ UNCHANGED <<machine, dev, faults>>
  BY DEF Fork
<1>2. /\ Fresh \in ChildType /\ Fresh.pc = "start" /\ Fresh.pipe = TRUE
      /\ Fresh.said = "nothing" /\ Fresh.mapped = FALSE /\ Fresh.irq = "none"
  BY DEF Fresh, ChildType, Pcs, SetupPcs
<1>3. child'[c] = Fresh /\ \A d \in Child \ {c} : child'[d] = child[d]
  BY <1>1 DEF MountInv, TypesOf
<1>4. TypesOf' BY <1>1, <1>2 DEF MountInv, TypesOf
<1>5. ASSUME NEW d \in Child, d # c
      PROVE  ~child[d].pipe /\ child[d].pc # "serving"
  BY <1>1 DEF MountInv, StatusInv, PipeIsWaitedFor, ByteIsTrue
<1>6. ASSUME NEW d \in Child
      PROVE  /\ PipeIsWaitedFor(d)' /\ PipeBeforeByte(d)'
             /\ ByteIsTrue(d)' /\ ServesUnlessFaulty(d)'
  <2>1. CASE d = c
    BY <2>1, <1>1, <1>2, <1>3
       DEF PipeIsWaitedFor, PipeBeforeByte, ByteIsTrue, ServesUnlessFaulty
  <2>2. CASE d # c
    BY <2>2, <1>1, <1>3, <1>5
       DEF MountInv, StatusInv, PipeIsWaitedFor, PipeBeforeByte, ByteIsTrue,
           ServesUnlessFaulty
  <2> QED BY <2>1, <2>2
<1>7. StatusInv' BY <1>1, <1>6 DEF StatusInv, MountedServed
<1>8. Transport' = Transport BY <1>1, TransportStays
<1>9. ASSUME NEW d \in Child PROVE OwnsWhatItTouches(d)'
  <2>1. CASE d = c
    BY <2>1, <1>1, <1>2, <1>3 DEF MountInv, Ownership, OwnsWhatItTouches, Touches
  <2>2. CASE d # c
    BY <2>2, <1>1, <1>3, <1>8
       DEF MountInv, Ownership, OwnsWhatItTouches, HasNothing, Touches
  <2> QED BY <2>1, <2>2
<1>10. Ownership' BY <1>1, <1>9 DEF MountInv, Ownership
<1> QED BY <1>4, <1>7, <1>10 DEF MountInv

\* The parent believes the byte, or the silence of a closed pipe.
LEMMA ParentReadsKeeps == ASSUME MountInv, ParentReads PROVE MountInv'
<1> DEFINE c == mnt.child
<1>1. PICK pc \in {"mounted", "retry"} :
        /\ mnt.pc = "wait" /\ mnt' = [mnt EXCEPT !.pc = pc]
        /\ pc = "mounted" <=> child[c].said = "0"
        /\ child[c].said # "nothing" \/ ~child[c].pipe
        /\ UNCHANGED <<machine, child, dev, faults>>
  BY DEF ParentReads, NoWriters, StatusOfNothing
<1>2. mnt'.pc = pc /\ mnt'.child = c /\ c \in Child
  BY <1>1 DEF MountInv, StatusInv, TypesOf
<1>3. TypesOf' BY <1>1 DEF MountInv, TypesOf
<1>4. ASSUME NEW d \in Child
      PROVE  /\ PipeIsWaitedFor(d)' /\ PipeBeforeByte(d)'
             /\ ByteIsTrue(d)' /\ ServesUnlessFaulty(d)'
  <2>1. /\ PipeIsWaitedFor(d) /\ PipeBeforeByte(d) /\ ByteIsTrue(d)
        /\ ServesUnlessFaulty(d)
    BY DEF MountInv, StatusInv
  <2>2. ~child[d].pipe BY <1>1, <2>1 DEF PipeIsWaitedFor
  <2>3. PipeIsWaitedFor(d)' BY <1>1, <2>2 DEF PipeIsWaitedFor
  <2>4. PipeBeforeByte(d)' BY <1>1, <2>1 DEF PipeBeforeByte
  <2>5. ByteIsTrue(d)' BY <1>1, <1>2, <2>1 DEF ByteIsTrue
  <2>6. ServesUnlessFaulty(d)' BY <1>1, <2>1 DEF ServesUnlessFaulty
  <2> QED BY <2>3, <2>4, <2>5, <2>6
<1>5. MountedServed'
  BY <1>1, <1>2 DEF MountInv, StatusInv, MountedServed, ByteIsTrue
<1>6. StatusInv' BY <1>1, <1>2, <1>4, <1>5 DEF StatusInv
<1>7. Transport' = Transport BY <1>1, TransportStays
<1>8. Ownership'
  BY <1>1, <1>7 DEF MountInv, Ownership, OwnsWhatItTouches, HasNothing, Touches
<1> QED BY <1>3, <1>6, <1>8 DEF MountInv

\* Steps of others may only fail.
LEMMA ElsewhereKeeps ==
  ASSUME MountInv, UNCHANGED <<machine, mnt, child, dev>>,
         UNCHANGED faults \/ Fault
  PROVE  MountInv'
<1>1. faults' \in 0..MaxFaults /\ (faults' = 0 => faults = 0)
  BY FaultCounts DEF MountInv, TypesOf
<1>2. TypesOf' BY <1>1 DEF MountInv, TypesOf
<1>3. StatusInv'
  BY <1>1 DEF MountInv, StatusInv, PipeIsWaitedFor, PipeBeforeByte, ByteIsTrue,
              ServesUnlessFaulty, MountedServed
<1>4. Transport' = Transport BY TransportStays
<1>5. Ownership'
  BY <1>4 DEF MountInv, Ownership, OwnsWhatItTouches, HasNothing, Touches
<1> QED BY <1>2, <1>3, <1>5 DEF MountInv

\* Every step of the mount keeps the invariant.
LEMMA MountStepKeeps == ASSUME MountInv, [MountNext]_mountVars PROVE MountInv'
<1>1. CASE UNCHANGED mountVars BY <1>1, ElsewhereKeeps DEF mountVars
<1>2. CASE MountNext
  BY <1>2, ParentReadsKeeps, ForkKeeps, ChildStepKeeps DEF MountNext
<1> QED BY <1>1, <1>2

\* It holds before the first attempt.
LEMMA MountInitInv == ASSUME MountInit PROVE MountInv
<1>1. /\ Gone \in ChildType /\ Gone.pc = "none" /\ Gone.pipe = FALSE
      /\ Gone.said = "nothing" /\ Gone.mapped = FALSE /\ Gone.irq = "none"
  BY DEF Gone, Fresh, ChildType, Pcs
<1>2. TypesOf BY <1>1, FaultsAssumption DEF MountInit, TypesOf, Devices
<1>3. \A c \in Child : child[c] = Gone BY DEF MountInit
<1>4. StatusInv
  BY <1>1, <1>3 DEF MountInit, StatusInv, PipeIsWaitedFor, PipeBeforeByte,
       ByteIsTrue, ServesUnlessFaulty, MountedServed, SetupPcs
<1>5. Ownership
  BY <1>1, <1>3, ChildAssumption
     DEF MountInit, Ownership, OwnsWhatItTouches, HasNothing, Touches
<1> QED BY <1>2, <1>4, <1>5 DEF MountInv

\* It says that the types are right and the mount's word is true.
LEMMA MountInvImplies == ASSUME MountInv PROVE MountTypeOK /\ MountedWhenTold
<1>1. MountTypeOK
  <2>1. ASSUME NEW c \in Child
        PROVE  /\ child[c].pc \in Pcs
               /\ child[c].irq \in {"none", "msix", "intx"}
               /\ child[c].said \in {"nothing", "0", "1"}
               /\ child[c].pipe => child[c].said = "nothing"
    BY DEF MountInv, TypesOf, ChildType, StatusInv, PipeIsWaitedFor
  <2> QED BY <2>1 DEF MountInv, TypesOf, MountTypeOK, Devices
<1>2. MountedWhenTold
  BY DEF MountInv, StatusInv, MountedServed, ByteIsTrue, MountedWhenTold
<1> QED BY <1>1, <1>2

(***************************************************************************)
(* Whoever changes the device owns it, or nobody does.                     *)
(***************************************************************************)

\* A child that changes the device owns it, or nobody does.
LEMMA ChildStepOwns ==
  ASSUME MountInv, NEW c \in Child, ChildStep(c) \/ Killed(c)
  PROVE  dev' = dev \/ dev.owner = NoChild \/ (dev.owner = c /\ child'[c] # child[c])
<1>1. child[c] \in ChildType /\ child \in [Child -> ChildType]
  BY DEF MountInv, TypesOf
<1>2. CASE machine = "arm64" BY <1>2 DEF MountInv, Ownership
<1>3. ASSUME Touches(c), child'[c].pc # child[c].pc
      PROVE  dev.owner = NoChild \/ (dev.owner = c /\ child'[c] # child[c])
  BY <1>2, <1>3 DEF MountInv, TypesOf, Ownership, OwnsWhatItTouches
<1>4. ASSUME NEW pc, Goto(c, pc) PROVE child'[c].pc = pc
  BY <1>1, <1>4 DEF Goto, ChildType
<1>5. CASE Start(c) \/ Map(c) \/ Dma(c) \/ Serve(c) \/ TellOk(c)
           \/ TellFail(c) \/ StopServing(c)
  BY <1>5 DEF Start, Map, Dma, Serve, TellOk, TellFail, StopServing, Tell, FailTo
<1>6. CASE Attach(c) BY <1>6 DEF Attach, FailTo
<1>7. CASE Bus(c) \/ Msix(c) \/ MsixFallback(c)
  <2>1. CASE Bus(c)
    <3>1. child[c].pc = "bus" /\ child'[c].pc \in {"msix", "tell1"}
      BY <2>1, <1>1 DEF Bus, At, ChildType
    <3> QED BY <3>1, <1>3 DEF Touches
  <2>2. CASE Msix(c)
    <3>1. child[c].pc = "msix" /\ child'[c].pc = "features"
      BY <2>2, <1>4 DEF Msix, At, Succeed
    <3> QED BY <3>1, <1>3 DEF Touches
  <2>3. CASE MsixFallback(c)
    <3>1. child[c].pc = "msix" /\ child'[c].pc \in {"features", "tell1"}
      BY <2>3, <1>1 DEF MsixFallback, At, ChildType
    <3> QED BY <3>1, <1>3 DEF Touches
  <2> QED BY <1>7, <2>1, <2>2, <2>3
<1>8. CASE Features(c)
  <2>1. child[c].pc = "features" /\ child'[c].pc \in {"queue", "reset"}
    BY <1>8, <1>4, ShutdownSteps DEF Features, At, Succeed
  <2> QED BY <2>1, <1>3 DEF Touches
<1>9. CASE Queue(c)
  <2>1. dev' = dev \/ (child[c].pc = "queue" /\ child'[c].pc = "dma")
    BY <1>9, <1>4 DEF Queue, At, Succeed, FailTo
  <2> QED BY <2>1, <1>3 DEF Touches
<1>10. CASE Session(c)
  <2>1. dev' = dev \/ (child[c].pc = "session" /\ child'[c].pc = "dispatch")
    BY <1>10, <1>4 DEF Session, At, Succeed, FailTo
  <2> QED BY <2>1, <1>3 DEF Touches
<1>11. CASE Shutdown(c)
  <2>1. PICK pc \in ShutdownPcs :
          /\ child[c].pc = pc /\ child'[c].pc = AfterShutdown(c, pc)
          /\ \/ dev' = dev
             \/ pc = "reset" /\ child[c].mapped
             \/ pc = "msixOff" /\ (child[c].irq = "msix" \/ dev.owner = c)
             \/ pc = "detach" /\ dev.owner = c
    <3>1. PICK pc \in ShutdownPcs :
            /\ child[c].pc = pc /\ child'[c].pc = AfterShutdown(c, pc)
            /\ dev' = CASE pc = "reset" /\ child[c].mapped ->
                              [dev EXCEPT !.driver = NoChild]
                        [] pc = "msixOff" ->
                              [dev EXCEPT !.msix = @ /\ child[c].irq # "msix",
                                          !.vector = GivenBack(c)]
                        [] pc = "detach" /\ dev.owner = c ->
                              [dev EXCEPT !.owner = NoChild]
                        [] OTHER -> dev
      BY <1>1, <1>11 DEF Shutdown, At, ChildType
    <3>2. CASE pc = "msixOff" /\ child[c].irq # "msix" /\ dev.owner # c
      <4>1. dev.vector # c BY <3>2 DEF MountInv, Ownership, OwnsWhatItTouches
      <4>2. dev' = [dev EXCEPT !.msix = dev.msix, !.vector = dev.vector]
        BY <3>1, <3>2, <4>1, DevType DEF GivenBack, Devices
      <4>3. dev' = dev BY <4>2, DevType DEF Devices
      <4> QED BY <3>1, <4>3
    <3> QED BY <3>1, <3>2
  <2>2. child'[c].pc # child[c].pc
    <3>1. CASE pc = "reset" BY <3>1, <2>1, ShutdownGoes
    <3>2. CASE pc = "msixOff" BY <3>2, <2>1, ShutdownGoes
    <3>3. CASE pc = "detach" BY <3>3, <2>1, ShutdownGoes
    <3> QED BY <3>1, <3>2, <3>3 DEF ShutdownPcs
  <2> QED BY <2>1, <2>2, <1>3 DEF Touches
<1>12. CASE Exit(c) \/ Killed(c)
  <2>1. End(c) /\ child[c].pc # "none" BY <1>12 DEF Exit, Killed, At
  <2>2. child'[c].pc = "none" BY <1>1, <2>1 DEF End, Gone, Fresh, ChildType
  <2>3. dev.owner # c => dev.vector # c
    BY DEF MountInv, Ownership, OwnsWhatItTouches
  <2>4. dev.owner # c => dev' = dev
    BY <2>1, <2>3, DevType DEF End, GivenBack, Devices
  <2> QED BY <2>1, <2>2, <2>4
<1> QED BY <1>5, <1>6, <1>7, <1>8, <1>9, <1>10, <1>11, <1>12 DEF ChildStep

\* What OwnersDeviceStays says of a step.
LEMMA MountStepOwns ==
  ASSUME MountInv, MountNext, NEW c \in Child, dev.owner = c, child'[c] = child[c]
  PROVE  dev' = dev
<1>1. ASSUME NEW d \in Child, ChildStep(d) \/ Killed(d) PROVE dev' = dev
  BY <1>1, ChildStepOwns, ChildAssumption
<1> QED BY <1>1 DEF MountNext, ParentReads, Fork

-----------------------------------------------------------------------------

\* The mount loop, the parents and their children keep the invariant.
THEOREM MountInvariant == MountSpec => []MountInv
<1>1. MountInit => MountInv BY MountInitInv
<1>2. MountInv /\ [MountNext]_mountVars => MountInv' BY MountStepKeeps
<1> QED BY <1>1, <1>2, PTL DEF MountSpec

\* A child about to exit has nothing, and a vector's holder the device.
AllGivenBack == \A c \in Child : /\ child[c].pc = "exit" => HasNothing(c)
                                 /\ dev.vector = c => dev.owner = c

\* Wherever an attempt fails, in DiscoverDevice, which does not shut down, in
\* InitializeDevice, which does, or later, a child that is about to exit has
\* given back all it took of the bus: its registers, its interrupt, the PCI
\* device and the device's vector; and at no time has one the vector of a
\* device it does not own.
THEOREM AttemptGivesAllBack == MountSpec => []AllGivenBack
<1>1. MountInv => AllGivenBack
  BY DEF MountInv, Ownership, OwnsWhatItTouches, AllGivenBack
<1> QED BY <1>1, MountInvariant, PTL

-----------------------------------------------------------------------------
(* The test run.                                                           *)

HostPcs  == {"setup", "binary", "env", "runfiles", "qemu", "extract", "exit"}
GuestPcs == {"boot", "prepare", "test", "returncode", "coverage", "shutdown",
             "down"}

\* The types of the variables as sets of records, for the provers.
RunTypes ==
    /\ host \in [pc : HostPcs, reuse : BOOLEAN, args : BOOLEAN,
                 env : {"none", "valid", "invalid"}, manifest : BOOLEAN,
                 exit : {"none", "0", "1", "2", "127"}]
    /\ share \in [Entries -> Content]
    /\ results \in [rc : {"none", "empty", "0", "1", "127"},
                    cov : {"none", "torn", "whole"}]
    /\ guest \in [pc : GuestPcs, has : [Entries -> Content],
                  rc : {"none", "0", "1", "127"}]

\* What the host has written, by the place of its script.
Given(e) ==
    \/ e \in {"cc_test_qnx", "filters"} /\ host.pc \in {"env", "runfiles", "qemu"}
    \/ e = "extra_args" /\ host.args /\ host.pc \in {"env", "runfiles", "qemu"}
    \/ e = "env" /\ host.env = "valid" /\ host.pc \in {"runfiles", "qemu"}
    \/ e \in Dirs /\ host.manifest /\ host.pc = "qemu"
ShareIsThisRuns ==
    host.pc \in {"binary", "env", "runfiles", "qemu"} =>
        \A e \in Entries : share[e] = IF Given(e) THEN "this" ELSE "none"

\* Until QEMU runs there is no guest and there are no results.
NothingBeforeQemu ==
    /\ host.pc \in {"setup", "binary", "env", "runfiles"} => guest.pc = "boot"
    /\ host.pc \in {"binary", "env", "runfiles"} => results = NoResults
    /\ host.pc \in {"runfiles", "qemu", "extract"} => host.env # "invalid"
    /\ host.pc = "extract" => guest.pc = "down"

\* The return code in the shared directory is this test's.
ReturnCodeIsTrue ==
    host.pc \in {"qemu", "extract"} =>
        /\ results.rc \in {"none", "empty", guest.rc}
        /\ guest.pc \in {"boot", "prepare", "test", "returncode"} =>
               results.rc = "none"

\* When nothing fails the guest gets on with its mount in place, and its
\* results reach the directory.
UndisturbedRun ==
    /\ guest.pc \notin {"boot", "down"} => mnt.pc = "mounted"
    /\ guest.pc = "returncode" => guest.rc # "none"
    /\ faults = 0 /\ host.pc \in {"qemu", "extract"} =>
        /\ results.cov # "torn"
        /\ guest.pc \in {"coverage", "shutdown", "down"} =>
               results.rc = guest.rc /\ guest.rc # "none"

RunInv == /\ MountInv /\ RunTypes /\ ShareIsThisRuns /\ NothingBeforeQemu
          /\ ReturnCodeIsTrue /\ UndisturbedRun
          /\ GuestGetsThisRun /\ PassMeansPassed

-----------------------------------------------------------------------------
(* The mount.                                                              *)

\* Without failures the daemon of a mount that succeeded serves.
LEMMA MountedMeansServing ==
  ASSUME MountInv, mnt.pc = "mounted", faults = 0 PROVE Mounted
  BY DEF MountInv, StatusInv, MountedServed, ServesUnlessFaulty, Mounted

\* A mount that succeeded is not tried again.
LEMMA MountedStays ==
  ASSUME MountNext, mnt.pc = "mounted" PROVE mnt' = mnt
<1>1. ASSUME NEW c \in Child, ChildStep(c) \/ Killed(c) PROVE mnt' = mnt
  BY <1>1 DEF ChildStep, Killed, End, Exit, Start, Map, Attach, Bus, Msix,
       MsixFallback, Features, Queue, Dma, Session, Serve, TellOk, TellFail,
       Tell, StopServing, Shutdown, At
<1> QED BY <1>1 DEF MountNext, ParentReads, Fork

\* Failures are counted and never taken back.
LEMMA FaultsGrow ==
  ASSUME MountInv, MountNext, faults' = 0 PROVE faults = 0
<1>1. MountInv' BY MountStepKeeps
<1>2. faults \in Nat BY FaultsAssumption DEF MountInv, TypesOf
<1>3. UNCHANGED faults \/ Fault
  BY DEF MountNext, ParentReads, Fork, ChildStep, Killed, Exit, Start, Map,
       Attach, Bus, Msix, MsixFallback, Features, Queue, Dma, Session, Serve,
       TellOk, TellFail, Tell, StopServing, Shutdown, Succeed, FailTo
<1> QED BY <1>2, <1>3 DEF Fault

\* The steps of the mount while QEMU runs.
LEMMA InMountKeeps == ASSUME RunInv, InMount(MountNext) PROVE RunInv'
<1>1. MountNext /\ UNCHANGED <<host, share, results, guest>> /\ host.pc = "qemu"
  BY DEF InMount, Booted, runVars
<1>2. MountInv /\ MountInv' BY <1>1, MountStepKeeps DEF RunInv
<1>3. faults' = 0 => faults = 0 BY <1>1, <1>2, FaultsGrow
<1>4. mnt.pc = "mounted" => mnt'.pc = "mounted" BY <1>1, MountedStays
<1>5. RunTypes' /\ ShareIsThisRuns' /\ NothingBeforeQemu' /\ ReturnCodeIsTrue'
  BY <1>1 DEF RunInv, RunTypes, ShareIsThisRuns, Given, NothingBeforeQemu,
              ReturnCodeIsTrue
<1>6. UndisturbedRun' BY <1>1, <1>3, <1>4 DEF RunInv, UndisturbedRun
<1>7. GuestGetsThisRun' BY <1>1, <1>3 DEF RunInv, GuestGetsThisRun, Asked
<1>8. PassMeansPassed' BY <1>1 DEF RunInv, PassMeansPassed, NothingBeforeQemu
<1> QED BY <1>2, <1>5, <1>6, <1>7, <1>8 DEF RunInv

-----------------------------------------------------------------------------
(* The host.                                                               *)

\* The host's steps leave the guest and the mount alone.
LEMMA HostLeaves ==
  ASSUME RunInv, UNCHANGED <<mountVars, guest>>
  PROVE  /\ MountInv'
         /\ guest.pc \notin {"boot", "down"} => mnt'.pc = "mounted"
  BY ElsewhereKeeps DEF mountVars, RunInv, UndisturbedRun

\* What the guest has is judged by what was asked for, which stays.
LEMMA GuestHasStays ==
  ASSUME RunInv, UNCHANGED guest, faults' = 0 => faults = 0,
         host'.args = host.args, host'.env = host.env,
         host'.manifest = host.manifest
  PROVE  GuestGetsThisRun'
  BY DEF RunInv, GuestGetsThisRun, Asked

\* The host has not started QEMU: the guest is not there.
LEMMA SetupFsdevKeeps == ASSUME RunInv, SetupFsdev PROVE RunInv'
<1>1. /\ host.pc = "setup" /\ host' = [host EXCEPT !.pc = "binary"]
      /\ share' = [e \in Entries |-> "none"] /\ results' = NoResults
      /\ UNCHANGED <<mountVars, guest>> /\ guest.pc = "boot"
  BY DEF SetupFsdev, HostAt, Removed, RunInv, NothingBeforeQemu
<1>2. /\ host'.pc = "binary" /\ host'.args = host.args /\ host'.env = host.env
      /\ host'.manifest = host.manifest
  BY <1>1 DEF RunInv, RunTypes
<1>3. MountInv' BY <1>1, HostLeaves
<1>4. RunTypes'
  BY <1>1 DEF RunInv, RunTypes, HostPcs, NoResults, Content
<1>5. ShareIsThisRuns' BY <1>1, <1>2 DEF ShareIsThisRuns, Given, Dirs
<1>6. NothingBeforeQemu' /\ ReturnCodeIsTrue'
  BY <1>1, <1>2 DEF NothingBeforeQemu, ReturnCodeIsTrue
<1>7. UndisturbedRun' /\ PassMeansPassed'
  BY <1>1, <1>2 DEF UndisturbedRun, PassMeansPassed
<1>8. GuestGetsThisRun' BY <1>1, <1>2, GuestHasStays DEF mountVars
<1> QED BY <1>3, <1>4, <1>5, <1>6, <1>7, <1>8 DEF RunInv

\* A step of the host that fills the directory and goes on.
LEMMA FillKeeps ==
  ASSUME RunInv, NEW to \in {"env", "runfiles", "qemu"},
         host.pc \in {"binary", "env", "runfiles"},
         host' = [host EXCEPT !.pc = to],
         UNCHANGED <<mountVars, guest, results>>,
         share' \in [Entries -> Content], ShareIsThisRuns',
         to \in {"runfiles", "qemu"} => host.env # "invalid"
  PROVE  RunInv'
<1>1. /\ host'.pc = to /\ host'.args = host.args /\ host'.env = host.env
      /\ host'.manifest = host.manifest
  BY DEF RunInv, RunTypes
<1>2. guest.pc = "boot" /\ results = NoResults BY DEF RunInv, NothingBeforeQemu
<1>3. MountInv' BY HostLeaves
<1>4. RunTypes' BY DEF RunInv, RunTypes, HostPcs
<1>5. NothingBeforeQemu' BY <1>1, <1>2 DEF NothingBeforeQemu
<1>6. ReturnCodeIsTrue' BY <1>2 DEF ReturnCodeIsTrue, NoResults
<1>7. UndisturbedRun' BY <1>2 DEF UndisturbedRun, NoResults
<1>8. PassMeansPassed' BY <1>1 DEF PassMeansPassed
<1>9. GuestGetsThisRun' BY <1>1, GuestHasStays DEF mountVars
<1> QED BY <1>3, <1>4, <1>5, <1>6, <1>7, <1>8, <1>9 DEF RunInv

\* What is written now is this run's, where nothing was.
LEMMA FillsWithThis ==
  ASSUME RunInv, NEW es, Fill(es),
         \A e \in es \cap Dirs : share[e] = "none"
  PROVE  /\ share' = [e \in Entries |-> IF e \in es THEN "this" ELSE share[e]]
         /\ share' \in [Entries -> Content]
  BY DEF Fill, Written, RunInv, RunTypes, Content

\* The binary, its filters and its arguments.
LEMMA WriteTestKeeps == ASSUME RunInv, WriteTest PROVE RunInv'
<1> DEFINE es == {"cc_test_qnx", "filters"}
                    \cup (IF host.args THEN {"extra_args"} ELSE {})
<1>1. /\ host.pc = "binary" /\ host' = [host EXCEPT !.pc = "env"] /\ Fill(es)
      /\ UNCHANGED <<mountVars, guest, results>>
  BY DEF WriteTest, HostAt
<1>2. host'.pc = "env" /\ host'.args = host.args BY <1>1 DEF RunInv, RunTypes
<1>3. \A e \in Entries : share[e] = "none"
  BY <1>1 DEF RunInv, ShareIsThisRuns, Given
<1>4. /\ share' = [e \in Entries |-> IF e \in es THEN "this" ELSE share[e]]
      /\ share' \in [Entries -> Content]
  <2>1. \A e \in es \cap Dirs : share[e] = "none" BY DEF Dirs
  <2> HIDE DEF es
  <2> QED BY <1>1, <2>1, FillsWithThis
<1>5. ShareIsThisRuns' BY <1>2, <1>3, <1>4 DEF ShareIsThisRuns, Given, Dirs
<1> QED BY <1>1, <1>4, <1>5, FillKeeps

\* The forwarded environment, or the end of the script.
LEMMA WriteEnvKeeps ==
  ASSUME RunInv, WriteEnv, host.env # "invalid" PROVE RunInv'
<1>1. /\ host.pc = "env" /\ host' = [host EXCEPT !.pc = "runfiles"]
      /\ share' = [share EXCEPT !["env"] =
                      IF host.env = "valid" THEN "this" ELSE "none"]
      /\ UNCHANGED <<mountVars, guest, results>>
  BY DEF WriteEnv, HostAt
<1>2. host'.pc = "runfiles" /\ host'.args = host.args /\ host'.env = host.env
  BY <1>1 DEF RunInv, RunTypes
<1>3. \A e \in Entries : share[e] = IF Given(e) THEN "this" ELSE "none"
  BY <1>1 DEF RunInv, ShareIsThisRuns
<1>4. share' \in [Entries -> Content] BY <1>1 DEF RunInv, RunTypes, Content
<1>5. ASSUME NEW e \in Entries
      PROVE  share'[e] = IF Given(e)' THEN "this" ELSE "none"
  <2>1. CASE e = "env"
    BY <2>1, <1>1, <1>2 DEF RunInv, RunTypes, Given, Dirs
  <2>2. CASE e # "env"
    <3>1. share'[e] = share[e] BY <2>2, <1>1 DEF RunInv, RunTypes
    <3>2. Given(e)' <=> Given(e) BY <2>2, <1>1, <1>2 DEF Given
    <3> QED BY <3>1, <3>2, <1>3
  <2> QED BY <2>1, <2>2
<1>6. ShareIsThisRuns' BY <1>5 DEF ShareIsThisRuns
<1> QED BY <1>1, <1>4, <1>6, FillKeeps

\* The runfiles and the libraries.
LEMMA CopyRunfilesKeeps == ASSUME RunInv, CopyRunfiles PROVE RunInv'
<1> DEFINE es == IF host.manifest THEN Dirs ELSE {}
<1>1. /\ host.pc = "runfiles" /\ host' = [host EXCEPT !.pc = "qemu"] /\ Fill(es)
      /\ UNCHANGED <<mountVars, guest, results>>
  BY DEF CopyRunfiles, HostAt
<1>2. /\ host'.pc = "qemu" /\ host'.args = host.args /\ host'.env = host.env
      /\ host'.manifest = host.manifest
  BY <1>1 DEF RunInv, RunTypes
<1>3. /\ \A e \in Entries : share[e] = IF Given(e) THEN "this" ELSE "none"
      /\ host.env # "invalid"
  BY <1>1 DEF RunInv, ShareIsThisRuns, NothingBeforeQemu
<1>4. /\ share' = [e \in Entries |-> IF e \in es THEN "this" ELSE share[e]]
      /\ share' \in [Entries -> Content]
  <2>1. \A e \in es \cap Dirs : share[e] = "none"
    BY <1>1, <1>3 DEF Given, Dirs, Entries
  <2> HIDE DEF es
  <2> QED BY <1>1, <2>1, FillsWithThis
<1>5. ASSUME NEW e \in Entries
      PROVE  share'[e] = IF Given(e)' THEN "this" ELSE "none"
  <2>1. CASE e \in Dirs
    BY <2>1, <1>1, <1>2, <1>3, <1>4 DEF Given, Dirs
  <2>2. CASE e \notin Dirs
    <3>1. share'[e] = share[e] BY <2>2, <1>4
    <3>2. Given(e)' <=> Given(e) BY <2>2, <1>1, <1>2 DEF Given
    <3> QED BY <3>1, <3>2, <1>3
  <2> QED BY <2>1, <2>2
<1>6. ShareIsThisRuns' BY <1>5 DEF ShareIsThisRuns
<1> QED BY <1>1, <1>3, <1>4, <1>6, FillKeeps

\* The script ends with a code that is not 0 after a failure, or is the
\* test's.
LEMMA EndsKeeps ==
  ASSUME RunInv, NEW code \in {"0", "1", "2", "127"}, Ends(code),
         UNCHANGED <<machine, mnt, child, dev, guest>>,
         UNCHANGED faults \/ Fault,
         code = "0" => guest.rc = "0",
         faults' = 0 /\ host.env # "invalid" => code = guest.rc
  PROVE  RunInv'
<1>1. /\ host' = [host EXCEPT !.pc = "exit", !.exit = code]
      /\ share' \in {share, NoEntries} /\ results' \in {results, NoResults}
  BY DEF Ends
<1>2. /\ host'.pc = "exit" /\ host'.args = host.args /\ host'.env = host.env
      /\ host'.manifest = host.manifest /\ host'.exit = code
  BY <1>1 DEF RunInv, RunTypes
<1>3. MountInv' BY ElsewhereKeeps DEF RunInv
<1>4. RunTypes'
  <2>1. NoEntries \in [Entries -> Content] BY DEF NoEntries, Content
  <2>2. NoResults \in [rc : {"none", "empty", "0", "1", "127"},
                      cov : {"none", "torn", "whole"}]
    BY DEF NoResults
  <2>3. host' \in [pc : HostPcs, reuse : BOOLEAN, args : BOOLEAN,
                   env : {"none", "valid", "invalid"}, manifest : BOOLEAN,
                   exit : {"none", "0", "1", "2", "127"}]
    BY <1>1 DEF RunInv, RunTypes, HostPcs
  <2> QED BY <1>1, <2>1, <2>2, <2>3 DEF RunInv, RunTypes
<1>5. ShareIsThisRuns' /\ NothingBeforeQemu' /\ ReturnCodeIsTrue'
  BY <1>2 DEF ShareIsThisRuns, NothingBeforeQemu, ReturnCodeIsTrue
<1>6. UndisturbedRun' BY <1>2 DEF RunInv, UndisturbedRun
<1>7. PassMeansPassed' BY <1>2 DEF PassMeansPassed
<1>8. GuestGetsThisRun' BY <1>2, FaultCounts, GuestHasStays DEF RunInv, MountInv
<1> QED BY <1>3, <1>4, <1>5, <1>6, <1>7, <1>8 DEF RunInv

\* A host script that fails says so.
LEMMA HostFailsKeeps == ASSUME RunInv, HostFails PROVE RunInv'
<1>1. faults' # 0 BY FaultCounts DEF HostFails, RunInv, MountInv
<1> QED BY <1>1, EndsKeeps DEF HostFails

\* A name in --test_env that is none ends the script.
LEMMA BadEnvKeeps ==
  ASSUME RunInv, WriteEnv, host.env = "invalid" PROVE RunInv'
<1>1. Ends("1") /\ UNCHANGED <<machine, mnt, child, dev, guest, faults>>
  BY DEF WriteEnv, HostAt, mountVars
<1> QED BY <1>1, EndsKeeps

\* QEMU is gone: the guest is down.
LEMMA QemuEndsKeeps == ASSUME RunInv, QemuEnds PROVE RunInv'
<1>1. /\ host.pc = "qemu" /\ guest.pc = "down"
      /\ host' = [host EXCEPT !.pc = "extract"]
      /\ UNCHANGED <<mountVars, guest, share, results>>
  BY DEF QemuEnds, HostAt
<1>2. /\ host'.pc = "extract" /\ host'.args = host.args /\ host'.env = host.env
      /\ host'.manifest = host.manifest
  BY <1>1 DEF RunInv, RunTypes
<1>3. MountInv' BY <1>1, HostLeaves
<1>4. RunTypes' BY <1>1 DEF RunInv, RunTypes, HostPcs
<1>5. ShareIsThisRuns' BY <1>2 DEF ShareIsThisRuns
<1>6. NothingBeforeQemu' BY <1>1, <1>2 DEF RunInv, NothingBeforeQemu
<1>7. ReturnCodeIsTrue' BY <1>1 DEF RunInv, ReturnCodeIsTrue
<1>8. UndisturbedRun' BY <1>1, <1>2 DEF mountVars, RunInv, UndisturbedRun
<1>9. PassMeansPassed' BY <1>2 DEF PassMeansPassed
<1>10. GuestGetsThisRun' BY <1>1, <1>2, GuestHasStays DEF mountVars
<1> QED BY <1>3, <1>4, <1>5, <1>6, <1>7, <1>8, <1>9, <1>10 DEF RunInv

\* The wrapper's exit code, out of the results.
LEMMA ExtractKeeps == ASSUME RunInv, Extract PROVE RunInv'
<1> DEFINE code == CASE results.cov = "torn"             -> "2"
                     [] results.rc \in {"none", "empty"} -> NoReturnCode
                     [] OTHER                            -> results.rc
<1>1. /\ host.pc = "extract" /\ Ends(code)
      /\ UNCHANGED <<machine, mnt, child, dev, guest, faults>>
  BY DEF Extract, HostAt, mountVars
<1>2. guest.pc = "down" /\ results.rc \in {"none", "empty", guest.rc}
  BY <1>1 DEF RunInv, NothingBeforeQemu, ReturnCodeIsTrue
<1>3. code \in {"0", "1", "2", "127"} BY DEF RunInv, RunTypes, NoReturnCode
<1>4. code = "0" => guest.rc = "0" BY <1>2 DEF NoReturnCode
<1>5. guest.rc \in {"none", "0", "1", "127"} BY DEF RunInv, RunTypes
<1>6. faults = 0 => code = guest.rc
  BY <1>1, <1>2, <1>5 DEF RunInv, UndisturbedRun
<1> HIDE DEF code
<1> QED BY <1>1, <1>3, <1>4, <1>6, EndsKeeps

-----------------------------------------------------------------------------
(* The guest.                                                              *)

\* A step of the guest changes its own record and the results only.
LEMMA GuestStepKeeps ==
  ASSUME RunInv, Booted, UNCHANGED <<machine, mnt, child, dev, host, share>>,
         UNCHANGED faults \/ Fault,
         RunTypes', ReturnCodeIsTrue', UndisturbedRun', GuestGetsThisRun'
  PROVE  RunInv'
<1>1. MountInv' BY ElsewhereKeeps DEF RunInv
<1>2. ShareIsThisRuns' BY DEF RunInv, ShareIsThisRuns, Given
<1>3. host.pc = "qemu" BY DEF Booted
<1>4. NothingBeforeQemu' BY <1>3 DEF RunInv, NothingBeforeQemu
<1>5. PassMeansPassed' BY <1>3 DEF PassMeansPassed
<1> QED BY <1>1, <1>2, <1>4, <1>5 DEF RunInv

\* startup.sh after its mount.
LEMMA StartupGoesOnKeeps == ASSUME RunInv, StartupGoesOn PROVE RunInv'
<1>1. /\ Booted /\ guest.pc = "boot" /\ mnt.pc = "mounted"
      /\ guest' = [guest EXCEPT !.pc = "prepare"]
      /\ UNCHANGED <<machine, mnt, child, dev, faults, host, share, results>>
  BY DEF StartupGoesOn, mountVars
<1>2. guest'.pc = "prepare" /\ guest'.rc = guest.rc BY <1>1 DEF RunInv, RunTypes
<1>3. RunTypes' BY <1>1 DEF RunInv, RunTypes, GuestPcs
<1>4. ReturnCodeIsTrue' BY <1>1, <1>2 DEF RunInv, ReturnCodeIsTrue
<1>5. UndisturbedRun' BY <1>1, <1>2 DEF RunInv, UndisturbedRun
<1>6. GuestGetsThisRun' BY <1>2 DEF GuestGetsThisRun
<1> QED BY <1>1, <1>3, <1>4, <1>5, <1>6, GuestStepKeeps

\* What is in the directory while QEMU runs is what was asked for.
LEMMA ShareIsAsked ==
  ASSUME RunInv, host.pc = "qemu"
  PROVE  /\ host.env # "invalid"
         /\ \A e \in Entries : share[e] = IF Asked(e) THEN "this" ELSE "none"
<1>1. ASSUME NEW e \in Entries PROVE Asked(e) <=> Given(e)
  BY DEF Asked, Given, Entries, Files, Dirs
<1> QED BY <1>1 DEF RunInv, ShareIsThisRuns, NothingBeforeQemu

\* prepare_test.sh.
LEMMA PrepareKeeps == ASSUME RunInv, Prepare PROVE RunInv'
<1>1. /\ Booted /\ host.pc = "qemu" /\ guest.pc = "prepare"
      /\ UNCHANGED <<machine, mnt, child, dev, host, share, results>>
  BY DEF Prepare, GuestAt, Booted
<1>2. PICK has \in [Entries -> Content] :
        /\ guest' = [guest EXCEPT !.pc = "test", !.has = has]
        /\ \A e \in Entries : has[e] \in {"none", share[e]}
        /\ \/ UNCHANGED faults /\ (Mounted => has = share)
           \/ Fault
  <2>1. CASE /\ guest' = [guest EXCEPT !.pc = "test",
                            !.has = IF Mounted THEN share ELSE NoEntries]
             /\ UNCHANGED faults
    <3>1. share \in [Entries -> Content] /\ NoEntries \in [Entries -> Content]
      BY DEF RunInv, RunTypes, NoEntries, Content
    <3>2. \A e \in Entries : NoEntries[e] = "none" BY DEF NoEntries
    <3>3. CASE Mounted BY <3>1, <3>3, <2>1
    <3>4. CASE ~Mounted BY <3>1, <3>2, <3>4, <2>1
    <3> QED BY <3>3, <3>4
  <2>2. ASSUME NEW e \in Entries, Fault,
               guest' = [guest EXCEPT !.pc = "test",
                                      !.has = [share EXCEPT ![e] = "none"]]
        PROVE  /\ [share EXCEPT ![e] = "none"] \in [Entries -> Content]
               /\ \A f \in Entries :
                    [share EXCEPT ![e] = "none"][f] \in {"none", share[f]}
    BY DEF RunInv, RunTypes, Content
  <2> QED BY <2>1, <2>2 DEF Prepare
<1>3. /\ guest'.pc = "test" /\ guest'.has = has /\ guest'.rc = guest.rc
      /\ guest' \in [pc : GuestPcs, has : [Entries -> Content],
                     rc : {"none", "0", "1", "127"}]
  BY <1>2 DEF RunInv, RunTypes, GuestPcs
<1>4. faults' = 0 => faults = 0 /\ has = share
  BY <1>1, <1>2, FaultCounts, MountedMeansServing
     DEF RunInv, MountInv, UndisturbedRun
<1>5. RunTypes' BY <1>1, <1>3 DEF RunInv, RunTypes
<1>6. ReturnCodeIsTrue' BY <1>1, <1>3 DEF RunInv, ReturnCodeIsTrue
<1>7. UndisturbedRun' BY <1>1, <1>3, <1>4 DEF RunInv, UndisturbedRun
<1>8. ASSUME NEW e \in Entries
      PROVE  /\ guest'.has[e] \in {"none", "this"}
             /\ guest'.has[e] = "this" => Asked(e)'
             /\ faults' = 0 /\ Asked(e)' => guest'.has[e] = "this"
  <2>1. Asked(e)' <=> Asked(e) BY <1>1 DEF Asked
  <2> QED BY <2>1, <1>1, <1>2, <1>3, <1>4, ShareIsAsked
<1>9. GuestGetsThisRun' BY <1>8 DEF GuestGetsThisRun
<1> QED BY <1>1, <1>2, <1>5, <1>6, <1>7, <1>9, GuestStepKeeps

\* What the guest has copied stays what it is.
LEMMA HasStays ==
  ASSUME RunInv, UNCHANGED host, guest'.has = guest.has,
         guest.pc \in {"test", "returncode", "coverage", "shutdown"},
         faults' = 0 => faults = 0
  PROVE  GuestGetsThisRun'
  BY DEF RunInv, GuestGetsThisRun, Asked

\* The test exits.
LEMMA RunTestKeeps == ASSUME RunInv, RunTest PROVE RunInv'
<1>1. PICK rc \in {"0", "1", "127"} :
        /\ Booted /\ guest.pc = "test"
        /\ guest' = [guest EXCEPT !.pc = "returncode", !.rc = rc]
        /\ UNCHANGED <<machine, mnt, child, dev, host, share, results, faults>>
  BY DEF RunTest, GuestAt
<1>2. guest'.pc = "returncode" /\ guest'.rc = rc /\ guest'.has = guest.has
  BY <1>1 DEF RunInv, RunTypes
<1>3. RunTypes'
  <2>1. guest' \in [pc : GuestPcs, has : [Entries -> Content],
                    rc : {"none", "0", "1", "127"}]
    BY <1>1 DEF RunInv, RunTypes, GuestPcs
  <2> QED BY <1>1, <2>1 DEF RunInv, RunTypes
<1>4. ReturnCodeIsTrue' BY <1>1, <1>2 DEF RunInv, ReturnCodeIsTrue
<1>5. UndisturbedRun' BY <1>1, <1>2 DEF RunInv, UndisturbedRun
<1>6. GuestGetsThisRun' BY <1>1, <1>2, HasStays
<1> QED BY <1>1, <1>3, <1>4, <1>5, <1>6, GuestStepKeeps

\* The return code goes to the directory, or is lost.
LEMMA CopyReturnCodeKeeps == ASSUME RunInv, CopyReturnCode PROVE RunInv'
<1>1. /\ Booted /\ host.pc = "qemu" /\ guest.pc = "returncode"
      /\ guest' = [guest EXCEPT !.pc = "coverage"]
      /\ UNCHANGED <<machine, mnt, child, dev, host, share>>
  BY DEF CopyReturnCode, GuestAt, Booted
<1>2. guest'.pc = "coverage" /\ guest'.rc = guest.rc /\ guest'.has = guest.has
  BY <1>1 DEF RunInv, RunTypes
<1>3. /\ results \in [rc : {"none", "empty", "0", "1", "127"},
                      cov : {"none", "torn", "whole"}]
      /\ guest.rc \in {"none", "0", "1", "127"} /\ results.rc = "none"
  BY <1>1 DEF RunInv, RunTypes, ReturnCodeIsTrue
<1>4. PICK rc \in {"none", "empty", guest.rc} :
        /\ results' = [results EXCEPT !.rc = rc]
        /\ (UNCHANGED faults /\ (Mounted => rc = guest.rc)) \/ Fault
  <2>1. results = [results EXCEPT !.rc = results.rc] BY <1>3
  <2> QED BY <1>3, <2>1 DEF CopyReturnCode
<1>5. results'.rc = rc /\ results'.cov = results.cov BY <1>3, <1>4
<1>6. faults' = 0 => faults = 0 /\ rc = guest.rc
  BY <1>1, <1>4, FaultCounts, MountedMeansServing
     DEF RunInv, MountInv, UndisturbedRun
<1>7. RunTypes' BY <1>1, <1>3, <1>4 DEF RunInv, RunTypes, GuestPcs
<1>8. ReturnCodeIsTrue' BY <1>2, <1>5 DEF ReturnCodeIsTrue
<1>9. UndisturbedRun' BY <1>1, <1>2, <1>5, <1>6 DEF RunInv, UndisturbedRun
<1>10. GuestGetsThisRun' BY <1>1, <1>2, <1>6, HasStays
<1> QED BY <1>1, <1>4, <1>7, <1>8, <1>9, <1>10, GuestStepKeeps

\* The archive of the coverage goes to the directory, or is torn.
LEMMA CopyCoverageKeeps == ASSUME RunInv, CopyCoverage PROVE RunInv'
<1>1. /\ Booted /\ host.pc = "qemu" /\ guest.pc = "coverage"
      /\ guest' = [guest EXCEPT !.pc = "shutdown"]
      /\ UNCHANGED <<machine, mnt, child, dev, host, share>>
  BY DEF CopyCoverage, GuestAt, Booted
<1>2. guest'.pc = "shutdown" /\ guest'.rc = guest.rc /\ guest'.has = guest.has
  BY <1>1 DEF RunInv, RunTypes
<1>3. results \in [rc : {"none", "empty", "0", "1", "127"},
                   cov : {"none", "torn", "whole"}]
  BY DEF RunInv, RunTypes
<1>4. PICK cov \in {"none", "torn", "whole"} :
        /\ results' = [results EXCEPT !.cov = cov]
        /\ (UNCHANGED faults /\ cov \in {"whole", results.cov}) \/ Fault
  <2>1. results = [results EXCEPT !.cov = results.cov] BY <1>3
  <2>2. CASE UNCHANGED <<results, faults>> BY <1>3, <2>1, <2>2
  <2>3. CASE UNCHANGED faults /\ results' = [results EXCEPT !.cov = "whole"]
    BY <2>3
  <2>4. CASE Fault /\ results' = [results EXCEPT !.cov = "torn"] BY <2>4
  <2> QED BY <2>2, <2>3, <2>4 DEF CopyCoverage
<1>5. results'.rc = results.rc /\ results'.cov = cov BY <1>3, <1>4
<1>6. faults' = 0 => faults = 0 /\ cov \in {"whole", results.cov}
  BY <1>4, FaultCounts DEF RunInv, MountInv
<1>7. RunTypes' BY <1>1, <1>3, <1>4 DEF RunInv, RunTypes, GuestPcs
<1>8. ReturnCodeIsTrue' BY <1>1, <1>2, <1>5 DEF RunInv, ReturnCodeIsTrue
<1>9. UndisturbedRun' BY <1>1, <1>2, <1>5, <1>6 DEF RunInv, UndisturbedRun
<1>10. GuestGetsThisRun' BY <1>1, <1>2, <1>6, HasStays
<1> QED BY <1>1, <1>4, <1>7, <1>8, <1>9, <1>10, GuestStepKeeps

\* The guest goes down, with its results where they are or in a panic.
LEMMA DownKeeps ==
  ASSUME RunInv, Booted, guest' = [guest EXCEPT !.pc = "down"],
         UNCHANGED <<machine, mnt, child, dev, host, share, results>>,
         (UNCHANGED faults /\ guest.pc = "shutdown") \/ Fault
  PROVE  RunInv'
<1>1. guest'.pc = "down" /\ guest'.rc = guest.rc BY DEF RunInv, RunTypes
<1>2. faults' = 0 => faults = 0 /\ guest.pc = "shutdown"
  BY FaultCounts DEF RunInv, MountInv
<1>3. RunTypes' BY DEF RunInv, RunTypes, GuestPcs
<1>4. ReturnCodeIsTrue' BY <1>1 DEF RunInv, ReturnCodeIsTrue
<1>5. UndisturbedRun' BY <1>1, <1>2 DEF RunInv, UndisturbedRun
<1>6. GuestGetsThisRun' BY <1>1 DEF GuestGetsThisRun
<1> QED BY <1>3, <1>4, <1>5, <1>6, GuestStepKeeps

-----------------------------------------------------------------------------

\* Whatever is left in the directory, the run begins with the invariant.
LEMMA InitRunInv == ASSUME Init PROVE RunInv
<1>1. MountInv BY MountInitInv DEF Init
<1>2. PICK reuse, args, manifest \in BOOLEAN, env \in {"none", "valid", "invalid"} :
        /\ host = [pc |-> "setup", reuse |-> reuse, args |-> args, env |-> env,
                   manifest |-> manifest, exit |-> "none"]
        /\ share \in IF reuse THEN Leftovers ELSE {NoEntries}
        /\ results \in IF share = NoEntries THEN {NoResults} ELSE OldResults
  BY DEF Init
<1>3. /\ guest = [pc |-> "boot", has |-> NoEntries, rc |-> "none"]
      /\ NoEntries \in [Entries -> Content]
  BY DEF Init, NoEntries, Content
<1>4. share \in [Entries -> Content]
  BY <1>2, <1>3 DEF Leftovers, NoEntries, Content
<1>5. results \in [rc : {"none", "empty", "0", "1", "127"},
                   cov : {"none", "torn", "whole"}]
  BY <1>2 DEF OldResults, NoResults
<1>6. RunTypes BY <1>2, <1>3, <1>4, <1>5 DEF RunTypes, HostPcs, GuestPcs
<1>7. host.pc = "setup" /\ guest.pc = "boot" BY <1>2, <1>3
<1> QED BY <1>1, <1>6, <1>7
        DEF RunInv, ShareIsThisRuns, NothingBeforeQemu, ReturnCodeIsTrue,
            UndisturbedRun, GuestGetsThisRun, PassMeansPassed

\* Every step of a run keeps it.
LEMMA RunStepKeeps == ASSUME RunInv, [Next]_vars PROVE RunInv'
<1>1. CASE UNCHANGED vars
  <2>1. UNCHANGED <<machine, mnt, child, dev, faults, host, share, results, guest>>
    BY <1>1 DEF vars, mountVars, runVars
  <2>2. MountInv' BY <2>1, ElsewhereKeeps DEF RunInv
  <2> QED BY <2>1, <2>2
          DEF RunInv, RunTypes, ShareIsThisRuns, Given, NothingBeforeQemu,
              ReturnCodeIsTrue, UndisturbedRun, GuestGetsThisRun, Asked,
              PassMeansPassed
<1>2. CASE HostStep
  BY <1>2, SetupFsdevKeeps, WriteTestKeeps, WriteEnvKeeps, BadEnvKeeps,
     CopyRunfilesKeeps, QemuEndsKeeps, ExtractKeeps DEF HostStep
<1>3. CASE Shutdowns
  BY <1>3, DownKeeps DEF Shutdowns, GuestAt
<1>4. CASE GuestStep
  BY <1>3, <1>4, StartupGoesOnKeeps, PrepareKeeps, RunTestKeeps,
     CopyReturnCodeKeeps, CopyCoverageKeeps DEF GuestStep
<1>5. CASE Panics BY <1>5, DownKeeps DEF Panics
<1> QED BY <1>1, <1>2, <1>4, <1>5, HostFailsKeeps, InMountKeeps DEF Next

\* The invariant of a whole test run.
THEOREM RunInvariant == Spec => []RunInv
<1>1. Init => RunInv BY InitRunInv
<1>2. RunInv /\ [Next]_vars => RunInv' BY RunStepKeeps
<1> QED BY <1>1, <1>2, PTL DEF Spec

\* Every variable of the run has its type.
THEOREM RunTypeOK == Spec => []TypeOK
<1>1. RunInv => TypeOK
  BY MountInvImplies DEF RunInv, RunTypes, HostPcs, GuestPcs, TypeOK
<1> QED BY <1>1, RunInvariant, PTL

\* In the run as a whole: the mount succeeds only for a daemon that serves.
THEOREM MountTellsTruth == Spec => []MountedWhenTold
<1>1. RunInv => MountedWhenTold BY MountInvImplies DEF RunInv
<1> QED BY <1>1, RunInvariant, PTL

\* run_under_qnx.sh exits 0 only when the test of this boot did, and when
\* nothing fails its exit code is the test's.
THEOREM ExitCodeIsTrue == Spec => []PassMeansPassed
<1>1. RunInv => PassMeansPassed BY DEF RunInv
<1> QED BY <1>1, RunInvariant, PTL

\* A test runs with nothing an earlier run left in the shared directory.
THEOREM NothingLeftOver == Spec => []GuestGetsThisRun
<1>1. RunInv => GuestGetsThisRun BY DEF RunInv
<1> QED BY <1>1, RunInvariant, PTL

\* While a process owns the PCI device (pci_device_attach), no step of the
\* run by another one changes it.
THEOREM OwnerKeepsDevice == Spec => OwnersDeviceStays
<1>1. ASSUME RunInv, [Next]_vars, NEW c \in Child, dev.owner = c,
             child'[c] = child[c]
      PROVE  dev' = dev
  <2>1. dev' = dev \/ MountNext
    BY <1>1 DEF Next, HostStep, GuestStep, HostFails, Panics, InMount,
         SetupFsdev, WriteTest, WriteEnv, CopyRunfiles, QemuEnds, Extract,
         HostAt, GuestAt, StartupGoesOn, Prepare, RunTest, CopyReturnCode,
         CopyCoverage, Shutdowns, vars, mountVars
  <2> QED BY <1>1, <2>1, MountStepOwns DEF RunInv
<1>2. RunInv /\ [Next]_vars
        => [\A c \in Child :
               dev.owner = c /\ child'[c] = child[c] => dev' = dev]_mountVars
  BY <1>1
<1> QED BY <1>2, RunInvariant, PTL DEF Spec, OwnersDeviceStays
=============================================================================
