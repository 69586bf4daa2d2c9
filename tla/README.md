# Verification of fs-virtio9p

TLA+ models, TLC runs and TLAPS proofs for the code of `src/`, the QNX unit test
runner: a virtio-9p file system driver for QNX guests
(`src/src/common/virtio9p`, here `V/`) and the host and guest scripts that run
unit tests in QEMU with it. The driver is the program with state, concurrency and
failure handling and has most of the models; the scripts meet only in files, exit
codes and processes, and are modelled as one test run from host to guest and back.

## 1. The system

    clients --messages--> resource manager --calls--> 9P session --Exchange--> transport
    (QNX processes)       (ConnectOpen, IoRead ...)   (fids, retry)            (MMIO or PCI)
                                                                                |  virtqueue,
                                                                                |  interrupts
                                                          QEMU: virtio device and 9P server

One thread (`FsVirtio9pMain`: `dispatch_block`, `dispatch_handler`) runs everything
above the virtqueue; concurrency is with the device, its interrupt, timers, the
host that shares the directory, and the start-up scripts that restart the daemon.

| Component | State | Operations | What is hard | What makes it correct |
|---|---|---|---|---|
| Resource manager `V/src/resmgr/fs_virtio9p.cpp` | one OCB per open file (fid, offset, directory flag) | ConnectOpen, ConnectMknod, ConnectUnlink, ConnectRename, IoRead, IoWrite, IoStat, IoCloseOcb, start-up and main loop | several session calls per handler, each of which can fail; each error path gives back its own fids | no fid leaks, client told what was done, every handler answers |
| 9P session `nine_p_session.cpp` | `root_fid_`, `next_tag_`, `reinitializing_` | Initialize, the 9P operations, Transact, Reinitialize | the retry re-establishes the session under the handler that waits | a request carried out at most once, agreement with the server on fids |
| Fid pool `fid_pool.cpp` | `allocated_`, `next_fid_` | Allocate, Release, Reset | reset while files are open | every allocated fid has an owner |
| 9P codec `nine_p_message.cpp`, `nine_p_message.h` | message bytes, a read position | 13 builders, 13 parsers, Put, Get, Skip | Gets past the end give zeros; a reply of another type; a reply cut short | server and driver read the same fields in the same order; a reply that is not the request's is an error |
| Virtqueue `virtqueue.cpp` | descriptor table, free list, both rings, indices | Initialize, AddBuf, Kick, GetBuf | memory shared with the device, wrapping indices, a free list whose order is scrambled by out-of-order completion | every chain returns once, unchanged; no descriptor is lost |
| Transports `mmio_transport.cpp`, `pci_transport.cpp` | queue, DMA buffers, channel, interrupt, timer | Initialize, Exchange, WaitForCompletion, ResetDevice, Shutdown | interrupt, answer and timeout race; a re-initialisation that fails half way | a call delivers the answer to its own request or fails; nothing leaks |
| Command line `parse_args.cpp`, mount helper `mount_virtio9p` | `FsConfig` | ParseArgs, ApplyOption, CreateTransport; exec with the arguments turned round | the three parts agree on an order of words nobody declares | the mount line of each machine ends in the transport that machine has |
| Start-up `FsVirtio9pMain`, mount loop of `startup.sh` | parent and child of each attempt, pipe, device | fork, set-up, status byte, serve, Shutdown | an attempt that failed still shuts down when the next one has begun; a child that dies before it tells | the mount succeeds exactly for a daemon that serves |
| Host scripts `qemu_common.sh`, `run_under_qnx.sh`; guest scripts `prepare_test.sh`, `run_test.sh` | shared directory, result files, exit codes | set up, fill, boot, copy, run, leave results, extract | exit codes and results cross the VM boundary through files, which may be an earlier run's | the reported result is that of this boot's test |
| Logging, build rules, credential helper | none a property could be about | - | - | - |

`PROJECT.json` lists every component with its status, and under `hazards` every
place in the code that is hard to test, with the properties that cover it or the
reason why none does.

## 2. Modules

| Module | What it is | Composes |
|---|---|---|
| `NinePSession` | session, fid pool, tag counter and the external 9P server | - |
| `FsVirtio9p` | resource manager handlers, one action between two session calls | extends `NinePSession` |
| `FsVirtio9pProofs` | types; the invariants of the pool, of retries, of the server's fids and of their agreement, and the theorems | extends `FsVirtio9p` |
| `BufferQueue` | abstract: what a virtqueue promises | - |
| `Virtqueue` | descriptor table, free list, rings, the device | implements `BufferQueue` |
| `Exchange` | abstract: what `Transport::Exchange` promises | - |
| `VirtioTransport` | what both transports share: Exchange up to the wait, ResetDevice, Shutdown, device, interrupt, kernel | maps to `Exchange` |
| `MmioTransport`, `PciTransport` | the two waits for completion | extend `VirtioTransport`, implement `Exchange` |
| `VirtioTransportProofs` | the inductive invariants of both transports and their shared steps | extends `VirtioTransport` |
| `VirtqueueProofs` | the inductive invariant of the virtqueue, its theorems and its refinement of `BufferQueue` | extends `Virtqueue` |
| `MmioTransportProofs`, `PciTransportProofs` | the steps of each wait, and the theorems | extend the above |
| `Bytes` | byte strings as `pread` and `pwrite` treat them | - |
| `ByteFile` | abstract: what read and write of an open file promise a program | extends `Bytes` |
| `DataPath` | the data and offsets of ConnectOpen, IoRead, IoWrite and directory reads | implements `ByteFile` |
| `DataPathProofs` | types, listings, access modes, and the refinement of `ByteFile` | extends `DataPath` |
| `NinePMessage` | builders and parsers as operators over bytes | - |
| `NinePWire` | one call through them and a server that knows the 9P2000.L layouts alone | extends `NinePMessage` |
| `NinePWireProofs` | what messages hold, and that both sides read what the other wrote, whole, foreign or cut | extends `NinePWire` |
| `ParseArgs` | mount helper, command line, choice of transport | - |
| `MountDaemon` | the mount loop, its attempts and the device they share | extends `ParseArgs` |
| `TestRun` | host and guest scripts around the mount loop | extends `MountDaemon` |
| `TestRunProofs` | the inductive invariants of the fork protocol and of a whole run, and their theorems | extends `TestRun` |
| `MCFsVirtio9p`, `MCPciTransport`, `MCDataPath`, `MCNinePWire` | the modules TLC starts from where a model value is not enough; statements of comments the code does not keep | extend the modules they name |

The stack is cut where the code has interfaces. `FsVirtio9p` over `NinePSession`
treats one `Exchange` as atomic with four outcomes: answered, *lost* (not carried
out, error), *late* (carried out, error), *garbled* (carried out, reply does not
parse). That is what `Exchange` promises: a request is carried out at most once
and only while its call runs, and a call that returns 0 delivers the reply to
its own request. The transports are shown to implement it, *under `MaxStale = 0`*:
a device that does not come to rest in the hundred reads of ResetDevice breaks
the promise (section 5), and everything said of the upper half assumes that it
does. Inside the transports the virtqueue appears as the set of
chains in it, as `BufferQueue` allows.

### Model and code

* `NinePSession`: `call` is the request inside `Transact` with its attempt
  (`kMaxRetries` = 3) and phase: `send`, or the Tversion/Tattach of the nested
  `Reinitialize`. `TransactReply`, `TransactFails`, `ReinitVersion` and
  `ReinitAttach` are its steps, each one `Exchange`. `Allocate`, `Released` and
  `Return` keep the fid pool as the session operations do, including Clunk's
  release whatever the answer and Walk's release on failure. The server is a table
  from fids to objects and a set of replies per request; as the host shares
  the directory, what a path names and whether a request is refused is open.
* `FsVirtio9p`: `pc` names the session call the handler waits for, `loc` its
  locals. Each action runs from the return of one session call to the next
  call or to the reply. `Restart` is `startup.sh` running the daemon again;
  `AwaitMessage` is `dispatch_block`, so that an idle daemon is not a deadlock.
* `Virtqueue`: AddBuf in two steps (descriptors and ring slot, then the index),
  GetBuf in one step per turn of its loop, because the device runs between
  them. `InUseHeads`, `OfferedHeads`, `DoneHeads` read the refinement off the rings.
* `VirtioTransport`: `res` is which of the six resources the fields claim, `live`
  what the kernel really has out; `Reinit(n, mem)` gets through n of the ten stages
  of `InitializeDevice`. `isr`, `owed`, `masked`, `pulses` are interrupt status, a
  completion not yet signalled, `InterruptMask` state and the queued pulse. `irqMode`
  "deaf" is MSI-X after the device refused its vector (`use_msix_` cleared, INTx
  still disabled, `irq_num_` unchanged), "noisr" INTx of a device without an ISR
  capability (`isr_cfg_ == nullptr`), where nothing lowers the line.
* `DataPath` models the other half of the handlers of `FsVirtio9p`: a session call is one
  step that is answered or lost, and what counts is the bytes. `ocb` is `Virtio9pOcb`
  with the access mode the QNX library checks and the mode the server was given (the two
  differ by `TranslateQnxToLinuxFlags`); `file` is the host's. IoWrite takes one step per
  chunk, as each is an Exchange of its own, and `Copied` and `MsgRead` say which of its
  bytes came with the message and which `resmgr_msgread` fetches. Directory entries have
  lengths on the wire and as `struct dirent`, since IoRead drops what does not fit.
* `NinePMessage` has a builder and a parser per message, as the code does: a Put gives the
  bytes it appends, a Get takes a message and a position to a value and the next position,
  and a Get past the end gives zero and stays. Only `GetBytes` adds a number from the message
  that can be as large as its four bytes allow, so only there the sum wraps. A loop of the code (`Gets`, the loop of
  ParseRreaddir in `Entries`) is a recursive function of the number of turns. A byte has `B`
  values. The server of `NinePWire` is written from tables of fields and takes integers in
  halves (`TwoAt`, `FourAt`, `EightAt`; `Two`, `Four`, `Eight`), where the driver shifts byte
  by byte; of the driver's operators it uses only `Got`, a position with a value.
  `ServerKeepsToLayouts` says that its values fit their fields. `NinePWire` follows one
  Transact from the builder to the status its operation returns.
* `ParseArgs` has arguments as records (an option with its value, a flag, a word).
  `MountDaemon` derives each machine's transport by the mount line of its `startup.sh`,
  `MountHelper` and `ParseArgs` in turn. A child's `pc` goes through the steps of set-up
  that can fail or touch what processes share; `FailTo` and the `Shutdown` steps are the
  error paths, `Killed` a kill at any point, `ParentReads` the parent that reads a byte or
  the end of the pipe (`status` starts as 1). `dev` is the device with its owner
  (`pci_device_attach`), driver, MSI-X and INTx-disable bits, and with who holds the MSI-X
  vector in the resource database (`Claim`, `GivenBack`: `rsrcdbmgr_attach`, `rsrcdbmgr_detach`).
* `TestRun`: `share` says for each entry of the shared directory whose content it is (this
  run's, an earlier run's, part of one), `results` the same for the results; `host` and
  `guest` are the scripts, statement by statement where a statement touches one of these.
  `set -e`, the trap that removes the directory, and the absence of `set -e` in the
  guest are in `HostFails`, `Ends` and `GuestStep`.

## 3. Runs

| Run | Question | Answer |
|---|---|---|
| `fs_faults` | Two open files, every client request, at most one failed exchange of any kind anywhere: who owns each fid? | `PoolInv`: root, an OCB or the running handler. `NoFidLeak`: between requests only root and OCBs. `FidsAgree`: with no failure, driver and server agree on every fid. |
| `fs_retry` | Any number of lost and late exchanges, start-up included | `AppliedAtMostOnce`: a retry never carries out a mutation twice (the reset has unbound its fids). `AckedIsApplied`: success is reported only for what was done. `NoServerFidLeak`: the server keeps no forgotten fid. `HandlersTerminate`. |
| `virtqueue` | Two chains in flight, out-of-order device, wrapping indices | `QueueTypeOK`, `FreeListSound`, `FullOnlyWhenFull`, `ImplementsBufferQueue`, `EveryChainReturns`. |
| `mmio_exchange` | Timeouts, early interrupts, failing re-initialisation | `ImplementsExchange`, `NoDmaToFreed`, `NoStalePulse`, `NoLostWakeup`. |
| `mmio_reset` | Every stage fails, slow devices, any number of spurious interrupts | `ResourcesAccounted`, `OneInFlight`, `ExchangeReturns`. |
| `pci_exchange` | The PCI loop with fast path, drain and last-resort check, INTx with and without an ISR capability, MSI-X, any number of spurious interrupts | `TypeOK`, `ImplementsExchange`, `NoLostWakeup`, `ExchangeReturns`. |
| `data_path` | Two programs read, write, append and list while answers are lost and chunks are stored in part | `ImplementsByteFile`: what they are told of bytes and positions is what happened. `ListsOnceInOrder`, `EndOfListingIsTheEnd`: every entry once. `VerifyAgrees`: local check and server agree on access. `WriteReturns`. |
| `codec` | Every builder and parser against the server; replies of the wrong type, and replies cut at every byte | `RequestUnderstood`, `ReplyUnderstood`, `ForeignReplyRejected`, `CutReplyInventsNothing`: a cut reply gives values the server sent, their low halves or zeros, no part of the data of a read, and the parser stops. |
| `test_run` | A whole test run on either machine, any two failures or kills, in a fresh or a used directory | `PassMeansPassed`, `GuestGetsThisRun`, `MountedWhenTold`, `OwnersDeviceStays`; `HostReturns`. |

Three runs end in a violation: each states what a comment of the sources says and
TLC shows the behaviour that does not keep it (`findings` quotes the lines).

| Run | Comment | What happens |
|---|---|---|
| `fs_stale_ocb` | "The 9P fid for this open file." | after a reset the fid of an open OCB is handed out again and names another file |
| `pci_stale_address` | buffers "must be guest-physical (DMA-accessible by device)" | `mem_offset64` fails for the new page; the next call hands out the old address |
| `pci_fallback` | "falling back to INTx" | INTx stays disabled: only the fast path and the 30 s check find answers |

### Bounds, and why they are enough

* Objects: the root, one further directory (`fs_retry`) or two files (`fs_faults`);
  two names are what rename needs and two objects what confusing fids needs. `Ocb`:
  two open files with counted faults, one with unlimited faults. `MaxFid` bounds the fids
  of a session between resets (a handler walks only below it), `FidMod` leaves room
  for the walks of one handler beyond it, so the model never wraps the fid counter; the
  code's counter is 2^32. `TagMod` 2 makes the tag counter wrap at once; its
  second value is then the one for no tag. `MaxChunks`
  2 makes a write fail in its first or second chunk. `CountFaults = FALSE` lifts
  `MaxFaults`: any number of failures.
* Virtqueue: four descriptors are two chains, the least for out-of-order completion to
  scramble the free list; `IdxMod` 8 makes the indices wrap apart from the ring
  slots, as 2^16 does. Two request buffers tell chains apart.
* Transports: `QueueSize` 2 is one chain, all that one thread ever has in flight (theorems
  `MmioOneInFlight`, `PciOneInFlight`: for every size). Three request names let an answer
  be the current one, the one before or an older one; two pages tell a new mapping from
  the freed one. `MaxStale` 1: one chain in a device not at rest. `MaxSpurious` 1 with
  `CountSpurious` FALSE: any number of spurious interrupts (`mmio_exchange` has none, as
  `NoStalePulse` is about answers).
* Data path: two open files, the least for one to write behind the other's back; no write
  ends beyond `MaxLen` 3, so two writes of two bytes meet, overlap or leave a gap.
  `Opens` gives chunks of one byte (iounit 1) and chunks of two of which the client's
  message held one. The names' entries are 28 and up on the wire and as records, once
  the former larger and once the latter; buffers of 28, 32 and 64 fit none, one or two.
* Codec: `B` 4 leaves a byte four values, but the number of bytes in a field, their
  order and every position are the code's; values have one
  non-zero digit or four different ones, lists have up to three entries. Every cut of
  every reply is tried. That the replies keep to the layouts is evaluated on the run
  (`ServersAnswers`). The theorems hold for every `B` above 1, so also for 256.
* Test run: two child slots, as the third attempt begins only when one is free again; two
  failures or kills are what it takes to fail one attempt while another shuts down.
* `CHECK_DEADLOCK FALSE` stands in the transports' configurations, as after `Shutdown` the
  process is gone, and in `Test_run.cfg`, as a test run ends. All others check deadlock.

### Fairness

* `FsVirtio9p`: weak fairness of `HandlerStep \/ SessionStep`. The thread runs, and
  every Exchange returns, which `ExchangeReturns` shows of the transports. Clients owe
  nothing.
* Transports: weak fairness of `CallStep`. A call is a loop in one thread and every
  wait has a timeout; the device owes nothing, which is the point of the property. The
  PCI loop starts its 30 s timeout anew after each interrupt (`pci_transport.cpp:902`), so an
  endless series of spurious ones keeps a call from returning; its `ExchangeReturns` says
  that nothing less does: every call returns, or pulses come for ever. Without that
  alternative TLC finds the endless series. MMIO takes one pulse per call and needs none.
* `Virtqueue`: the call in progress runs on, its user polls for completions, the
  device answers. Without these `EveryChainReturns` is not a promise of the queue.
* `DataPath`: weak fairness of the chunk loop alone, which is one thread.
* `TestRun`: weak fairness of each script and process: the machines' schedulers run them,
  the test ends, and QEMU ends when the guest is down (`-no-reboot`). Failures and kills
  owe nothing.

## 4. Proofs

All proofs are for every value of the constants under the named assumptions of the
modules (`FidModAssumption`, `TagModAssumption`, `ObjAssumption`, `FaultAssumption`,
`TransportAssumption`, `QueueAssumption`, `ChildAssumption`, `FaultsAssumption`, those of
`FsVirtio9p`, of `DataPath` and of `NinePWire`), which say no more than that counters have a
width, names are distinct, bounds and lengths are natural numbers, what a program writes is a
sequence of bytes (`DataAssumption`), there is an open file to speak of (`OcbAssumption`), a
request has one of the thirteen types and arguments of the C++ types, and its size fits the
size field (`CallsAssumption`), and the body of a server's reply is a sequence
(`AnswersAssumption`). A theorem that needs more says so in its statement, and the
reason is given here.

* `FsVirtio9pProofs`. `TypeCorrect`: `Spec => []TypeOK`. `PoolAccounted`:
  `Spec => []PoolInv`. `NoFidLeak` by itself is not inductive: it speaks of idle
  states only, so it has to be said what the running handler holds at each point
  (`Held`) and that the call in progress is the one its `pc` waits for
  (`CallFitsPc`, `OpenInProgress`); `PoolInv` is that conjunction, and `FidsNeverLeak`
  follows from it. There is one lemma per group of handlers, and below it one step per
  action; the session's own steps are shared by all.
* Retries, in the same module. `RetriesApplyOnce`: `Spec => []AppliedAtMostOnce`, and the action
  property `SuccessIsApplied`: `Spec => AckedIsApplied`. `RetryInv` follows a mutation through
  Transact's reset and second try: it has not been carried out before its first send
  (`EarlyPc`); the reset unbinds every fid (`NothingBound`), so the second try names a fid
  the server does not know and cannot be carried out again. The one fid the reset itself
  binds is the root's, 0, which is the exception `AppliedAtMostOnce` makes.
* Fids at the server. `ServerFidsNeverLeak`: `RepliesWhole => (Spec => []NoServerFidLeak)`.
  `ServerInv`: every fid bound at the server is the root's, an open file's or one the running
  handler still clunks (`ServerHeld`), also across a reset, which unbinds what `Held` still
  counts. `RepliesWhole` (`"garbled" \notin Faults`) is what the run `fs_retry` has too: a walk
  that was carried out and whose reply does not parse leaves its fid bound, and the code
  gives the number back without a Tclunk (section 5).
* Agreement. `FidsAlwaysAgree`: `CountFaults /\ NoWrap => (Spec => []FidsAgree)`: as long as
  no exchange fails, the fids the pool counts are exactly those the server has bound.
  `AgreeInv` says it at every point of every handler: which fids are open files' (`Live`),
  which the handler's (`Mine`), which the walk in progress will bind, that they differ
  pairwise, and that the pool's numbers below `next_fid_` are those or free. `NoWrap`
  (`MaxFid + 2 < FidMod`) is the hypothesis that `fid_pool.cpp:23` needs: `next_fid_` wraps without
  a look at what is allocated. `CountFaults` is what makes `faults = 0` mean "no fault so far".
  `AgreeInv` was itself checked by TLC over the bounds of `fs_faults` before it was proved.
* `VirtioTransportProofs`, `MmioTransportProofs`, `PciTransportProofs`, in two layers.
  `TransportInv` adds to `TypeOK`, `ResourcesAccounted` and `NoLostWakeup` that at most one
  chain exists and none outside the wait (`AtMostOneChain`: a call adds the only chain,
  success takes it, failure goes through the reset that drops it) and that nothing is held
  when re-initialisation begins or the transport is shut down (`BareOnceFreed`, without which
  a second release could not be excluded). `MmioResourcesAccounted` and `PciResourcesAccounted`
  say three things of the queue memory, the two buffers, the channel, the connection and the
  interrupt attachment: the kernel has given out exactly what the fields claim
  (`ResourcesAccounted`), each step that gives one back was made by a transport that held it
  and holds it no more, and one is given out only to a transport that holds none
  (`EachGivenBackOnce`); after Shutdown none is out (`NothingKept`). They do not speak of
  what DiscoverDevice takes, which `AttemptGivesAllBack` does, nor of addresses kept after a
  release: that is the finding `pci_stale_address`. `NoLostWakeup` needs `AtMostOneChain`: with two chains the announcement of one
  could hide the other. Theorems: `MmioResourcesAccounted`, `MmioOneInFlight`,
  `MmioNoLostWakeup`, `PciTypeCorrect`, `PciResourcesAccounted`, `PciOneInFlight`,
  `PciNoLostWakeup`, for any `MaxStale`, queue size, number of spurious interrupts and set
  of failing stages.
* The second layer is the refinement. `CallInv` says who serves the one chain: it carries
  the running call's request and points to the page that is mapped, the server's answer
  is either not made yet or lies whole in that page. `PromiseStep` is one step of
  `Exchange` under the mapping, or a stutter; every action is shown to be one from
  `TransportInv /\ CallInv`, which gives `MmioImplementsExchange`, `PciImplementsExchange` and, as
  a chain only ever points to a mapped page, `MmioNoDmaToFreed` and `PciNoDmaToFreed`. All
  four assume `AtRest`: `MaxStale = 0`, and that the stage of the finding `pci_stale_address` does not fail. Each
  of the two is needed: TLC finds the counterexample otherwise. `MmioNoStalePulse` assumes
  `OnlyAnswersSignal`, as a spurious interrupt is by definition a pulse of no answer; its
  invariant `SignalledOnce` counts pulse, interrupt status and signal owed as one.
* `TestRunProofs`, the mount. `MountInvariant`: `MountSpec => []MountInv`. `MountedWhenTold` looks at
  the end of an attempt; it is inductive only with the history of each child kept in its
  `pc`: what it has said, which pipe ends are open, that at most one child is not yet
  shutting down and that this is the one the script waits for, and for the device which
  child attached it, what is mapped and who has the vector. One lemma per kind of step.
  `AttemptGivesAllBack` is read off it: a child about to exit has no registers, no interrupt, no
  device and no vector, wherever it failed, and none has the vector of another's device.
* `TestRunProofs`, the run. `RunInv` joins `MountInv` with what host and guest know of each other: the
  guest's scripts run only between the host's start of QEMU and its end, and until then
  the results are gone and every entry asked for is this run's or a failure is on record.
  Theorems: `RunTypeOK`, `MountTellsTruth`, `ExitCodeIsTrue`, `NothingLeftOver` and the action
  property `OwnerKeepsDevice`, for any number of child slots and any number of failures.
* `VirtqueueProofs`. `FreeListSound` alone is not inductive: GetBuf frees descriptor after
  descriptor, so what a half-freed chain is, and that no other chain shares its rest, has
  to be said at every step. `QueueInv` says that every head is in one place (`Once`: on
  offer, with the device or done), that every chain is as AddBuf made it (`ChainsWhole`), that
  no descriptor is in two chains (`ChainsApart`), what the free list is entry by entry
  (`FreeListIs`), and a count, `2 * chains + in hand + free = QueueSize` (`Counted`). The count
  stands in for an argument about full rings: no window between two indices is ever longer
  than half the queue, so a ring slot about to be written holds no live entry. The lemmas
  on `Slot` and `Ahead` are the arithmetic of indices that wrap; they are where
  `IdxMod % QueueSize = 0` of `QueueAssumption` is needed, without which a slot would move when
  the index wraps. Theorems: `QueueTypeCorrect` (`num_free_` never passes zero),
  `FreeListAlwaysSound`, `FullMeansFull` and the refinement `QueueImplementsBufferQueue`, for every
  queue size, index width and set of buffers.
* `DataPathProofs`. `DataTypeCorrect`, `ListingsInOrder`, `EmptyMeansEnd` and `AccessModesAgree` are
  the run's invariants for every number of open files, all data, sizes, iounits and listings.
  `EmptyMeansEnd` needs no invariant but the types: it is what the choice of `sent` and `kept`
  in one read makes of the two lengths of an entry. `AccessModesAgree` needs that the server
  still has the file open in the mode that the QNX access bits were translated to
  (`AccessInv`). The refinement is `HandlersImplementByteFile`: `Spec => ImplementsByteFile`.
  While chunks are sent the abstract file is the file before the write, so the step that
  answers must show that all chunks together were one `Store`. `WriteInv` says so as the loop
  goes: the file is the old one with the first `total` bytes of the client's data stored at
  the place where the write began. `ChunkIsNext` (a chunk is the next part of the data,
  whichever of the message and `resmgr_msgread` its bytes came from) and `StoreStore` (storing a
  piece and the piece behind it is to store both) carry it over a chunk, also for an
  append, where each chunk goes to the end that the last one made. One lemma per group of
  handlers (`SeenOpens`, `SeenReads`, `SeenStarts`, `SeenChunks`, `SeenElse`) maps its steps to
  steps of `ByteFile`, or to none that a program sees.
* `NinePWireProofs`, for every `B`, all requests and all texts. `RequestsUnderstood`:
  `Spec => []RequestUnderstood`. `ForeignRepliesRejected`: `Spec => []ForeignReplyRejected`.
  `RepliesUnderstood` and `CutRepliesInventNothing`: the other two properties of the run, where
  `ServerKeepsToLayouts`: a server that writes a number too large for its field, or a qid
  with no path, is not understood by anybody. The inductive invariant, `WireInv`, is short: what
  is on the wire is what the builder built for the call, or the server's reply, or a
  proper beginning of it, and the result is what ReplyResult makes of that. The work is in
  the operators. `Holds(d, off, p)` says that message `d` has the bytes `p` behind the first
  `off`. One side's bytes for a value are held where it put them, and the other side's read at
  that place gives the value and the place behind the bytes: one lemma per form of field and
  direction (`TextHeld`, `QidHeld`, `EntryHeld`; `DataHeld`, `NamesHeld`), with `TwoHeld`,
  `FourHeldAs` and `EightHeldAs` below them, the arithmetic of bytes and halves.
  `HoldsParts` takes a concatenation apart. The loops on both sides (`GetsWritten`,
  `EntriesWritten`, `FieldsSent`, `TextsHeld`) keep their place among the fields turn by
  turn, and `BuildSends` shows for each of the thirteen builders that its bytes are those of
  the layout. `CountTo` is the induction over the number of turns; it comes from
  `LeastNumber`, which the library's well-founded order of the natural numbers gives.
* A reply cut short. `GetStuck`: where fewer than four bytes are left, every integer of four
  or eight bytes is zero and the position stays, for all the fields that follow. The fields
  before the cut are read as sent, and one field is hit (`FieldCut`: of eight bytes the low
  half may be left, of a qid each part by itself). One to three bytes may still lie behind the
  position; only a field of one byte or a text's length can take them for its own, which is
  where the two exceptions of the property come from. `EntriesBounded`: whatever the bytes,
  the loop of ParseRreaddir counts 24 and more for every entry, so it makes no more than its
  count allows. `ForeignRepliesRejected` needs none of this: none of the parsers takes a message
  whose fifth byte is not the type asked for (`ParsersCheckTheType`), and a reply, whole or
  cut, has its type there or is too short for a header (`TypeOfReply`).

Every one of these invariants was an invariant of a TLC run on the bounds of its module's
run before it was proved.

Only model-checked: liveness (`HandlersTerminate`, `EveryChainReturns`, `ExchangeReturns`,
`WriteReturns`, `HostReturns`) under the fairness above, which is out of TLAPS's reach, as is
ENABLED. Every safety invariant and action property that a passing run checks is a theorem.
The library's induction theorems take an operator as a parameter, which the installed
provers cannot instantiate; where loops had to be followed for any number of turns, the
least counterexample serves instead (`LeastNumber`).

## 5. Corners worth knowing

Met while modelling; each is a hazard in `PROJECT.json`, or a remark on one. `V/src/` is
left out of paths.

Session and handlers

* A walk that was retried keeps the fid it took before the reset, which the reset pool
  does not know: the next walk may take the same fid while it is bound at the server.
* A re-initialisation that fails ends the request with its error and leaves the pool empty
  and the root unattached. The comment at `nine_p_session.cpp:39` says that the next attempt
  starts clean, but no attempt follows, and later requests go out without a root until one
  of them fails in the transport as well. The next walk is handed fid 0; a further failure
  then attaches the root under that same number, and the handler goes on with the
  root's own fid. `AppliedAtMostOnce` excepts this case.
* A walk the server carried out and whose reply does not parse fails: Walk gives the new
  fid's number back without a Tclunk, and the server keeps the fid bound until the next
  reset of the device. Theorem `ServerFidsNeverLeak` leaves the case out by `RepliesWhole`.
* The tag counter wraps through 65535, the value that stands for no tag (`nine_p_session.cpp:80`;
  `nine_p_types.h:32` keeps it for Tversion): the 65536th request after a reset carries it.
  What a 9P server makes of such a request is not modelled.
* `O_CREAT|O_EXCL` on a file that exists opens it (`fs_virtio9p.cpp:138`): the first walk
  succeeds, and nothing looks at `O_EXCL` then.
* GetAttr's result is ignored at `:147`: with a mode of 0 a directory is taken for a file, and
  `readdir` on it asks the server to read. `DataPath` has the case (`ConnectOpenDir`).
* IoRead looks neither at `xtype` nor at the message's position (`:298`): `pread` reads at the
  sequential offset and moves it. IoWrite does look. The comment at `fs_virtio9p.h:32` speaks
  of "sequential reads" and keeps no other promise.
* The offset is the driver's own and not the QNX OCB's, which the library's `lseek` moves: a
  seek has no effect on the next read or write.
* A write in chunks that fails after some were stored reports the error and leaves the
  offset; the bytes stay. `ByteFile` allows that, as POSIX does.
* An append moves the offset by what it wrote from where it was, not to the end of the
  file (`:458`); a later read of the same descriptor begins there.
* A message that announces more bytes than it carries makes `resmgr_msgread` return 0 and the
  loop send empty chunks without end (`:430`): neither the count nor the short-write check
  changes. No library call makes such a message; `DataPath`'s clients send what they announce.
* A reply to Treaddir that is cut inside an entry gives an entry without a name and
  with offset 0: the listing would begin again. The virtio device writes whole replies.
* A cut reply to Tgetattr can give a qid whose type is a byte of the field before it: with
  the cut inside `valid`, GetU64 stays where no four bytes are left, and GetQid reads one byte
  there (`nine_p_message.cpp:150`, `:470`). Nothing looks at that qid; the proof of
  `CutRepliesInventNothing` has it as an exception, found when the proof without it failed. A
  reply to Tread that is cut inside its data gives no data at all, not a part, and status
  0: a program would take it for the end of the file.
* The count of an Rread is added to the position in 32 bits (`nine_p_message.cpp:141`): one
  within eleven of 2^32 wraps and passes the check. `GetBytes` wraps as the code does;
  a server that keeps to the layouts never states such a count, which is what
  `RepliesUnderstood` and `CutRepliesInventNothing` assume.
* `fs_virtio9p.h:54` says the fork comes after `resmgr_attach`; the code forks before anything
  else, and says why at `fs_virtio9p.cpp:645`.

Transports

* ResetDevice's result is ignored. If its re-initialisation fails, every later Exchange
  returns -EINVAL and nothing resets the device again.
* A device that does not come to rest within ResetDevice's hundred reads (`MaxStale` > 0) can
  write an old answer into the new page after it was zeroed, which the comment "so stale
  data cannot leak across requests" excludes; the transports keep `Exchange` only without.
* An interrupt that overtakes the used-ring write (the "DMA/KVM ordering race") costs a
  PCI call nothing if the answer is there by the next check, else the full 30 s; an MMIO
  call gives up ten milliseconds after the pulse, and resets the device.
* A device that offers a queue of one descriptor is accepted; AddBuf then always fails.
* `irq_num_` is not cleared, so the destructor's Shutdown asks `rsrcdbmgr_detach` for the interrupt
  a second time (`:1026`); the database gives back only what the process still has, which
  the next attempt, a process of its own, does not notice (`OwnersDeviceStays`).
* The INTx-disable bit set at `pci_transport.cpp:523` is never cleared: it outlives the process,
  and an attempt that gets no MSI-X finds INTx off.

Start-up and scripts

* A first Tattach that had to be retried meets its own fid, attached by the nested
  re-initialisation; start-up fails and `startup.sh` tries again, where the
  comment at `nine_p_session.cpp:39` says that the next attempt starts clean. `fs_retry` has the
  case: no property calls it wrong, as the restarted daemon finds a device that was reset.
* An attempt that failed has told its parent before it shuts down, so the next begins while
  the device is still in use. For PCI the attach refuses it. An MMIO device has no owner:
  the reset of the old Shutdown may strike the new set-up, whose session then times out
  and sets the device up anew. A failed probe resets the device as well, whatever is at
  that address (`mmio_transport.cpp:64`).
* `[ -f ]` is false as well when the `stat` fails: a test whose arguments' file could not be
  reached runs without them, and may pass. `GuestGetsThisRun` allows it after a failure.

## 6. Not modelled, and the plan

Not modelled, and why:

* `IoStat`'s stat structure, the attributes that all OCBs share and the default `lseek`: the
  QNX library's code decides what becomes of them.
* The register sequences of `Initialize`, capability parsing and `GetMountTag`: straight-line
  I/O; only whether a stage fails, what it holds and what it touches matters.
* Logging: no state depends on it. Build rules and the credential helper: no state machine.
* `run_qemu.sh`, `run_qemu_shell.sh`, the choice of accelerator, the other servers that
  `startup.sh` starts, `test.xml`: nothing comes back from them to the host.
* Time, which is abstracted to "may time out now".

Done in this order: session and handlers, their proofs; virtqueue and its refinement;
transports, their refinement and proofs; data path; codec; start-up, test run and their
proofs; the transports' refinement proofs; the virtqueue's proofs; the proofs about retries,
the server's fids and their agreement; the data path's proofs and refinement; the codec's
theorems. Next, most important first:

1. The MMIO device two attempts share, with the transport's own steps in place of `Session`,
   to see how soon the struck one recovers.
2. `IoStat`, once the library's part of it is described.
