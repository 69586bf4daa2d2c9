----------------------------- MODULE FsVirtio9p -----------------------------
(***************************************************************************)
(* The resource manager of fs-virtio9p: the connect and I/O handlers of    *)
(* fs_virtio9p.cpp over the 9P session of NinePSession.tla.  One thread    *)
(* dispatches one client message at a time (the loop of FsVirtio9pMain);   *)
(* pc is where in which handler that thread is, and a handler waits at its *)
(* pc until the session call it made has returned (call = NoCall).         *)
(*                                                                         *)
(* Early returns that touch no state (an empty path, a mknod that is not a *)
(* mkdir, a failed iofunc verify) are left out.  Paths are left out too:   *)
(* the server's reply to a walk decides which object the path names.       *)
(***************************************************************************)
EXTENDS NinePSession

CONSTANTS
    Ocb,       \* open files a client may hold at the same time
    Ops,       \* client requests that occur in this instance
    MaxFid,    \* bound: no new request once next_fid_ is beyond this
    MaxChunks  \* bound: messages one IoWrite is split into

ASSUME OcbAssumption == Ocb # {}
ASSUME OpsAssumption ==
    Ops \subseteq {"open", "create", "io", "write", "close", "mkdir",
                   "unlink", "rename"}
ASSUME BoundAssumption == MaxFid \in Nat /\ MaxChunks \in Nat \ {0}

VARIABLES pc,   \* the dispatch thread's place in a handler
          loc,  \* the handler's local variables
          ocb   \* Virtio9pOcb of every open file

vars == <<sessionVars, pc, loc, ocb>>

Pc == {"InitVersion", "InitAttach", "exited", "idle",
       "OpenWalk", "OpenOpen", "OpenGetAttr", "OpenParent", "OpenCreate",
       "OpenAttachOcb", "OpenUndo", "Io", "Write", "Close",
       "MkdirParent", "UnlinkParent", "UnlinkTarget", "UnlinkGetAttr",
       "UnlinkClunkTarget", "RenameOld", "RenameNew",
       "ParentOp", "RenameOp", "RenameClunkOld", "ClunkParent"}

NoOcb  == CHOOSE o \in Ocb : TRUE
NoLoc  == [ocb |-> NoOcb, create |-> FALSE, excl |-> FALSE, fid |-> 0,
           fid2 |-> 0, obj |-> NoObj, created |-> FALSE, isDir |-> FALSE,
           left |-> 0, rc |-> "ok"]
Closed == [fid |-> 0, obj |-> NoObj, isDir |-> FALSE]

\* obj is the object the client opened; the code keeps only the fid.
IsOpen(o) == ocb[o].obj # NoObj
OpenOcbs  == {o \in Ocb : IsOpen(o)}
OpenFids  == {ocb[o].fid : o \in OpenOcbs}

-----------------------------------------------------------------------------
(* Control: a client request begins, a session call has returned, a        *)
(* handler calls the session again, a handler replies to its client.       *)

Begin(op) == /\ pc = "idle"
             /\ op \in Ops
             /\ nextFid <= MaxFid
             /\ applied' = 0
             /\ UNCHANGED <<srvFids, faults, ocb>>

Returned(p) == /\ pc = p
               /\ call = NoCall
               /\ UNCHANGED <<srvFids, applied, faults>>

Then(p, t, f, f2) == pc' = p /\ Issue(t, f, f2) /\ UNCHANGED poolVars

ThenWalk(p) == pc' = p /\ IssueWalk

Done(code) == /\ pc' = "idle" /\ loc' = NoLoc /\ rc' = code
              /\ UNCHANGED <<allocated, nextFid, rootFid, nextTag, call>>

-----------------------------------------------------------------------------
(* FsVirtio9pMain: Initialize the session, serve, or exit and be started   *)
(* again by startup.sh.                                                    *)

InitVersionDone ==
    /\ Returned("InitVersion")
    /\ UNCHANGED <<loc, ocb>>
    /\ \/ rc = "ok" /\ pc' = "InitAttach" /\ IssueAttach
       \/ /\ rc # "ok" /\ pc' = "exited"
          /\ UNCHANGED <<allocated, nextFid, rootFid, nextTag, call, rc>>

InitAttachDone ==
    /\ Returned("InitAttach")
    /\ pc' = IF rc = "ok" THEN "idle" ELSE "exited"
    /\ UNCHANGED <<allocated, nextFid, rootFid, nextTag, call, rc, loc, ocb>>

\* A new process resets the device before it sends Tversion.
Restart ==
    /\ pc = "exited" /\ pc' = "InitVersion"
    /\ allocated' = {} /\ nextFid' = 0 /\ rootFid' = 0 /\ nextTag' = 0
    /\ call' = [NoCall EXCEPT !.phase = "send"]
    /\ rc' = "ok" /\ srvFids' = Unbound /\ applied' = 0
    /\ UNCHANGED <<faults, loc, ocb>>

\* dispatch_block: the thread waits for the next client message.
AwaitMessage == pc = "idle" /\ UNCHANGED vars

-----------------------------------------------------------------------------
(* ConnectOpen.                                                            *)

ConnectOpen(o, create, excl) ==
    /\ Begin(IF create THEN "create" ELSE "open")
    /\ ~IsOpen(o)
    /\ excl => create
    /\ loc' = [NoLoc EXCEPT !.ocb = o, !.create = create, !.excl = excl,
                            !.fid = nextFid]
    /\ ThenWalk("OpenWalk")

OpenWalked ==
    /\ Returned("OpenWalk")
    /\ UNCHANGED ocb
    /\ \/ /\ rc = "ok"
          /\ loc' = [loc EXCEPT !.obj = srvFids[loc.fid]]
          /\ Then("OpenOpen", "open", loc.fid, 0)
       \/ /\ rc = "ENOENT" /\ loc.create
          /\ loc' = [loc EXCEPT !.fid = nextFid]
          /\ ThenWalk("OpenParent")
       \/ rc = "ENOENT" /\ loc.create /\ Done("EINVAL")  \* no base name
       \/ rc # "ok" /\ ~(rc = "ENOENT" /\ loc.create) /\ Done(rc)

\* (Mutant: the error returns do not clunk.)
OpenFailedNoClunk == Done(rc)
OpenFailed == /\ loc' = [loc EXCEPT !.rc = rc]
              /\ Then("OpenUndo", "clunk", loc.fid, 0)

OpenOpened ==
    /\ Returned("OpenOpen")
    /\ UNCHANGED ocb
    /\ \/ /\ rc = "ok" /\ UNCHANGED loc
          /\ Then("OpenGetAttr", "getattr", loc.fid, 0)
       \/ rc # "ok" /\ OpenFailed

\* The result of GetAttr is not looked at: on failure the mode stays 0.
OpenStatted ==
    /\ Returned("OpenGetAttr")
    /\ loc' = [loc EXCEPT !.isDir = rc = "ok" /\ srvFids[loc.fid] \in Dirs]
    /\ pc' = "OpenAttachOcb"
    /\ UNCHANGED <<allocated, nextFid, rootFid, nextTag, call, rc, ocb>>

OpenParentWalked ==
    /\ Returned("OpenParent")
    /\ UNCHANGED ocb
    /\ \/ /\ rc = "ok" /\ UNCHANGED loc
          /\ Then("OpenCreate", "create", loc.fid, 0)
       \/ rc # "ok" /\ Done(rc)

OpenCreated ==
    /\ Returned("OpenCreate")
    /\ UNCHANGED ocb
    /\ \/ /\ rc = "ok" /\ pc' = "OpenAttachOcb"
          /\ loc' = [loc EXCEPT !.obj = srvFids[loc.fid], !.created = TRUE]
          /\ UNCHANGED <<allocated, nextFid, rootFid, nextTag, call, rc>>
       \/ rc # "ok" /\ OpenFailed

\* iofunc_open_default allocates the OCB or refuses the open.
OpenAttachOcb ==
    /\ Returned("OpenAttachOcb")
    /\ \/ /\ ocb' = [ocb EXCEPT ![loc.ocb] =
                       [fid |-> loc.fid, obj |-> loc.obj, isDir |-> loc.isDir]]
          /\ Done("ok")
       \/ /\ loc' = [loc EXCEPT !.rc = "EINVAL"]
          /\ Then("OpenUndo", "clunk", loc.fid, 0)
          /\ UNCHANGED ocb

OpenUndone == Returned("OpenUndo") /\ Done(loc.rc) /\ UNCHANGED ocb

-----------------------------------------------------------------------------
(* IoRead and IoStat make one session call, IoWrite one per chunk.         *)

IoRequest(o) == /\ Begin("io") /\ IsOpen(o)
                /\ Then("Io", "io", ocb[o].fid, 0)
                /\ loc' = [NoLoc EXCEPT !.ocb = o]

IoDone == Returned("Io") /\ Done(rc) /\ UNCHANGED ocb

IoWrite(o, chunks) == /\ Begin("write") /\ IsOpen(o)
                      /\ Then("Write", "io", ocb[o].fid, 0)
                      /\ loc' = [NoLoc EXCEPT !.ocb = o, !.left = chunks - 1]

IoWritten ==
    /\ Returned("Write")
    /\ UNCHANGED ocb
    /\ \/ /\ rc = "ok" /\ loc.left > 0
          /\ loc' = [loc EXCEPT !.left = @ - 1]
          /\ Then("Write", "io", ocb[loc.ocb].fid, 0)
       \/ Done(rc)  \* all written, a short write, or an error

IoCloseOcb(o) == /\ Begin("close") /\ IsOpen(o)
                 /\ Then("Close", "clunk", ocb[o].fid, 0)
                 /\ loc' = [NoLoc EXCEPT !.ocb = o]

\* The OCB goes away whatever became of the Tclunk.
IoClosed == /\ Returned("Close")
            /\ ocb' = [ocb EXCEPT ![loc.ocb] = Closed]
            /\ Done("ok")

-----------------------------------------------------------------------------
(* ConnectMknod (mkdir), ConnectUnlink and ConnectRename.                  *)

ConnectMknod == /\ Begin("mkdir") /\ ThenWalk("MkdirParent")
                /\ loc' = [NoLoc EXCEPT !.fid = nextFid]

MkdirParentWalked ==
    /\ Returned("MkdirParent")
    /\ UNCHANGED ocb
    /\ \/ /\ rc = "ok" /\ UNCHANGED loc
          /\ Then("ParentOp", "mkdir", loc.fid, 0)
       \/ rc # "ok" /\ Done(rc)

ConnectUnlink == /\ Begin("unlink") /\ ThenWalk("UnlinkParent")
                 /\ loc' = [NoLoc EXCEPT !.fid = nextFid]

UnlinkParentWalked ==
    /\ Returned("UnlinkParent")
    /\ UNCHANGED ocb
    /\ \/ /\ rc = "ok" /\ ThenWalk("UnlinkTarget")
          /\ loc' = [loc EXCEPT !.fid2 = nextFid]
       \/ rc # "ok" /\ Done(rc)

\* A target that cannot be walked to is still unlinked, as a file.
UnlinkTargetWalked ==
    /\ Returned("UnlinkTarget")
    /\ UNCHANGED <<loc, ocb>>
    /\ \/ rc = "ok" /\ Then("UnlinkGetAttr", "getattr", loc.fid2, 0)
       \/ rc # "ok" /\ Then("ParentOp", "unlink", loc.fid, 0)

UnlinkTargetStatted == /\ Returned("UnlinkGetAttr")
                       /\ Then("UnlinkClunkTarget", "clunk", loc.fid2, 0)
                       /\ UNCHANGED <<loc, ocb>>

UnlinkTargetClunked == /\ Returned("UnlinkClunkTarget")
                       /\ Then("ParentOp", "unlink", loc.fid, 0)
                       /\ UNCHANGED <<loc, ocb>>

ConnectRename == /\ Begin("rename") /\ ThenWalk("RenameOld")
                 /\ loc' = [NoLoc EXCEPT !.fid = nextFid]

RenameOldWalked ==
    /\ Returned("RenameOld")
    /\ UNCHANGED ocb
    /\ \/ /\ rc = "ok" /\ ThenWalk("RenameNew")
          /\ loc' = [loc EXCEPT !.fid2 = nextFid]
       \/ /\ rc = "ok"  \* the new path has no base name
          /\ loc' = [loc EXCEPT !.rc = "EINVAL"]
          /\ Then("ClunkParent", "clunk", loc.fid, 0)
       \/ rc # "ok" /\ Done(rc)

\* (Mutant: a failed second walk forgets the first one's fid.)
RenameNewWalkedNoClunk ==
    /\ Returned("RenameNew")
    /\ UNCHANGED ocb
    /\ \/ /\ rc = "ok" /\ UNCHANGED loc
          /\ Then("RenameOp", "rename", loc.fid, loc.fid2)
       \/ rc # "ok" /\ Done(rc)
RenameNewWalked ==
    /\ Returned("RenameNew")
    /\ UNCHANGED ocb
    /\ \/ /\ rc = "ok" /\ UNCHANGED loc
          /\ Then("RenameOp", "rename", loc.fid, loc.fid2)
       \/ /\ rc # "ok" /\ loc' = [loc EXCEPT !.rc = rc]
          /\ Then("ClunkParent", "clunk", loc.fid, 0)

RenameOpDone == /\ Returned("RenameOp")
                /\ loc' = [loc EXCEPT !.rc = rc]
                /\ Then("RenameClunkOld", "clunk", loc.fid, 0)
                /\ UNCHANGED ocb

RenameOldClunked == /\ Returned("RenameClunkOld")
                    /\ Then("ClunkParent", "clunk", loc.fid2, 0)
                    /\ UNCHANGED <<loc, ocb>>

\* Mkdir or Unlink has returned; the client gets its result, not Clunk's.
ParentOpDone == /\ Returned("ParentOp")
                /\ loc' = [loc EXCEPT !.rc = rc]
                /\ Then("ClunkParent", "clunk", loc.fid, 0)
                /\ UNCHANGED ocb

\* (Mutant: the client gets Clunk's result.)
ParentClunkedReply ==
    Returned("ClunkParent") /\ Done(rc) /\ UNCHANGED ocb
ParentClunked == Returned("ClunkParent") /\ Done(loc.rc) /\ UNCHANGED ocb

-----------------------------------------------------------------------------
Init == /\ SessionInit
        /\ pc = "InitVersion"
        /\ loc = NoLoc
        /\ ocb = [o \in Ocb |-> Closed]

ClientRequest ==
    \/ \E o \in Ocb : \/ \E create, excl \in BOOLEAN :
                            ConnectOpen(o, create, excl)
                      \/ IoRequest(o)
                      \/ \E n \in 1 .. MaxChunks : IoWrite(o, n)
                      \/ IoCloseOcb(o)
    \/ ConnectMknod \/ ConnectUnlink \/ ConnectRename

HandlerStep ==
    \/ InitVersionDone \/ InitAttachDone
    \/ OpenWalked \/ OpenOpened \/ OpenStatted \/ OpenParentWalked
    \/ OpenCreated \/ OpenAttachOcb \/ OpenUndone
    \/ IoDone \/ IoWritten \/ IoClosed
    \/ MkdirParentWalked
    \/ UnlinkParentWalked \/ UnlinkTargetWalked \/ UnlinkTargetStatted
    \/ UnlinkTargetClunked
    \/ RenameOldWalked \/ RenameNewWalked \/ RenameOpDone \/ RenameOldClunked
    \/ ParentOpDone \/ ParentClunked

SessionStep == Transact /\ UNCHANGED <<pc, loc, ocb>>

Next == ClientRequest \/ HandlerStep \/ SessionStep \/ Restart \/ AwaitMessage

\* The thread runs on by itself: every exchange returns (the transports time
\* out) and no handler blocks between its session calls.
Fairness == WF_vars(HandlerStep \/ SessionStep)

Spec == Init /\ [][Next]_vars /\ Fairness

-----------------------------------------------------------------------------
(* Correctness.                                                            *)

\* Every variable has its type; nothing else is claimed by it.
Locals == [ocb : Ocb, create : BOOLEAN, excl : BOOLEAN, fid : Fid, fid2 : Fid,
           obj : Obj \cup {NoObj}, created : BOOLEAN, isDir : BOOLEAN,
           left : 0 .. MaxChunks - 1, rc : Code]
OcbState == [fid : Fid, obj : Obj \cup {NoObj}, isDir : BOOLEAN]
HandlerTypeOK == pc \in Pc /\ loc \in Locals /\ ocb \in [Ocb -> OcbState]
TypeOK == SessionTypeOK /\ HandlerTypeOK

\* When no request is being handled the pool holds nothing but the root fid
\* and the fids of open files, on whatever path the handlers left, and
\* whichever exchanges failed on the way.  (Fid 0 may stay behind: a Tversion
\* of Initialize that had to be retried leaves it allocated.)
NoFidLeak == pc = "idle" => allocated \subseteq {0, rootFid} \cup OpenFids

\* Why: at every step of every handler the pool holds, besides those, only
\* what this handler will still give back or hand to an open file (Held).
OnlyIf(c, f) == IF c THEN {f} ELSE {}
Pending  == call # NoCall
OpenPc   == {"OpenWalk", "OpenOpen", "OpenGetAttr", "OpenParent", "OpenCreate",
             "OpenAttachOcb"}
WalkPc   == {"OpenWalk", "OpenParent", "MkdirParent", "UnlinkParent",
             "RenameOld"}
Walk2Pc  == {"UnlinkTarget", "RenameNew"}
ClunkPc  == {"OpenUndo", "ClunkParent", "UnlinkClunkTarget", "RenameClunkOld",
             "Close"}
Held ==
    OnlyIf(\/ pc \in {"OpenOpen", "OpenGetAttr", "OpenCreate",
                     "OpenAttachOcb", "ParentOp", "UnlinkTarget", "RenameNew",
                     "UnlinkGetAttr", "UnlinkClunkTarget", "RenameOp"}
           \/ pc \in WalkPc /\ (Pending \/ rc = "ok"), loc.fid)
    \cup OnlyIf(\/ pc \in {"UnlinkGetAttr", "RenameOp", "RenameClunkOld"}
                \/ pc \in Walk2Pc /\ (Pending \/ rc = "ok"), loc.fid2)
    \cup OnlyIf(pc \in ClunkPc /\ Pending, call.fid)

\* The call in progress is the one this place in the handler waits for.
CallFitsPc ==
    /\ pc \in {"idle", "exited", "OpenAttachOcb"} => ~Pending
    /\ Pending =>
        /\ call.phase # "none"
        /\ call.type = "walk" <=> pc \in WalkPc \cup Walk2Pc
        /\ pc \in WalkPc => call.fid2 = loc.fid
        /\ pc \in Walk2Pc => call.fid2 = loc.fid2
        /\ call.type = "clunk" <=> pc \in ClunkPc
        /\ pc = "UnlinkClunkTarget" => call.fid = loc.fid2
        /\ pc = "RenameClunkOld" => call.fid = loc.fid
        /\ pc = "Close" => call.fid = ocb[loc.ocb].fid
        /\ pc = "OpenCreate" => call.type = "create" /\ call.fid = loc.fid
        /\ call.phase = "reVersion" => allocated = {} /\ nextFid = 0

\* The fid of an open is bound when its walk or create has succeeded, and
\* the OCB it is for is still free.
OpenInProgress ==
    /\ pc \in OpenPc => ~IsOpen(loc.ocb)
    /\ pc \in {"OpenWalk", "OpenCreate"} /\ ~Pending /\ rc = "ok" =>
          Bound(loc.fid)
    /\ pc \in {"OpenOpen", "OpenGetAttr", "OpenAttachOcb"} => loc.obj # NoObj

PoolInv ==
    /\ allocated \subseteq {0, rootFid} \cup OpenFids \cup Held
    /\ pc = "Close" => IsOpen(loc.ocb)
    /\ pc = "Close" /\ ~Pending => ocb[loc.ocb].fid \notin allocated
    /\ pc = "InitVersion" => rootFid = 0
    /\ pc \in {"InitVersion", "InitAttach", "exited"} => OpenFids = {}
    /\ CallFitsPc
    /\ OpenInProgress

\* The same for the server: it keeps no fid the driver has forgotten, so
\* its table does not grow with failed requests either.  (Fids 0 and 1 may be
\* left from an Initialize whose Tversion and Tattach had to be retried.)
NoServerFidLeak ==
    pc = "idle" =>
        {f \in Fid : Bound(f)} \subseteq {0, 1, rootFid} \cup OpenFids

\* Without failed exchanges the driver and the server agree between requests:
\* both know exactly the root fid and one fid per open file, and the fid of
\* a file stands for the object that was opened.
FidsAgree ==
    pc = "idle" /\ faults = 0 =>
        /\ allocated = {rootFid} \cup OpenFids
        /\ {f \in Fid : Bound(f)} = allocated
        /\ srvFids[rootFid] = Root
        /\ \A o \in OpenOcbs : srvFids[ocb[o].fid] = ocb[o].obj
        /\ \A o, p \in OpenOcbs : ocb[o].fid = ocb[p].fid => o = p
        /\ rootFid \notin OpenFids

\* However many exchanges fail, the retries make the server carry out a
\* create, mkdir, unlink or rename of one client request at most once: the
\* retry names a fid that the reset has unbound.  The exception is a handler
\* that was handed the root's own fid after two failures in a row (README).
AppliedAtMostOnce == applied > 1 => loc.fid = rootFid

\* A client that is told its mkdir, unlink, rename or create succeeded can
\* rely on the server having carried it out.
AckedIsApplied ==
    [][pc' = "idle" /\ rc' = "ok" /\ (pc = "ClunkParent" \/ loc.created)
         => applied >= 1]_vars

\* Every client request is answered, however many exchanges fail.
HandlersTerminate ==
    pc \notin {"idle", "exited"} ~> pc \in {"idle", "exited"}
=============================================================================
