---------------------------- MODULE NinePSession ----------------------------
(***************************************************************************)
(* The 9P2000.L session of fs-virtio9p: the fid pool, the tag counter and  *)
(* the request loop (NinePSession::Transact) that retries a request after  *)
(* a failed exchange by first re-establishing the session (Tversion and    *)
(* Tattach).  The session is driven by one thread; FsVirtio9p.tla adds the *)
(* resource manager handlers that call it.                                 *)
(*                                                                         *)
(* The other end, QEMU's 9P server with the exported directory, is         *)
(* external.  It is a table from fids to objects and a set of replies per  *)
(* request.  The directory is shared with the host, so which object a path *)
(* names, and whether a request is refused, is nondeterministic.           *)
(***************************************************************************)
EXTENDS Naturals, FiniteSets

CONSTANTS
    FidMod,      \* number of fid values, 2^32 in the code
    TagMod,      \* number of tag values, 2^16 in the code
    Root,        \* the exported directory
    Dirs,        \* the directories a walk may reach, Root among them
    Files,       \* the regular files a walk may reach
    NoObj,       \* what an unbound fid stands for
    Faults,      \* kinds of failed exchange that occur in this instance
    MaxFaults,   \* at most this many of them ...
    CountFaults  \* ... when they are counted; FALSE leaves them unlimited

ASSUME FidModAssumption == FidMod \in Nat /\ FidMod > 1
ASSUME TagModAssumption == TagMod \in Nat /\ TagMod > 0
ASSUME ObjAssumption == /\ Root \in Dirs
                        /\ Dirs \cap Files = {}
                        /\ NoObj \notin Dirs \cup Files
ASSUME FaultAssumption == /\ Faults \subseteq {"lost", "late", "garbled"}
                          /\ MaxFaults \in Nat
                          /\ CountFaults \in BOOLEAN

VARIABLES
    allocated,  \* FidPool::allocated_
    nextFid,    \* FidPool::next_fid_
    rootFid,    \* NinePSession::root_fid_
    nextTag,    \* NinePSession::next_tag_
    call,       \* the request Transact is working on, NoCall when none
    rc,         \* result of the last session call, "ok" for 0
    srvFids,    \* the server's fid table
    applied,    \* mutations the server made for the current client request
    faults      \* failed exchanges so far, when counted

poolVars    == <<allocated, nextFid>>
serverVars  == <<srvFids, applied, faults>>
sessionVars == <<allocated, nextFid, rootFid, nextTag, call, rc,
                 srvFids, applied, faults>>

kMaxRetries == 3

Fid  == 0 .. FidMod - 1
Tag  == 0 .. TagMod - 1
Obj  == Dirs \cup Files
Code == {"ok", "ENOENT", "EINVAL", "EIO"}
Mutation == {"create", "mkdir", "unlink", "rename"}
Request  == {"version", "attach", "walk", "open", "getattr", "io", "clunk"}
              \cup Mutation
Phase    == {"none", "send", "reVersion", "reAttach"}

NoCall == [type |-> "version", fid |-> 0, fid2 |-> 0, tag |-> 0,
           attempt |-> 0, phase |-> "none"]

Message(t, f, f2) == [type |-> t, fid |-> f, fid2 |-> f2]

-----------------------------------------------------------------------------
(* The external server: what it may reply to a message, and its fid table  *)
(* and number of mutations afterwards.                                     *)

Unbound == [f \in Fid |-> NoObj]
Bound(f) == srvFids[f] # NoObj
Bind(f, o) == [srvFids EXCEPT ![f] = o]

Reply(code, fids, n) == [rc |-> code, fids |-> fids, mutations |-> n]
Refusal == {Reply(e, srvFids, 0) : e \in {"ENOENT", "EINVAL"}}

\* Tversion aborts everything outstanding and forgets every fid.
VersionReply == {Reply("ok", Unbound, 0), Reply("EINVAL", Unbound, 0)}

\* A fid in use cannot be attached again.
AttachReply(f) ==
    IF Bound(f) THEN {Reply("EINVAL", srvFids, 0)}
                ELSE Refusal \cup {Reply("ok", Bind(f, Root), 0)}

\* A walk may rebind its own fid; any other new fid must be free.
WalkReply(f, f2) ==
    IF f # f2 /\ Bound(f2)
    THEN {Reply("EINVAL", srvFids, 0)}
    ELSE Refusal \cup {Reply("ok", Bind(f2, o), 0) : o \in Obj}

\* Tlcreate turns the directory's fid into the new open file's.
MutationReply(t, f, f2) ==
    IF srvFids[f] \notin Dirs \/ (t = "rename" /\ ~Bound(f2))
    THEN {Reply("EINVAL", srvFids, 0)}
    ELSE Refusal \cup
         IF t = "create" THEN {Reply("ok", Bind(f, o), 1) : o \in Files}
                         ELSE {Reply("ok", srvFids, 1)}

AttachedReplies(m) ==
    IF ~Bound(m.fid) THEN {Reply("ENOENT", srvFids, 0)}
    ELSE IF m.type = "walk" THEN WalkReply(m.fid, m.fid2)
    ELSE IF m.type = "clunk" THEN {Reply("ok", Bind(m.fid, NoObj), 0)}
    ELSE IF m.type \in Mutation THEN MutationReply(m.type, m.fid, m.fid2)
    ELSE Refusal \cup {Reply("ok", srvFids, 0)}

Replies(m) ==
    IF m.type = "version" THEN VersionReply
    ELSE IF m.type = "attach" THEN AttachReply(m.fid)
    ELSE AttachedReplies(m)

-----------------------------------------------------------------------------
(* One exchange over the transport.                                        *)

\* The server's reply r arrives and parses.
Answered(r) == /\ srvFids' = r.fids
               /\ applied' = applied + r.mutations
               /\ UNCHANGED faults

Fault == faults < MaxFaults /\ faults' = IF CountFaults THEN faults + 1
                                                        ELSE faults

\* Exchange fails and has reset the device, which drops every server fid.
\* The request was lost, or it was served and its answer came too late.
Lost(m) == /\ Fault
           /\ srvFids' = Unbound
           /\ \/ "lost" \in Faults /\ applied' = applied
              \/ /\ "late" \in Faults
                 /\ \E r \in Replies(m) : applied' = applied + r.mutations

\* The reply arrives, without a reset, but does not parse.
Garbled(m) == /\ Fault
              /\ "garbled" \in Faults
              /\ \E r \in Replies(m) : /\ srvFids' = r.fids
                                       /\ applied' = applied + r.mutations

-----------------------------------------------------------------------------
(* FidPool and the tag counter.                                            *)

Succ(n, mod) == IF n = mod - 1 THEN 0 ELSE n + 1

\* Allocate hands out next_fid_ whether or not it is allocated already.
Allocate == /\ nextFid' = Succ(nextFid, FidMod)
            /\ allocated' = allocated \cup {nextFid}

\* (Mutant: the counter is wider than the tag field.)
NextTagNoWrap == nextTag' = nextTag + 1
NextTag == nextTag' = Succ(nextTag, TagMod)

-----------------------------------------------------------------------------
(* Calls into the session.                                                 *)

\* Start a session operation on known fids.
Issue(t, f, f2) ==
    /\ call' = [type |-> t, fid |-> f, fid2 |-> f2, tag |-> nextTag,
                attempt |-> 0, phase |-> "send"]
    /\ NextTag
    /\ UNCHANGED <<rootFid, rc>>

\* Walk and WalkParent start from the root fid and bind a newly allocated one.
IssueWalk == Issue("walk", rootFid, nextFid) /\ Allocate

\* The operation returns: Clunk releases its fid whatever the outcome, Walk
\* and Initialize release theirs on failure.
\* (Mutant: a failed Walk keeps its fid.)
ReleasedByClunkOnly(code) == IF call.type = "clunk" THEN {call.fid} ELSE {}
Released(code) == CASE call.type = "clunk" -> {call.fid}
                    [] call.type = "walk" /\ code # "ok" -> {call.fid2}
                    [] call.type = "attach" /\ code # "ok" -> {rootFid}
                    [] OTHER -> {}

Return(code, alsoReleased) ==
    /\ call' = NoCall
    /\ rc' = code
    /\ allocated' = (allocated \ alsoReleased) \ Released(code)
    /\ UNCHANGED <<nextFid, rootFid, nextTag>>

-----------------------------------------------------------------------------
(* Transact.                                                               *)

Sent == Message(call.type, call.fid, call.fid2)

TransactReply ==
    /\ call.phase = "send"
    /\ \/ \E r \in Replies(Sent) : Answered(r) /\ Return(r.rc, {})
       \/ Garbled(Sent) /\ Return("EIO", {})

\* (Mutant: a late request is sent again at once, with no reset between.)
TransactFailsAtOnce ==
    /\ call.phase = "send"
    /\ Fault
    /\ \E r \in Replies(Sent) : srvFids' = r.fids /\ applied' = applied + r.mutations
    /\ IF call.attempt + 1 < kMaxRetries
       THEN /\ call' = [call EXCEPT !.attempt = @ + 1]
            /\ UNCHANGED <<allocated, nextFid, rootFid, nextTag, rc>>
       ELSE Return("ETIMEDOUT", {})

\* Exchange failed: Reinitialize resets the pool and the tags and sends
\* Tversion.
TransactFails ==
    /\ call.phase = "send"
    /\ Lost(Sent)
    /\ allocated' = {} /\ nextFid' = 0 /\ nextTag' = 0
    /\ call' = [call EXCEPT !.phase = "reVersion"]
    /\ UNCHANGED <<rootFid, rc>>

Tversion == Message("version", 0, 0)
Tattach  == Message("attach", rootFid, 0)

ReinitVersion ==
    /\ call.phase = "reVersion"
    /\ \/ \E r \in Replies(Tversion) :
            /\ r.rc = "ok"
            /\ Answered(r)
            /\ rootFid' = nextFid /\ Allocate /\ NextTag
            /\ call' = [call EXCEPT !.phase = "reAttach"]
            /\ UNCHANGED rc
       \/ \E r \in Replies(Tversion) :
            r.rc # "ok" /\ Answered(r) /\ Return("EIO", {})
       \/ (Garbled(Tversion) \/ Lost(Tversion)) /\ Return("EIO", {})

\* The session is attached again: the same request is retried, unless this
\* was the last attempt.
\* (Mutant: the retry does not count.)
ReinitDoneUncounted ==
    /\ call' = [call EXCEPT !.phase = "send"]
    /\ UNCHANGED <<allocated, nextFid, rootFid, nextTag, rc>>
ReinitDone ==
    IF call.attempt + 1 < kMaxRetries
    THEN /\ call' = [call EXCEPT !.phase = "send", !.attempt = @ + 1]
         /\ UNCHANGED <<allocated, nextFid, rootFid, nextTag, rc>>
    ELSE Return("EIO", {})

ReinitAttach ==
    /\ call.phase = "reAttach"
    /\ \/ \E r \in Replies(Tattach) : r.rc = "ok" /\ Answered(r) /\ ReinitDone
       \/ \E r \in Replies(Tattach) :
            r.rc # "ok" /\ Answered(r) /\ Return("EIO", {rootFid})
       \/ (Garbled(Tattach) \/ Lost(Tattach)) /\ Return("EIO", {rootFid})

Transact == TransactReply \/ TransactFails \/ ReinitVersion \/ ReinitAttach

-----------------------------------------------------------------------------
(* A fresh process starts Initialize with its Tversion.                    *)

SessionInit ==
    /\ allocated = {} /\ nextFid = 0 /\ rootFid = 0 /\ nextTag = 0
    /\ call = [NoCall EXCEPT !.phase = "send"]
    /\ rc = "ok"
    /\ srvFids = Unbound
    /\ applied = 0
    /\ faults = 0

\* Initialize continues with Tattach on a new root fid once Tversion is
\* answered.
IssueAttach == /\ rootFid' = nextFid /\ Allocate /\ NextTag
               /\ call' = [type |-> "attach", fid |-> nextFid, fid2 |-> 0,
                           tag |-> nextTag, attempt |-> 0, phase |-> "send"]
               /\ UNCHANGED rc

\* What the driver's own code changes, and what the other side does.
ClientTypeOK ==
    /\ allocated \subseteq Fid
    /\ nextFid \in Fid /\ rootFid \in Fid /\ nextTag \in Tag
    /\ call \in [type : Request, fid : Fid, fid2 : Fid, tag : Tag,
                 attempt : 0 .. kMaxRetries - 1, phase : Phase]
    /\ rc \in Code
ServerTypeOK ==
    /\ srvFids \in [Fid -> Obj \cup {NoObj}]
    /\ applied \in Nat
    /\ faults \in 0 .. MaxFaults
SessionTypeOK == ClientTypeOK /\ ServerTypeOK
=============================================================================
