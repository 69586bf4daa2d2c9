-------------------------- MODULE FsVirtio9pProofs --------------------------
(***************************************************************************)
(* Type correctness of the resource manager over the 9P session; that its  *)
(* handlers leak no fid, that the retries carry out no request twice and   *)
(* answer no success that did not happen, for every number of fids, tags,  *)
(* objects and open files and for every pattern of failed exchanges; and,  *)
(* for the exchanges named there, that the server forgets what the driver  *)
(* forgets and that the two agree.                                         *)
(***************************************************************************)
EXTENDS FsVirtio9p, TLAPS

(* Every reply of the server leaves a fid table of the right type.         *)
LEMMA ReplyType ==
    ASSUME SessionTypeOK, NEW t \in Request, NEW f \in Fid, NEW f2 \in Fid,
           NEW r \in Replies(Message(t, f, f2))
    PROVE  /\ r.fids \in [Fid -> Obj \cup {NoObj}]
           /\ r.rc \in Code
           /\ r.mutations \in Nat
<1> DEFINE OK(x) == /\ x.fids \in [Fid -> Obj \cup {NoObj}]
                    /\ x.rc \in Code
                    /\ x.mutations \in Nat
<1>1. srvFids \in [Fid -> Obj \cup {NoObj}]
  BY DEF SessionTypeOK, ServerTypeOK
<1>2. ASSUME NEW g \in Fid, NEW o \in Obj \cup {NoObj}
      PROVE  Bind(g, o) \in [Fid -> Obj \cup {NoObj}]
  BY <1>1, <1>2 DEF Bind
<1>3. \A x \in Refusal : OK(x)
  BY <1>1 DEF Refusal, Reply, Code
<1>4. \A x \in VersionReply : OK(x)
  BY DEF VersionReply, Reply, Code, Unbound
<1>5. Root \in Obj
  BY ObjAssumption DEF Obj
<1>6. \A x \in AttachReply(f) : OK(x)
  <2>1. Bind(f, Root) \in [Fid -> Obj \cup {NoObj}]
    BY <1>2, <1>5
  <2> QED
    BY <1>1, <1>3, <2>1 DEF AttachReply, Reply, Code
<1>7. \A x \in WalkReply(f, f2) : OK(x)
  <2>1. \A o \in Obj : Bind(f2, o) \in [Fid -> Obj \cup {NoObj}]
    BY <1>2
  <2> QED
    BY <1>1, <1>3, <2>1 DEF WalkReply, Reply, Code
<1>8. \A x \in MutationReply(t, f, f2) : OK(x)
  <2>1. \A o \in Files : Bind(f, o) \in [Fid -> Obj \cup {NoObj}]
    BY <1>2 DEF Obj
  <2> QED
    BY <1>1, <1>3, <2>1 DEF MutationReply, Reply, Code
<1>9. Bind(f, NoObj) \in [Fid -> Obj \cup {NoObj}]
  BY <1>2
<1> DEFINE m == Message(t, f, f2)
<1>10. m.type = t /\ m.fid = f /\ m.fid2 = f2
  BY DEF Message
<1>11. \A x \in AttachedReplies(m) : OK(x)
  BY <1>1, <1>3, <1>7, <1>8, <1>9, <1>10 DEF AttachedReplies, Reply, Code
<1> QED
  BY <1>4, <1>6, <1>10, <1>11 DEF Replies

(* A counter that wraps stays within its width.                            *)
LEMMA SuccType ==
    ASSUME NEW mod \in Nat, mod > 0, NEW n \in 0 .. mod - 1
    PROVE  Succ(n, mod) \in 0 .. mod - 1
BY DEF Succ

(* Whatever becomes of an exchange, the server's part has its type.        *)
LEMMA ExchangeType ==
    ASSUME SessionTypeOK, NEW t \in Request, NEW f \in Fid, NEW f2 \in Fid,
           \/ \E r \in Replies(Message(t, f, f2)) : Answered(r)
           \/ Garbled(Message(t, f, f2))
           \/ Lost(Message(t, f, f2))
    PROVE  ServerTypeOK'
<1> DEFINE m == Message(t, f, f2)
<1>1. /\ srvFids \in [Fid -> Obj \cup {NoObj}]
      /\ applied \in Nat /\ faults \in 0 .. MaxFaults
  BY DEF SessionTypeOK, ServerTypeOK
<1>2. \A r \in Replies(m) : /\ r.fids \in [Fid -> Obj \cup {NoObj}]
                            /\ r.mutations \in Nat
  BY ReplyType
<1> HIDE DEF m
<1>3. ASSUME Fault PROVE faults' \in 0 .. MaxFaults
  BY <1>1, <1>3, FaultAssumption DEF Fault
<1>4. CASE \E r \in Replies(m) : Answered(r)
  BY <1>1, <1>2, <1>4 DEF Answered, ServerTypeOK
<1>5. CASE Garbled(m)
  BY <1>1, <1>2, <1>3, <1>5 DEF Garbled, ServerTypeOK
<1>6. CASE Lost(m)
  <2>1. srvFids' \in [Fid -> Obj \cup {NoObj}]
    BY <1>6 DEF Lost, Unbound
  <2>2. applied' \in Nat
    BY <1>1, <1>2, <1>6 DEF Lost
  <2> QED
    BY <1>3, <1>6, <2>1, <2>2 DEF Lost, ServerTypeOK
<1> QED
  BY <1>4, <1>5, <1>6 DEF m

(* NoCall is a call record, and so is a fresh process's Tversion.          *)
LEMMA NoCallType ==
    /\ NoCall \in [type : Request, fid : Fid, fid2 : Fid, tag : Tag,
                   attempt : 0 .. kMaxRetries - 1, phase : Phase]
    /\ [NoCall EXCEPT !.phase = "send"] \in
          [type : Request, fid : Fid, fid2 : Fid, tag : Tag,
           attempt : 0 .. kMaxRetries - 1, phase : Phase]
    /\ 0 \in Fid /\ 0 \in Tag
BY FidModAssumption, TagModAssumption
   DEF NoCall, Request, Fid, Tag, Phase, kMaxRetries

(* A session call that returns leaves the client's part well typed.        *)
LEMMA ReturnType ==
    ASSUME ClientTypeOK, NEW code \in Code, NEW S, Return(code, S)
    PROVE  ClientTypeOK'
BY NoCallType DEF ClientTypeOK, Return

(* Allocate and NextTag keep the pool and the counters in range.           *)
LEMMA AllocateType ==
    ASSUME ClientTypeOK, Allocate
    PROVE  allocated' \subseteq Fid /\ nextFid' \in Fid
<1>1. FidMod \in Nat /\ FidMod > 0
  BY FidModAssumption
<1>2. nextFid \in 0 .. FidMod - 1 /\ allocated \subseteq Fid
  BY DEF ClientTypeOK, Fid
<1>3. Succ(nextFid, FidMod) \in 0 .. FidMod - 1
  BY <1>1, <1>2, SuccType
<1> QED
  BY <1>2, <1>3 DEF Allocate, Fid

\* Tags wrap within their width (through the no-tag value too).
LEMMA NextTagType ==
    ASSUME ClientTypeOK, NextTag
    PROVE  nextTag' \in Tag
BY SuccType, TagModAssumption DEF ClientTypeOK, NextTag, Tag

(* Transact, with its nested Reinitialize, preserves the types.            *)
LEMMA TransactType ==
    ASSUME SessionTypeOK, Transact
    PROVE  SessionTypeOK'
<1>1. ClientTypeOK /\ ServerTypeOK
  BY DEF SessionTypeOK
<1>2. /\ call.type \in Request /\ call.fid \in Fid /\ call.fid2 \in Fid
      /\ rootFid \in Fid /\ call.attempt \in 0 .. kMaxRetries - 1
  BY <1>1 DEF ClientTypeOK
<1>3. "EIO" \in Code /\ "version" \in Request /\ "attach" \in Request
  BY DEF Code, Request
<1>4. \A r \in Replies(Sent) : r.rc \in Code
  BY <1>2, ReplyType DEF Sent
<1>5. ASSUME \/ \E r \in Replies(Sent) : Answered(r)
             \/ Garbled(Sent) \/ Lost(Sent)
      PROVE  ServerTypeOK'
  BY <1>2, <1>5, ExchangeType DEF Sent
<1>6. ASSUME \/ \E r \in Replies(Tversion) : Answered(r)
             \/ Garbled(Tversion) \/ Lost(Tversion)
      PROVE  ServerTypeOK'
  BY <1>3, <1>6, ExchangeType, NoCallType DEF Tversion
<1>7. ASSUME \/ \E r \in Replies(Tattach) : Answered(r)
             \/ Garbled(Tattach) \/ Lost(Tattach)
      PROVE  ServerTypeOK'
  BY <1>2, <1>3, <1>7, ExchangeType, NoCallType DEF Tattach
<1>8. CASE TransactReply
  <2>1. ServerTypeOK'
    BY <1>5, <1>8 DEF TransactReply
  <2>2. PICK code \in Code : Return(code, {})
    BY <1>3, <1>4, <1>8 DEF TransactReply
  <2> QED
    BY <1>1, <2>1, <2>2, ReturnType DEF SessionTypeOK
<1>9. CASE TransactFails
  <2>1. ServerTypeOK'
    BY <1>5, <1>9 DEF TransactFails
  <2>2. ClientTypeOK'
    BY <1>1, <1>9, NoCallType DEF TransactFails, ClientTypeOK, Phase
  <2> QED
    BY <2>1, <2>2 DEF SessionTypeOK
<1>10. CASE ReinitVersion
  <2>1. ServerTypeOK'
    BY <1>6, <1>10 DEF ReinitVersion
  <2>2. CASE Return("EIO", {})
    BY <1>1, <1>3, <2>2, ReturnType, <2>1 DEF SessionTypeOK
  <2>3. CASE /\ rootFid' = nextFid /\ Allocate /\ NextTag
             /\ call' = [call EXCEPT !.phase = "reAttach"]
             /\ UNCHANGED rc
    <3>1. allocated' \subseteq Fid /\ nextFid' \in Fid /\ nextTag' \in Tag
      BY <1>1, <2>3, AllocateType, NextTagType
    <3>2. ClientTypeOK'
      BY <1>1, <2>3, <3>1 DEF ClientTypeOK, Phase
    <3> QED
      BY <2>1, <3>2 DEF SessionTypeOK
  <2> QED
    BY <1>10, <2>2, <2>3 DEF ReinitVersion
<1>11. CASE ReinitAttach
  <2>1. ServerTypeOK'
    BY <1>7, <1>11 DEF ReinitAttach
  <2>2. CASE Return("EIO", {rootFid}) \/ Return("EIO", {})
    BY <1>1, <1>3, <2>2, ReturnType, <2>1 DEF SessionTypeOK
  <2>3. CASE /\ call.attempt + 1 < kMaxRetries
             /\ call' = [call EXCEPT !.phase = "send", !.attempt = @ + 1]
             /\ UNCHANGED <<allocated, nextFid, rootFid, nextTag, rc>>
    <3>1. call.attempt + 1 \in 0 .. kMaxRetries - 1
      BY <1>2, <2>3 DEF kMaxRetries
    <3>2. ClientTypeOK'
      BY <1>1, <2>3, <3>1 DEF ClientTypeOK, Phase
    <3> QED
      BY <2>1, <3>2 DEF SessionTypeOK
  <2> QED
    BY <1>11, <2>2, <2>3 DEF ReinitAttach, ReinitDone
<1> QED
  BY <1>8, <1>9, <1>10, <1>11 DEF Transact

(* Calling the session, and replying to a client, keep the types.          *)
LEMMA ThenType ==
    ASSUME ClientTypeOK, NEW p, NEW t \in Request, NEW f \in Fid,
           NEW f2 \in Fid, Then(p, t, f, f2)
    PROVE  ClientTypeOK' /\ pc' = p
<1>1. nextTag' \in Tag
  BY NextTagType DEF Then, Issue
<1>2. call' \in [type : Request, fid : Fid, fid2 : Fid, tag : Tag,
                attempt : 0 .. kMaxRetries - 1, phase : Phase]
  BY DEF Then, Issue, ClientTypeOK, kMaxRetries, Phase
<1> QED
  BY <1>1, <1>2 DEF Then, Issue, ClientTypeOK, poolVars

\* Going on to the walk of a path keeps the types.
LEMMA ThenWalkType ==
    ASSUME ClientTypeOK, NEW p, ThenWalk(p)
    PROVE  ClientTypeOK' /\ pc' = p
<1>1. nextTag' \in Tag /\ allocated' \subseteq Fid /\ nextFid' \in Fid
  BY NextTagType, AllocateType DEF ThenWalk, IssueWalk, Issue
<1>2. call' \in [type : Request, fid : Fid, fid2 : Fid, tag : Tag,
                attempt : 0 .. kMaxRetries - 1, phase : Phase]
  BY DEF ThenWalk, IssueWalk, Issue, ClientTypeOK, kMaxRetries, Phase, Request
<1> QED
  BY <1>1, <1>2 DEF ThenWalk, IssueWalk, Issue, ClientTypeOK

\* The empty frame, the closed OCB and the null OCB have their types.
LEMMA NoLocType == NoLoc \in Locals /\ Closed \in OcbState /\ NoOcb \in Ocb
<1>1. NoOcb \in Ocb
  BY OcbAssumption DEF NoOcb
<1>2. 0 \in 0 .. MaxChunks - 1
  BY BoundAssumption
<1> QED
  BY <1>1, <1>2, NoCallType DEF NoLoc, Closed, Locals, OcbState, Code

\* A handler that returns keeps the types.
LEMMA DoneType ==
    ASSUME ClientTypeOK, NEW code \in Code, Done(code)
    PROVE  ClientTypeOK' /\ pc' = "idle" /\ loc' \in Locals
BY NoLocType DEF Done, ClientTypeOK

\* Tattach, the first message of a session with fids.
LEMMA IssueAttachType ==
    ASSUME ClientTypeOK, IssueAttach
    PROVE  ClientTypeOK'
<1>1. nextTag' \in Tag /\ allocated' \subseteq Fid /\ nextFid' \in Fid
  BY NextTagType, AllocateType DEF IssueAttach
<1>2. call' \in [type : Request, fid : Fid, fid2 : Fid, tag : Tag,
                attempt : 0 .. kMaxRetries - 1, phase : Phase]
  BY NoCallType DEF IssueAttach, ClientTypeOK, kMaxRetries, Phase, Request
<1> QED
  BY <1>1, <1>2 DEF IssueAttach, ClientTypeOK

(* A client request, once begun, preserves the types.                      *)
LEMMA ClientRequestType ==
    ASSUME TypeOK, ClientRequest
    PROVE  TypeOK'
<1>1. ClientTypeOK /\ ServerTypeOK /\ HandlerTypeOK
  BY DEF TypeOK, SessionTypeOK
<1>2. ASSUME NEW op, Begin(op) PROVE ServerTypeOK' /\ UNCHANGED ocb
  BY <1>1, <1>2 DEF Begin, ServerTypeOK
<1>3. nextFid \in Fid /\ 0 \in Fid /\ \A o \in Ocb : ocb[o].fid \in Fid
  BY <1>1, NoCallType DEF ClientTypeOK, HandlerTypeOK, OcbState
<1>4. {"walk", "io", "clunk"} \subseteq Request
  BY DEF Request
<1>5. /\ [NoLoc EXCEPT !.fid = nextFid] \in Locals
      /\ \A o \in Ocb : [NoLoc EXCEPT !.ocb = o] \in Locals
  BY <1>3, NoLocType DEF Locals
<1>6. {"OpenWalk", "Io", "Write", "Close", "MkdirParent", "UnlinkParent",
       "RenameOld"} \subseteq Pc
  BY DEF Pc
<1> DEFINE Goal == ClientTypeOK' /\ ServerTypeOK' /\ HandlerTypeOK'
<1>7. ASSUME NEW o \in Ocb, NEW create \in BOOLEAN, NEW excl \in BOOLEAN,
             ConnectOpen(o, create, excl)
      PROVE  Goal
  <2>1. ServerTypeOK' /\ UNCHANGED ocb
    BY <1>2, <1>7 DEF ConnectOpen
  <2>2. ClientTypeOK' /\ pc' = "OpenWalk"
    BY <1>1, <1>7, ThenWalkType DEF ConnectOpen
  <2>3. loc' \in Locals
    BY <1>3, <1>7, NoLocType DEF ConnectOpen, Locals
  <2> QED
    BY <1>1, <1>6, <2>1, <2>2, <2>3 DEF HandlerTypeOK
<1>8. ASSUME NEW o \in Ocb, IoRequest(o) PROVE Goal
  <2>1. ServerTypeOK' /\ UNCHANGED ocb
    BY <1>2, <1>8 DEF IoRequest
  <2>2. ClientTypeOK' /\ pc' = "Io"
    BY <1>1, <1>3, <1>4, <1>8, ThenType DEF IoRequest
  <2> QED
    BY <1>1, <1>5, <1>6, <1>8, <2>1, <2>2 DEF HandlerTypeOK, IoRequest
<1>9. ASSUME NEW o \in Ocb, NEW n \in 1 .. MaxChunks, IoWrite(o, n) PROVE Goal
  <2>1. ServerTypeOK' /\ UNCHANGED ocb
    BY <1>2, <1>9 DEF IoWrite
  <2>2. ClientTypeOK' /\ pc' = "Write"
    BY <1>1, <1>3, <1>4, <1>9, ThenType DEF IoWrite
  <2>3. n - 1 \in 0 .. MaxChunks - 1
    BY <1>9, BoundAssumption
  <2>4. loc' \in Locals
    BY <1>9, <2>3, NoLocType DEF IoWrite, Locals
  <2> QED
    BY <1>1, <1>6, <2>1, <2>2, <2>4 DEF HandlerTypeOK
<1>10. ASSUME NEW o \in Ocb, IoCloseOcb(o) PROVE Goal
  <2>1. ServerTypeOK' /\ UNCHANGED ocb
    BY <1>2, <1>10 DEF IoCloseOcb
  <2>2. ClientTypeOK' /\ pc' = "Close"
    BY <1>1, <1>3, <1>4, <1>10, ThenType DEF IoCloseOcb
  <2> QED
    BY <1>1, <1>5, <1>6, <1>10, <2>1, <2>2 DEF HandlerTypeOK, IoCloseOcb
<1>11. ASSUME ConnectMknod \/ ConnectUnlink \/ ConnectRename PROVE Goal
  <2>1. ServerTypeOK' /\ UNCHANGED ocb
    BY <1>2, <1>11 DEF ConnectMknod, ConnectUnlink, ConnectRename
  <2>2. ClientTypeOK' /\ pc' \in {"MkdirParent", "UnlinkParent", "RenameOld"}
    BY <1>1, <1>11, ThenWalkType
       DEF ConnectMknod, ConnectUnlink, ConnectRename
  <2>3. loc' \in Locals
    BY <1>5, <1>11 DEF ConnectMknod, ConnectUnlink, ConnectRename
  <2> QED
    BY <1>1, <1>6, <2>1, <2>2, <2>3 DEF HandlerTypeOK
<1> HIDE DEF Goal
<1>12. Goal
  BY <1>7, <1>8, <1>9, <1>10, <1>11 DEF ClientRequest
<1> QED
  BY <1>12 DEF Goal, TypeOK, SessionTypeOK

(* A step of a handler after a session call preserves the types.           *)
LEMMA HandlerStepType ==
    ASSUME TypeOK, HandlerStep
    PROVE  TypeOK'
<1>1. ClientTypeOK /\ ServerTypeOK /\ HandlerTypeOK
  BY DEF TypeOK, SessionTypeOK
<1>2. ASSUME NEW p, Returned(p) PROVE ServerTypeOK'
  BY <1>1, <1>2 DEF Returned, ServerTypeOK
<1>3. /\ nextFid \in Fid /\ 0 \in Fid /\ loc \in Locals
      /\ loc.fid \in Fid /\ loc.fid2 \in Fid /\ loc.rc \in Code
      /\ loc.ocb \in Ocb /\ ocb[loc.ocb].fid \in Fid
      /\ loc.obj \in Obj \cup {NoObj} /\ loc.isDir \in BOOLEAN
      /\ rc \in Code
      /\ srvFids[loc.fid] \in Obj \cup {NoObj}
  BY <1>1, NoCallType
     DEF ClientTypeOK, ServerTypeOK, HandlerTypeOK, Locals, OcbState
<1>4. /\ {"open", "getattr", "io", "clunk", "create", "mkdir", "unlink",
          "rename"} \subseteq Request
      /\ "ok" \in Code /\ "EINVAL" \in Code
  BY DEF Request, Mutation, Code
<1>5. /\ \A f \in Fid : /\ [loc EXCEPT !.fid = f] \in Locals
                        /\ [loc EXCEPT !.fid2 = f] \in Locals
      /\ \A c \in Code : [loc EXCEPT !.rc = c] \in Locals
      /\ \A b \in BOOLEAN : [loc EXCEPT !.isDir = b] \in Locals
      /\ [loc EXCEPT !.obj = srvFids[loc.fid]] \in Locals
      /\ [loc EXCEPT !.obj = srvFids[loc.fid], !.created = TRUE] \in Locals
  BY <1>3 DEF Locals
<1>6. ASSUME pc' \in Pc, loc' \in Locals, ocb' = ocb, ClientTypeOK',
             ServerTypeOK'
      PROVE  TypeOK'
  BY <1>1, <1>6 DEF TypeOK, SessionTypeOK, HandlerTypeOK
<1>7. CASE OpenWalked
  <2>1. ServerTypeOK' /\ ocb' = ocb
    BY <1>2, <1>7 DEF OpenWalked
  <2>2. ClientTypeOK' /\ pc' \in Pc /\ loc' \in Locals
    BY <1>1, <1>3, <1>4, <1>5, <1>7, ThenType, ThenWalkType, DoneType
       DEF OpenWalked, Pc
  <2> QED
    BY <1>6, <2>1, <2>2
<1>8. CASE OpenOpened
  <2>1. ServerTypeOK' /\ ocb' = ocb
    BY <1>2, <1>8 DEF OpenOpened
  <2>2. ClientTypeOK' /\ pc' \in Pc /\ loc' \in Locals
    BY <1>1, <1>3, <1>4, <1>5, <1>8, ThenType, ThenWalkType, DoneType
       DEF OpenOpened, Pc, OpenFailed
  <2> QED
    BY <1>6, <2>1, <2>2
<1>9. CASE OpenParentWalked
  <2>1. ServerTypeOK' /\ ocb' = ocb
    BY <1>2, <1>9 DEF OpenParentWalked
  <2>2. ClientTypeOK' /\ pc' \in Pc /\ loc' \in Locals
    BY <1>1, <1>3, <1>4, <1>5, <1>9, ThenType, ThenWalkType, DoneType
       DEF OpenParentWalked, Pc
  <2> QED
    BY <1>6, <2>1, <2>2
<1>10. CASE OpenUndone
  <2>1. ServerTypeOK' /\ ocb' = ocb
    BY <1>2, <1>10 DEF OpenUndone
  <2>2. ClientTypeOK' /\ pc' \in Pc /\ loc' \in Locals
    BY <1>1, <1>3, <1>4, <1>5, <1>10, ThenType, ThenWalkType, DoneType
       DEF OpenUndone, Pc
  <2> QED
    BY <1>6, <2>1, <2>2
<1>11. CASE IoDone
  <2>1. ServerTypeOK' /\ ocb' = ocb
    BY <1>2, <1>11 DEF IoDone
  <2>2. ClientTypeOK' /\ pc' \in Pc /\ loc' \in Locals
    BY <1>1, <1>3, <1>4, <1>5, <1>11, ThenType, ThenWalkType, DoneType
       DEF IoDone, Pc
  <2> QED
    BY <1>6, <2>1, <2>2
<1>12. CASE MkdirParentWalked
  <2>1. ServerTypeOK' /\ ocb' = ocb
    BY <1>2, <1>12 DEF MkdirParentWalked
  <2>2. ClientTypeOK' /\ pc' \in Pc /\ loc' \in Locals
    BY <1>1, <1>3, <1>4, <1>5, <1>12, ThenType, ThenWalkType, DoneType
       DEF MkdirParentWalked, Pc
  <2> QED
    BY <1>6, <2>1, <2>2
<1>13. CASE UnlinkParentWalked
  <2>1. ServerTypeOK' /\ ocb' = ocb
    BY <1>2, <1>13 DEF UnlinkParentWalked
  <2>2. ClientTypeOK' /\ pc' \in Pc /\ loc' \in Locals
    BY <1>1, <1>3, <1>4, <1>5, <1>13, ThenType, ThenWalkType, DoneType
       DEF UnlinkParentWalked, Pc
  <2> QED
    BY <1>6, <2>1, <2>2
<1>14. CASE UnlinkTargetWalked
  <2>1. ServerTypeOK' /\ ocb' = ocb
    BY <1>2, <1>14 DEF UnlinkTargetWalked
  <2>2. ClientTypeOK' /\ pc' \in Pc /\ loc' \in Locals
    BY <1>1, <1>3, <1>4, <1>5, <1>14, ThenType, ThenWalkType, DoneType
       DEF UnlinkTargetWalked, Pc
  <2> QED
    BY <1>6, <2>1, <2>2
<1>15. CASE UnlinkTargetStatted
  <2>1. ServerTypeOK' /\ ocb' = ocb
    BY <1>2, <1>15 DEF UnlinkTargetStatted
  <2>2. ClientTypeOK' /\ pc' \in Pc /\ loc' \in Locals
    BY <1>1, <1>3, <1>4, <1>5, <1>15, ThenType, ThenWalkType, DoneType
       DEF UnlinkTargetStatted, Pc
  <2> QED
    BY <1>6, <2>1, <2>2
<1>16. CASE UnlinkTargetClunked
  <2>1. ServerTypeOK' /\ ocb' = ocb
    BY <1>2, <1>16 DEF UnlinkTargetClunked
  <2>2. ClientTypeOK' /\ pc' \in Pc /\ loc' \in Locals
    BY <1>1, <1>3, <1>4, <1>5, <1>16, ThenType, ThenWalkType, DoneType
       DEF UnlinkTargetClunked, Pc
  <2> QED
    BY <1>6, <2>1, <2>2
<1>17. CASE RenameOldWalked
  <2>1. ServerTypeOK' /\ ocb' = ocb
    BY <1>2, <1>17 DEF RenameOldWalked
  <2>2. ClientTypeOK' /\ pc' \in Pc /\ loc' \in Locals
    BY <1>1, <1>3, <1>4, <1>5, <1>17, ThenType, ThenWalkType, DoneType
       DEF RenameOldWalked, Pc
  <2> QED
    BY <1>6, <2>1, <2>2
<1>18. CASE RenameNewWalked
  <2>1. ServerTypeOK' /\ ocb' = ocb
    BY <1>2, <1>18 DEF RenameNewWalked
  <2>2. ClientTypeOK' /\ pc' \in Pc /\ loc' \in Locals
    BY <1>1, <1>3, <1>4, <1>5, <1>18, ThenType, ThenWalkType, DoneType
       DEF RenameNewWalked, Pc
  <2> QED
    BY <1>6, <2>1, <2>2
<1>19. CASE RenameOpDone
  <2>1. ServerTypeOK' /\ ocb' = ocb
    BY <1>2, <1>19 DEF RenameOpDone
  <2>2. ClientTypeOK' /\ pc' \in Pc /\ loc' \in Locals
    BY <1>1, <1>3, <1>4, <1>5, <1>19, ThenType, ThenWalkType, DoneType
       DEF RenameOpDone, Pc
  <2> QED
    BY <1>6, <2>1, <2>2
<1>20. CASE RenameOldClunked
  <2>1. ServerTypeOK' /\ ocb' = ocb
    BY <1>2, <1>20 DEF RenameOldClunked
  <2>2. ClientTypeOK' /\ pc' \in Pc /\ loc' \in Locals
    BY <1>1, <1>3, <1>4, <1>5, <1>20, ThenType, ThenWalkType, DoneType
       DEF RenameOldClunked, Pc
  <2> QED
    BY <1>6, <2>1, <2>2
<1>21. CASE ParentOpDone
  <2>1. ServerTypeOK' /\ ocb' = ocb
    BY <1>2, <1>21 DEF ParentOpDone
  <2>2. ClientTypeOK' /\ pc' \in Pc /\ loc' \in Locals
    BY <1>1, <1>3, <1>4, <1>5, <1>21, ThenType, ThenWalkType, DoneType
       DEF ParentOpDone, Pc
  <2> QED
    BY <1>6, <2>1, <2>2
<1>22. CASE ParentClunked
  <2>1. ServerTypeOK' /\ ocb' = ocb
    BY <1>2, <1>22 DEF ParentClunked
  <2>2. ClientTypeOK' /\ pc' \in Pc /\ loc' \in Locals
    BY <1>1, <1>3, <1>4, <1>5, <1>22, ThenType, ThenWalkType, DoneType
       DEF ParentClunked, Pc
  <2> QED
    BY <1>6, <2>1, <2>2
<1>23. CASE IoWritten
  <2>1. ServerTypeOK' /\ ocb' = ocb
    BY <1>2, <1>23 DEF IoWritten
  <2>2. ASSUME loc.left > 0
        PROVE  [loc EXCEPT !.left = loc.left - 1] \in Locals
    <3>1. loc.left - 1 \in 0 .. MaxChunks - 1
      BY <1>3, <2>2, BoundAssumption DEF Locals
    <3> QED
      BY <1>3, <3>1 DEF Locals
  <2>3. ClientTypeOK' /\ pc' \in Pc /\ loc' \in Locals
    BY <1>1, <1>3, <1>4, <1>23, <2>2, ThenType, DoneType DEF IoWritten, Pc
  <2> QED
    BY <1>6, <2>1, <2>3
<1>24. CASE InitVersionDone \/ InitAttachDone
  <2>1. ServerTypeOK' /\ ocb' = ocb /\ loc' = loc
    BY <1>2, <1>24 DEF InitVersionDone, InitAttachDone
  <2>2. ClientTypeOK'
    BY <1>1, <1>24, IssueAttachType
       DEF InitVersionDone, InitAttachDone, ClientTypeOK
  <2>3. pc' \in Pc
    BY <1>24 DEF InitVersionDone, InitAttachDone, Pc
  <2> QED
    BY <1>3, <1>6, <2>1, <2>2, <2>3
<1>25. CASE OpenStatted \/ OpenCreated
  <2>1. ServerTypeOK' /\ ocb' = ocb
    BY <1>2, <1>25 DEF OpenStatted, OpenCreated
  <2>2. CASE OpenFailed
    BY <1>1, <1>3, <1>4, <1>5, <1>6, <2>1, <2>2, ThenType DEF OpenFailed, Pc
  <2>3. CASE /\ UNCHANGED <<allocated, nextFid, rootFid, nextTag, call, rc>>
             /\ pc' = "OpenAttachOcb" /\ loc' \in Locals
    BY <1>1, <1>6, <2>1, <2>3 DEF ClientTypeOK, Pc
  <2> QED
    BY <1>5, <1>25, <2>2, <2>3 DEF OpenStatted, OpenCreated
<1>26. CASE OpenAttachOcb \/ IoClosed
  <2>1. ServerTypeOK'
    BY <1>2, <1>26 DEF OpenAttachOcb, IoClosed
  <2>2. ClientTypeOK' /\ pc' \in Pc /\ loc' \in Locals
    BY <1>1, <1>3, <1>4, <1>5, <1>26, ThenType, DoneType
       DEF OpenAttachOcb, IoClosed, Pc
  <2>3. [fid |-> loc.fid, obj |-> loc.obj, isDir |-> loc.isDir] \in OcbState
    BY <1>3 DEF OcbState
  <2>4. ocb' \in [Ocb -> OcbState]
    BY <1>1, <1>3, <1>26, <2>3, NoLocType
       DEF OpenAttachOcb, IoClosed, HandlerTypeOK
  <2> QED
    BY <2>1, <2>2, <2>4 DEF TypeOK, SessionTypeOK, HandlerTypeOK
<1> QED
  BY <1>7, <1>8, <1>9, <1>10, <1>11, <1>12, <1>13, <1>14, <1>15, <1>16,
     <1>17, <1>18, <1>19, <1>20, <1>21, <1>22, <1>23, <1>24, <1>25, <1>26
     DEF HandlerStep

(* The initial state has the types.                                        *)
LEMMA InitType == Init => TypeOK
<1> SUFFICES ASSUME Init PROVE TypeOK
  OBVIOUS
<1>1. ClientTypeOK
  BY NoCallType DEF Init, SessionInit, ClientTypeOK, Code
<1>2. ServerTypeOK
  BY FaultAssumption DEF Init, SessionInit, ServerTypeOK, Unbound
<1>3. HandlerTypeOK
  BY NoLocType DEF Init, HandlerTypeOK, Pc
<1> QED
  BY <1>1, <1>2, <1>3 DEF TypeOK, SessionTypeOK

(* A restarted process starts with the types.                              *)
LEMMA RestartType ==
    ASSUME TypeOK, Restart
    PROVE  TypeOK'
<1>1. ClientTypeOK'
  BY NoCallType DEF Restart, ClientTypeOK, Code
<1>2. ServerTypeOK'
  BY DEF Restart, TypeOK, SessionTypeOK, ServerTypeOK, Unbound
<1>3. HandlerTypeOK'
  BY DEF Restart, TypeOK, HandlerTypeOK, Pc
<1> QED
  BY <1>1, <1>2, <1>3 DEF TypeOK, SessionTypeOK

(* Every step preserves the types.                                         *)
LEMMA StepType ==
    ASSUME TypeOK, [Next]_vars
    PROVE  TypeOK'
<1>1. CASE ClientRequest
  BY <1>1, ClientRequestType
<1>2. CASE HandlerStep
  BY <1>2, HandlerStepType
<1>3. CASE SessionStep
  <2>1. SessionTypeOK'
    BY <1>3, TransactType DEF SessionStep, TypeOK
  <2> QED
    BY <1>3, <2>1 DEF SessionStep, TypeOK, HandlerTypeOK
<1>4. CASE Restart
  BY <1>4, RestartType
<1>5. CASE UNCHANGED vars
  BY <1>5 DEF vars, sessionVars, TypeOK, SessionTypeOK, ClientTypeOK,
              ServerTypeOK, HandlerTypeOK
<1> QED
  BY <1>1, <1>2, <1>3, <1>4, <1>5 DEF Next, AwaitMessage

(* The driver's variables, fids and tags stay within their types in every  *)
(* execution, whatever exchanges fail (fs_virtio9p.cpp, nine_p_session.cpp).*)
THEOREM TypeCorrect == Spec => []TypeOK
<1>1. Init => TypeOK
  BY InitType
<1>2. TypeOK /\ [Next]_vars => TypeOK'
  BY StepType
<1> QED
  BY <1>1, <1>2, PTL DEF Spec

-----------------------------------------------------------------------------
(* No fid is leaked: PoolInv is inductive, relative to TypeOK.             *)

(* An ok reply to a walk or a create has bound the fid the call was about. *)
LEMMA OkReplyBinds ==
    ASSUME TypeOK, NEW r \in Replies(Sent), r.rc = "ok"
    PROVE  /\ call.type = "walk" => r.fids[call.fid2] # NoObj
           /\ call.type = "create" => r.fids[call.fid] # NoObj
<1>1. /\ srvFids \in [Fid -> Obj \cup {NoObj}]
      /\ call.fid \in Fid /\ call.fid2 \in Fid
  BY DEF TypeOK, SessionTypeOK, ClientTypeOK, ServerTypeOK
<1>2. \A o \in Obj : o # NoObj
  BY ObjAssumption DEF Obj
<1>3. Sent.type = call.type /\ Sent.fid = call.fid /\ Sent.fid2 = call.fid2
  BY DEF Sent, Message
<1>4. \A x \in Refusal : x.rc # "ok"
  BY DEF Refusal, Reply
<1>5. CASE call.type = "walk"
  <2>1. Bound(call.fid) /\ r \in WalkReply(call.fid, call.fid2)
    BY <1>3, <1>5 DEF Replies, AttachedReplies, Reply
  <2>2. PICK o \in Obj : r = Reply("ok", Bind(call.fid2, o), 0)
    BY <1>4, <2>1 DEF WalkReply, Reply
  <2> QED
    BY <1>1, <1>2, <1>5, <2>2 DEF Reply, Bind
<1>6. CASE call.type = "create"
  <2>1. Bound(call.fid)
        /\ r \in MutationReply("create", call.fid, call.fid2)
    BY <1>3, <1>6 DEF Replies, AttachedReplies, Reply, Mutation
  <2>2. PICK o \in Files : r = Reply("ok", Bind(call.fid, o), 1)
    BY <1>4, <2>1 DEF MutationReply, Reply
  <2> QED
    BY <1>1, <1>2, <1>6, <2>2 DEF Reply, Bind, Obj
<1> QED
  BY <1>5, <1>6

(* What the session call a handler makes looks like.                       *)
LEMMA IssueFacts ==
    ASSUME NEW t, NEW f, NEW f2, Issue(t, f, f2)
    PROVE  /\ Pending' /\ call'.type = t /\ call'.fid = f /\ call'.fid2 = f2
           /\ call'.phase = "send" /\ rootFid' = rootFid /\ rc' = rc
BY DEF Issue, Pending, NoCall

(* A returning session call gives back what the handler no longer holds.   *)
LEMMA ReturnPool ==
    ASSUME TypeOK, PoolInv, Pending, NEW code \in Code, NEW S,
           Return(code, S), UNCHANGED <<pc, loc, ocb>>,
           pc \in {"OpenWalk", "OpenCreate"} /\ code = "ok"
              => srvFids'[loc.fid] # NoObj
    PROVE  PoolInv'
<1>1. ~Pending' /\ rc' = code /\ rootFid' = rootFid /\ nextFid' = nextFid
  BY DEF Return, Pending
<1>2. OpenFids' = OpenFids
  BY DEF OpenFids, OpenOcbs, IsOpen
<1>3. allocated' = (allocated \ S) \ Released(code)
  BY DEF Return
<1>4. CallFitsPc'
  BY <1>1 DEF CallFitsPc
<1>5. OpenInProgress'
  BY <1>1 DEF PoolInv, OpenInProgress, IsOpen, Bound, OpenPc
<1>6. Released(code) \in SUBSET Fid
  BY DEF Released, TypeOK, SessionTypeOK, ClientTypeOK
<1>7. allocated' \subseteq {0, rootFid} \cup OpenFids \cup Held'
  <2> SUFFICES ASSUME NEW f \in allocated', f # 0, f # rootFid, f \notin OpenFids
               PROVE  f \in Held'
    OBVIOUS
  <2>1. f \in Held /\ f \notin Released(code)
    BY <1>3 DEF PoolInv
  <2>2. CASE pc \in WalkPc
    BY <1>1, <2>1, <2>2
       DEF PoolInv, CallFitsPc, Held, OnlyIf, Released, WalkPc, Walk2Pc,
           ClunkPc
  <2>3. CASE pc \in Walk2Pc
    BY <1>1, <2>1, <2>3
       DEF PoolInv, CallFitsPc, Held, OnlyIf, Released, WalkPc, Walk2Pc,
           ClunkPc
  <2>4. CASE pc \in ClunkPc
    BY <1>1, <2>1, <2>4
       DEF PoolInv, CallFitsPc, Held, OnlyIf, Released, WalkPc, Walk2Pc,
           ClunkPc
  <2>5. CASE pc \notin WalkPc \cup Walk2Pc \cup ClunkPc
    BY <1>1, <2>1, <2>5
       DEF Held, OnlyIf, WalkPc, Walk2Pc, ClunkPc
  <2> QED
    BY <2>2, <2>3, <2>4, <2>5
<1>8. pc = "Close" => ocb[loc.ocb].fid \notin allocated'
  BY <1>3 DEF PoolInv, CallFitsPc, Released, ClunkPc
<1> QED
  BY <1>1, <1>2, <1>4, <1>5, <1>7, <1>8 DEF PoolInv, IsOpen

(* Transact and its nested Reinitialize preserve PoolInv.                  *)
LEMMA TransactPool ==
    ASSUME TypeOK, PoolInv, SessionStep
    PROVE  PoolInv'
<1>1. Transact /\ UNCHANGED <<pc, loc, ocb>>
  BY DEF SessionStep
<1>2. OpenFids' = OpenFids
  BY <1>1 DEF OpenFids, OpenOcbs, IsOpen
<1>3. Pending
  BY <1>1 DEF Transact, TransactReply, TransactFails, ReinitVersion,
              ReinitAttach, Pending, NoCall
<1>4. "EIO" \in Code /\ \A r \in Replies(Sent) : r.rc \in Code
  BY ReplyType DEF Code, Sent, TypeOK, SessionTypeOK, ClientTypeOK
<1>5. CASE \E S : Return("EIO", S)
  BY <1>1, <1>3, <1>4, <1>5, ReturnPool
<1>6. CASE TransactReply
  <2>1. CASE Return("EIO", {})
    BY <1>5, <2>1
  <2>2. ASSUME NEW r \in Replies(Sent), Answered(r), Return(r.rc, {})
        PROVE  PoolInv'
    <3>1. pc \in {"OpenWalk", "OpenCreate"} /\ r.rc = "ok"
             => srvFids'[loc.fid] # NoObj
      BY <1>3, <2>2, OkReplyBinds
         DEF PoolInv, CallFitsPc, Answered, WalkPc, Walk2Pc
    <3> QED
      BY <1>1, <1>3, <1>4, <2>2, <3>1, ReturnPool
  <2> QED
    BY <1>6, <2>1, <2>2 DEF TransactReply
<1>7. CASE TransactFails
  <2>1. /\ allocated' = {} /\ nextFid' = 0 /\ rootFid' = rootFid /\ rc' = rc
        /\ call' = [call EXCEPT !.phase = "reVersion"]
    BY <1>7 DEF TransactFails
  <2>2. /\ Pending' /\ call'.phase = "reVersion" /\ call'.type = call.type
        /\ call'.fid = call.fid /\ call'.fid2 = call.fid2
    BY <2>1 DEF Pending, NoCall, TypeOK, SessionTypeOK, ClientTypeOK
  <2>3. CallFitsPc'
    BY <1>1, <1>3, <2>1, <2>2 DEF PoolInv, CallFitsPc
  <2>4. OpenInProgress'
    BY <1>1, <2>2 DEF PoolInv, OpenInProgress, IsOpen
  <2> QED
    BY <1>1, <1>2, <2>1, <2>2, <2>3, <2>4 DEF PoolInv, IsOpen
<1>8. CASE ReinitVersion
  <2>1. CASE Return("EIO", {})
    BY <1>5, <2>1
  <2>2. CASE /\ rootFid' = nextFid /\ Allocate
             /\ call' = [call EXCEPT !.phase = "reAttach"] /\ UNCHANGED rc
    <3>1. allocated = {} /\ nextFid = 0
      BY <1>3, <1>8 DEF ReinitVersion, PoolInv, CallFitsPc
    <3>2. allocated' = {0} /\ rootFid' = 0
      BY <2>2, <3>1 DEF Allocate
    <3>3. /\ Pending' /\ call'.phase = "reAttach" /\ call'.type = call.type
          /\ call'.fid = call.fid /\ call'.fid2 = call.fid2
      BY <2>2 DEF Pending, NoCall, TypeOK, SessionTypeOK, ClientTypeOK
    <3>4. CallFitsPc'
      BY <1>1, <1>3, <3>3 DEF PoolInv, CallFitsPc
    <3>5. OpenInProgress'
      BY <1>1, <3>3 DEF PoolInv, OpenInProgress, IsOpen
    <3> QED
      BY <1>1, <1>2, <3>2, <3>3, <3>4, <3>5 DEF PoolInv, IsOpen
  <2> QED
    BY <1>8, <2>1, <2>2 DEF ReinitVersion
<1>9. CASE ReinitAttach
  <2>1. CASE \E S : Return("EIO", S)
    BY <1>5, <2>1
  <2>2. CASE /\ call' = [call EXCEPT !.phase = "send", !.attempt = @ + 1]
             /\ UNCHANGED <<allocated, nextFid, rootFid, nextTag, rc>>
    <3>1. /\ Pending' /\ call'.phase = "send" /\ call'.type = call.type
          /\ call'.fid = call.fid /\ call'.fid2 = call.fid2
      BY <2>2 DEF Pending, NoCall, TypeOK, SessionTypeOK, ClientTypeOK
    <3>2. CallFitsPc'
      BY <1>1, <1>3, <2>2, <3>1 DEF PoolInv, CallFitsPc
    <3>3. OpenInProgress'
      BY <1>1, <3>1 DEF PoolInv, OpenInProgress, IsOpen
    <3>4. Held' = Held
      BY <1>1, <1>3, <2>2, <3>1 DEF Held, OnlyIf
    <3> QED
      BY <1>1, <1>2, <2>2, <3>1, <3>2, <3>3, <3>4 DEF PoolInv, IsOpen
  <2> QED
    BY <1>9, <2>1, <2>2 DEF ReinitAttach, ReinitDone
<1> QED
  BY <1>1, <1>6, <1>7, <1>8, <1>9 DEF Transact

(* A client request finds the pool clean and starts with one session call. *)
LEMMA ClientRequestPool ==
    ASSUME TypeOK, PoolInv, ClientRequest
    PROVE  PoolInv'
<1>1. allocated \subseteq {0, rootFid} \cup OpenFids
      /\ NoLoc \in Locals /\ nextFid \in Fid
  <2>1. pc = "idle"
    BY DEF ClientRequest, ConnectOpen, IoRequest, IoWrite, IoCloseOcb,
           ConnectMknod, ConnectUnlink, ConnectRename, Begin
  <2> QED
    BY <2>1, NoLocType DEF PoolInv, Held, OnlyIf, WalkPc, Walk2Pc, ClunkPc,
           TypeOK, SessionTypeOK, ClientTypeOK
<1>2. ASSUME UNCHANGED ocb PROVE OpenFids' = OpenFids
  BY <1>2 DEF OpenFids, OpenOcbs, IsOpen
<1>3. ASSUME NEW p, ThenWalk(p), UNCHANGED ocb, loc'.fid = nextFid,
             p \in {"OpenWalk", "MkdirParent", "UnlinkParent", "RenameOld"},
             p = "OpenWalk" => ~IsOpen(loc'.ocb)
      PROVE  PoolInv'
  <2>1. /\ Pending' /\ call'.type = "walk" /\ call'.fid2 = nextFid
        /\ call'.phase = "send" /\ rootFid' = rootFid /\ pc' = p
        /\ allocated' = allocated \cup {nextFid}
    BY <1>3, IssueFacts DEF ThenWalk, IssueWalk, Allocate
  <2>2. allocated' \subseteq {0, rootFid'} \cup OpenFids' \cup Held'
    BY <1>1, <1>2, <1>3, <2>1 DEF Held, OnlyIf, WalkPc
  <2>3. CallFitsPc'
    BY <1>3, <2>1 DEF CallFitsPc, WalkPc, Walk2Pc, ClunkPc
  <2>4. OpenInProgress'
    BY <1>3, <2>1 DEF OpenInProgress, IsOpen, OpenPc
  <2> QED
    BY <1>3, <2>1, <2>2, <2>3, <2>4 DEF PoolInv
<1>4. ASSUME NEW o \in Ocb, NEW p, NEW t, Then(p, t, ocb[o].fid, 0),
             UNCHANGED ocb, IsOpen(o), loc'.ocb = o,
             \/ p \in {"Io", "Write"} /\ t = "io"
             \/ p = "Close" /\ t = "clunk"
      PROVE  PoolInv'
  <2>1. /\ Pending' /\ call'.type = t /\ call'.fid = ocb[o].fid
        /\ call'.phase = "send" /\ rootFid' = rootFid /\ pc' = p
        /\ allocated' = allocated
    BY <1>4, IssueFacts DEF Then, poolVars
  <2>2. CallFitsPc'
    BY <1>4, <2>1 DEF CallFitsPc, WalkPc, Walk2Pc, ClunkPc
  <2>3. OpenInProgress'
    BY <1>4, <2>1 DEF OpenInProgress, OpenPc
  <2> QED
    BY <1>1, <1>2, <1>4, <2>1, <2>2, <2>3 DEF PoolInv, IsOpen
<1>5. ASSUME NEW o \in Ocb, NEW create \in BOOLEAN, NEW excl \in BOOLEAN,
             ConnectOpen(o, create, excl)
      PROVE  PoolInv'
  <2>1. loc'.fid = nextFid /\ loc'.ocb = o /\ UNCHANGED ocb
    BY <1>1, <1>5 DEF ConnectOpen, Begin, Locals
  <2> QED
    BY <1>3, <1>5, <2>1 DEF ConnectOpen
<1>6. ASSUME NEW o \in Ocb, NEW n, IoRequest(o) \/ IoWrite(o, n) \/ IoCloseOcb(o)
      PROVE  PoolInv'
  <2>1. loc'.ocb = o /\ UNCHANGED ocb
    BY <1>1, <1>6 DEF IoRequest, IoWrite, IoCloseOcb, Begin, Locals
  <2> QED
    BY <1>4, <1>6, <2>1 DEF IoRequest, IoWrite, IoCloseOcb
<1>7. ASSUME ConnectMknod \/ ConnectUnlink \/ ConnectRename
      PROVE  PoolInv'
  <2>1. loc'.fid = nextFid /\ UNCHANGED ocb
    BY <1>1, <1>7 DEF ConnectMknod, ConnectUnlink, ConnectRename, Begin, Locals
  <2>2. CASE ConnectMknod
    BY <1>3, <2>1, <2>2 DEF ConnectMknod
  <2>3. CASE ConnectUnlink
    BY <1>3, <2>1, <2>3 DEF ConnectUnlink
  <2>4. CASE ConnectRename
    BY <1>3, <2>1, <2>4 DEF ConnectRename
  <2> QED
    BY <1>7, <2>2, <2>3, <2>4
<1> QED
  BY <1>5, <1>6, <1>7 DEF ClientRequest

(* A handler that calls the session again holds what it held before, less  *)
(* a fid that a clunk or a failed walk gave back, plus one it now walks to. *)
LEMMA HandlerStepPool ==
    ASSUME TypeOK, PoolInv, HandlerStep
    PROVE  PoolInv'
<1>1. loc \in Locals /\ nextFid \in Fid /\ ocb \in [Ocb -> OcbState]
      /\ loc.fid \in Fid /\ loc.ocb \in Ocb
  BY DEF TypeOK, SessionTypeOK, ClientTypeOK, HandlerTypeOK, Locals
<1>2. ASSUME UNCHANGED ocb PROVE OpenFids' = OpenFids
  BY <1>2 DEF OpenFids, OpenOcbs, IsOpen
<1>3. ~Pending
  BY DEF HandlerStep, InitVersionDone, InitAttachDone, OpenWalked, OpenOpened,
         OpenStatted, OpenParentWalked, OpenCreated, OpenAttachOcb, OpenUndone,
         IoDone, IoWritten, IoClosed, MkdirParentWalked, UnlinkParentWalked,
         UnlinkTargetWalked, UnlinkTargetStatted, UnlinkTargetClunked,
         RenameOldWalked, RenameNewWalked, RenameOpDone, RenameOldClunked,
         ParentOpDone, ParentClunked, Returned, Pending
<1>4. ASSUME NEW code, Done(code), UNCHANGED ocb, pc # "Close",
             pc \notin {"InitVersion", "InitAttach", "exited"}, Held = {}
      PROVE  PoolInv'
  <2>1. /\ pc' = "idle" /\ ~Pending' /\ allocated' = allocated
        /\ rootFid' = rootFid
    BY <1>3, <1>4 DEF Done, Pending
  <2>2. CallFitsPc' /\ OpenInProgress'
    BY <2>1 DEF CallFitsPc, OpenInProgress, OpenPc
  <2> QED
    BY <1>2, <1>4, <2>1, <2>2 DEF PoolInv
<1>5. CASE UnlinkTargetStatted
  <2>1. UNCHANGED ocb /\ OpenFids' = OpenFids
    BY <1>2, <1>5 DEF UnlinkTargetStatted
  <2>2. allocated' \subseteq {0, rootFid'} \cup OpenFids' \cup Held'
    BY <1>1, <1>3, <1>5, <2>1, IssueFacts
       DEF UnlinkTargetStatted, Returned, Then, ThenWalk, IssueWalk, Allocate,
           poolVars, PoolInv, Held, OnlyIf, WalkPc, Walk2Pc, ClunkPc, Locals
  <2>3. CallFitsPc' /\ OpenInProgress'
    BY <1>1, <1>3, <1>5, <2>1, IssueFacts
       DEF UnlinkTargetStatted, Returned, Then, ThenWalk, IssueWalk, Allocate,
           poolVars, PoolInv, CallFitsPc, OpenInProgress, OpenPc, WalkPc,
           Walk2Pc, ClunkPc, IsOpen, Bound, Locals
  <2> QED
    BY <1>3, <1>5, <2>1, <2>2, <2>3, IssueFacts
       DEF UnlinkTargetStatted, Returned, Then, ThenWalk, IssueWalk, PoolInv
<1>6. CASE UnlinkTargetClunked
  <2>1. UNCHANGED ocb /\ OpenFids' = OpenFids
    BY <1>2, <1>6 DEF UnlinkTargetClunked
  <2>2. allocated' \subseteq {0, rootFid'} \cup OpenFids' \cup Held'
    BY <1>1, <1>3, <1>6, <2>1, IssueFacts
       DEF UnlinkTargetClunked, Returned, Then, ThenWalk, IssueWalk, Allocate,
           poolVars, PoolInv, Held, OnlyIf, WalkPc, Walk2Pc, ClunkPc, Locals
  <2>3. CallFitsPc' /\ OpenInProgress'
    BY <1>1, <1>3, <1>6, <2>1, IssueFacts
       DEF UnlinkTargetClunked, Returned, Then, ThenWalk, IssueWalk, Allocate,
           poolVars, PoolInv, CallFitsPc, OpenInProgress, OpenPc, WalkPc,
           Walk2Pc, ClunkPc, IsOpen, Bound, Locals
  <2> QED
    BY <1>3, <1>6, <2>1, <2>2, <2>3, IssueFacts
       DEF UnlinkTargetClunked, Returned, Then, ThenWalk, IssueWalk, PoolInv
<1>7. CASE RenameOpDone
  <2>1. UNCHANGED ocb /\ OpenFids' = OpenFids
    BY <1>2, <1>7 DEF RenameOpDone
  <2>2. allocated' \subseteq {0, rootFid'} \cup OpenFids' \cup Held'
    BY <1>1, <1>3, <1>7, <2>1, IssueFacts
       DEF RenameOpDone, Returned, Then, ThenWalk, IssueWalk, Allocate,
           poolVars, PoolInv, Held, OnlyIf, WalkPc, Walk2Pc, ClunkPc, Locals
  <2>3. CallFitsPc' /\ OpenInProgress'
    BY <1>1, <1>3, <1>7, <2>1, IssueFacts
       DEF RenameOpDone, Returned, Then, ThenWalk, IssueWalk, Allocate,
           poolVars, PoolInv, CallFitsPc, OpenInProgress, OpenPc, WalkPc,
           Walk2Pc, ClunkPc, IsOpen, Bound, Locals
  <2> QED
    BY <1>3, <1>7, <2>1, <2>2, <2>3, IssueFacts
       DEF RenameOpDone, Returned, Then, ThenWalk, IssueWalk, PoolInv
<1>8. CASE RenameOldClunked
  <2>1. UNCHANGED ocb /\ OpenFids' = OpenFids
    BY <1>2, <1>8 DEF RenameOldClunked
  <2>2. allocated' \subseteq {0, rootFid'} \cup OpenFids' \cup Held'
    BY <1>1, <1>3, <1>8, <2>1, IssueFacts
       DEF RenameOldClunked, Returned, Then, ThenWalk, IssueWalk, Allocate,
           poolVars, PoolInv, Held, OnlyIf, WalkPc, Walk2Pc, ClunkPc, Locals
  <2>3. CallFitsPc' /\ OpenInProgress'
    BY <1>1, <1>3, <1>8, <2>1, IssueFacts
       DEF RenameOldClunked, Returned, Then, ThenWalk, IssueWalk, Allocate,
           poolVars, PoolInv, CallFitsPc, OpenInProgress, OpenPc, WalkPc,
           Walk2Pc, ClunkPc, IsOpen, Bound, Locals
  <2> QED
    BY <1>3, <1>8, <2>1, <2>2, <2>3, IssueFacts
       DEF RenameOldClunked, Returned, Then, ThenWalk, IssueWalk, PoolInv
<1>9. CASE ParentOpDone
  <2>1. UNCHANGED ocb /\ OpenFids' = OpenFids
    BY <1>2, <1>9 DEF ParentOpDone
  <2>2. allocated' \subseteq {0, rootFid'} \cup OpenFids' \cup Held'
    BY <1>1, <1>3, <1>9, <2>1, IssueFacts
       DEF ParentOpDone, Returned, Then, ThenWalk, IssueWalk, Allocate,
           poolVars, PoolInv, Held, OnlyIf, WalkPc, Walk2Pc, ClunkPc, Locals
  <2>3. CallFitsPc' /\ OpenInProgress'
    BY <1>1, <1>3, <1>9, <2>1, IssueFacts
       DEF ParentOpDone, Returned, Then, ThenWalk, IssueWalk, Allocate,
           poolVars, PoolInv, CallFitsPc, OpenInProgress, OpenPc, WalkPc,
           Walk2Pc, ClunkPc, IsOpen, Bound, Locals
  <2> QED
    BY <1>3, <1>9, <2>1, <2>2, <2>3, IssueFacts
       DEF ParentOpDone, Returned, Then, ThenWalk, IssueWalk, PoolInv
<1>10. CASE UnlinkTargetWalked
  <2>1. UNCHANGED ocb /\ OpenFids' = OpenFids
    BY <1>2, <1>10 DEF UnlinkTargetWalked
  <2>2. allocated' \subseteq {0, rootFid'} \cup OpenFids' \cup Held'
    BY <1>1, <1>3, <1>10, <2>1, IssueFacts
       DEF UnlinkTargetWalked, Returned, Then, ThenWalk, IssueWalk, Allocate,
           poolVars, PoolInv, Held, OnlyIf, WalkPc, Walk2Pc, ClunkPc, Locals
  <2>3. CallFitsPc' /\ OpenInProgress'
    BY <1>1, <1>3, <1>10, <2>1, IssueFacts
       DEF UnlinkTargetWalked, Returned, Then, ThenWalk, IssueWalk, Allocate,
           poolVars, PoolInv, CallFitsPc, OpenInProgress, OpenPc, WalkPc,
           Walk2Pc, ClunkPc, IsOpen, Bound, Locals
  <2> QED
    BY <1>3, <1>10, <2>1, <2>2, <2>3, IssueFacts
       DEF UnlinkTargetWalked, Returned, Then, ThenWalk, IssueWalk, PoolInv
<1>11. CASE OpenWalked
  <2>1. UNCHANGED ocb /\ OpenFids' = OpenFids
    BY <1>2, <1>11 DEF OpenWalked
  <2>2. CASE pc' = "idle"
    <3>1. Held = {}
      BY <1>3, <1>11, <2>2, IssueFacts
         DEF OpenWalked, Returned, Then, ThenWalk, Held, OnlyIf, WalkPc,
             Walk2Pc, ClunkPc
    <3>2. PICK code : Done(code)
      BY <1>11, <2>2 DEF OpenWalked, Then, ThenWalk
    <3> QED
      BY <1>4, <1>11, <2>1, <3>1, <3>2 DEF OpenWalked, Returned
  <2>3. CASE pc' # "idle"
    <3>1. allocated' \subseteq {0, rootFid'} \cup OpenFids' \cup Held'
      BY <1>1, <1>3, <1>11, <2>1, <2>3, IssueFacts
         DEF OpenWalked, Returned, Then, ThenWalk, IssueWalk, Allocate, Done,
             poolVars, PoolInv, Held, OnlyIf, WalkPc, Walk2Pc, ClunkPc, Locals
    <3>2. CallFitsPc' /\ OpenInProgress'
      BY <1>1, <1>3, <1>11, <2>1, <2>3, IssueFacts
         DEF OpenWalked, Returned, Then, ThenWalk, IssueWalk, Allocate, Done,
             poolVars, PoolInv, CallFitsPc, OpenInProgress, OpenPc, WalkPc,
             Walk2Pc, ClunkPc, IsOpen, Bound, Locals
    <3> QED
      BY <1>3, <1>11, <2>1, <2>3, <3>1, <3>2, IssueFacts
         DEF OpenWalked, Returned, Then, ThenWalk, IssueWalk, Done, PoolInv
  <2> QED
    BY <2>2, <2>3
<1>12. CASE OpenOpened
  <2>1. UNCHANGED ocb /\ OpenFids' = OpenFids
    BY <1>2, <1>12 DEF OpenOpened
  <2>2. CASE pc' = "idle"
    <3>1. Held = {}
      BY <1>3, <1>12, <2>2, IssueFacts
         DEF OpenOpened, OpenFailed, Returned, Then, ThenWalk, Held, OnlyIf, WalkPc,
             Walk2Pc, ClunkPc
    <3>2. PICK code : Done(code)
      BY <1>12, <2>2 DEF OpenOpened, OpenFailed, Then, ThenWalk
    <3> QED
      BY <1>4, <1>12, <2>1, <3>1, <3>2 DEF OpenOpened, Returned
  <2>3. CASE pc' # "idle"
    <3>1. allocated' \subseteq {0, rootFid'} \cup OpenFids' \cup Held'
      BY <1>1, <1>3, <1>12, <2>1, <2>3, IssueFacts
         DEF OpenOpened, OpenFailed, Returned, Then, ThenWalk, IssueWalk, Allocate, Done,
             poolVars, PoolInv, Held, OnlyIf, WalkPc, Walk2Pc, ClunkPc, Locals
    <3>2. CallFitsPc' /\ OpenInProgress'
      BY <1>1, <1>3, <1>12, <2>1, <2>3, IssueFacts
         DEF OpenOpened, OpenFailed, Returned, Then, ThenWalk, IssueWalk, Allocate, Done,
             poolVars, PoolInv, CallFitsPc, OpenInProgress, OpenPc, WalkPc,
             Walk2Pc, ClunkPc, IsOpen, Bound, Locals
    <3> QED
      BY <1>3, <1>12, <2>1, <2>3, <3>1, <3>2, IssueFacts
         DEF OpenOpened, OpenFailed, Returned, Then, ThenWalk, IssueWalk, Done, PoolInv
  <2> QED
    BY <2>2, <2>3
<1>13. CASE OpenParentWalked
  <2>1. UNCHANGED ocb /\ OpenFids' = OpenFids
    BY <1>2, <1>13 DEF OpenParentWalked
  <2>2. CASE pc' = "idle"
    <3>1. Held = {}
      BY <1>3, <1>13, <2>2, IssueFacts
         DEF OpenParentWalked, Returned, Then, ThenWalk, Held, OnlyIf, WalkPc,
             Walk2Pc, ClunkPc
    <3>2. PICK code : Done(code)
      BY <1>13, <2>2 DEF OpenParentWalked, Then, ThenWalk
    <3> QED
      BY <1>4, <1>13, <2>1, <3>1, <3>2 DEF OpenParentWalked, Returned
  <2>3. CASE pc' # "idle"
    <3>1. allocated' \subseteq {0, rootFid'} \cup OpenFids' \cup Held'
      BY <1>1, <1>3, <1>13, <2>1, <2>3, IssueFacts
         DEF OpenParentWalked, Returned, Then, ThenWalk, IssueWalk, Allocate, Done,
             poolVars, PoolInv, Held, OnlyIf, WalkPc, Walk2Pc, ClunkPc, Locals
    <3>2. CallFitsPc' /\ OpenInProgress'
      BY <1>1, <1>3, <1>13, <2>1, <2>3, IssueFacts
         DEF OpenParentWalked, Returned, Then, ThenWalk, IssueWalk, Allocate, Done,
             poolVars, PoolInv, CallFitsPc, OpenInProgress, OpenPc, WalkPc,
             Walk2Pc, ClunkPc, IsOpen, Bound, Locals
    <3> QED
      BY <1>3, <1>13, <2>1, <2>3, <3>1, <3>2, IssueFacts
         DEF OpenParentWalked, Returned, Then, ThenWalk, IssueWalk, Done, PoolInv
  <2> QED
    BY <2>2, <2>3
<1>14. CASE OpenUndone
  <2>1. Held = {}
    BY <1>3, <1>14
       DEF OpenUndone, Returned, Held, OnlyIf, WalkPc, Walk2Pc, ClunkPc
  <2> QED
    BY <1>4, <1>14, <2>1 DEF OpenUndone, Returned
<1>15. CASE IoDone
  <2>1. Held = {}
    BY <1>3, <1>15
       DEF IoDone, Returned, Held, OnlyIf, WalkPc, Walk2Pc, ClunkPc
  <2> QED
    BY <1>4, <1>15, <2>1 DEF IoDone, Returned
<1>16. CASE IoWritten
  <2>1. UNCHANGED ocb /\ OpenFids' = OpenFids
    BY <1>2, <1>16 DEF IoWritten
  <2>2. CASE pc' = "idle"
    <3>1. Held = {}
      BY <1>3, <1>16, <2>2, IssueFacts
         DEF IoWritten, Returned, Then, ThenWalk, Held, OnlyIf, WalkPc,
             Walk2Pc, ClunkPc
    <3>2. PICK code : Done(code)
      BY <1>16, <2>2 DEF IoWritten, Then, ThenWalk
    <3> QED
      BY <1>4, <1>16, <2>1, <3>1, <3>2 DEF IoWritten, Returned
  <2>3. CASE pc' # "idle"
    <3>1. allocated' \subseteq {0, rootFid'} \cup OpenFids' \cup Held'
      BY <1>1, <1>3, <1>16, <2>1, <2>3, IssueFacts
         DEF IoWritten, Returned, Then, ThenWalk, IssueWalk, Allocate, Done,
             poolVars, PoolInv, Held, OnlyIf, WalkPc, Walk2Pc, ClunkPc, Locals
    <3>2. CallFitsPc' /\ OpenInProgress'
      BY <1>1, <1>3, <1>16, <2>1, <2>3, IssueFacts
         DEF IoWritten, Returned, Then, ThenWalk, IssueWalk, Allocate, Done,
             poolVars, PoolInv, CallFitsPc, OpenInProgress, OpenPc, WalkPc,
             Walk2Pc, ClunkPc, IsOpen, Bound, Locals
    <3> QED
      BY <1>3, <1>16, <2>1, <2>3, <3>1, <3>2, IssueFacts
         DEF IoWritten, Returned, Then, ThenWalk, IssueWalk, Done, PoolInv
  <2> QED
    BY <2>2, <2>3
<1>17. CASE MkdirParentWalked
  <2>1. UNCHANGED ocb /\ OpenFids' = OpenFids
    BY <1>2, <1>17 DEF MkdirParentWalked
  <2>2. CASE pc' = "idle"
    <3>1. Held = {}
      BY <1>3, <1>17, <2>2, IssueFacts
         DEF MkdirParentWalked, Returned, Then, ThenWalk, Held, OnlyIf, WalkPc,
             Walk2Pc, ClunkPc
    <3>2. PICK code : Done(code)
      BY <1>17, <2>2 DEF MkdirParentWalked, Then, ThenWalk
    <3> QED
      BY <1>4, <1>17, <2>1, <3>1, <3>2 DEF MkdirParentWalked, Returned
  <2>3. CASE pc' # "idle"
    <3>1. allocated' \subseteq {0, rootFid'} \cup OpenFids' \cup Held'
      BY <1>1, <1>3, <1>17, <2>1, <2>3, IssueFacts
         DEF MkdirParentWalked, Returned, Then, ThenWalk, IssueWalk, Allocate, Done,
             poolVars, PoolInv, Held, OnlyIf, WalkPc, Walk2Pc, ClunkPc, Locals
    <3>2. CallFitsPc' /\ OpenInProgress'
      BY <1>1, <1>3, <1>17, <2>1, <2>3, IssueFacts
         DEF MkdirParentWalked, Returned, Then, ThenWalk, IssueWalk, Allocate, Done,
             poolVars, PoolInv, CallFitsPc, OpenInProgress, OpenPc, WalkPc,
             Walk2Pc, ClunkPc, IsOpen, Bound, Locals
    <3> QED
      BY <1>3, <1>17, <2>1, <2>3, <3>1, <3>2, IssueFacts
         DEF MkdirParentWalked, Returned, Then, ThenWalk, IssueWalk, Done, PoolInv
  <2> QED
    BY <2>2, <2>3
<1>18. CASE UnlinkParentWalked
  <2>1. UNCHANGED ocb /\ OpenFids' = OpenFids
    BY <1>2, <1>18 DEF UnlinkParentWalked
  <2>2. CASE pc' = "idle"
    <3>1. Held = {}
      BY <1>3, <1>18, <2>2, IssueFacts
         DEF UnlinkParentWalked, Returned, Then, ThenWalk, Held, OnlyIf, WalkPc,
             Walk2Pc, ClunkPc
    <3>2. PICK code : Done(code)
      BY <1>18, <2>2 DEF UnlinkParentWalked, Then, ThenWalk
    <3> QED
      BY <1>4, <1>18, <2>1, <3>1, <3>2 DEF UnlinkParentWalked, Returned
  <2>3. CASE pc' # "idle"
    <3>1. allocated' \subseteq {0, rootFid'} \cup OpenFids' \cup Held'
      BY <1>1, <1>3, <1>18, <2>1, <2>3, IssueFacts
         DEF UnlinkParentWalked, Returned, Then, ThenWalk, IssueWalk, Allocate, Done,
             poolVars, PoolInv, Held, OnlyIf, WalkPc, Walk2Pc, ClunkPc, Locals
    <3>2. CallFitsPc' /\ OpenInProgress'
      BY <1>1, <1>3, <1>18, <2>1, <2>3, IssueFacts
         DEF UnlinkParentWalked, Returned, Then, ThenWalk, IssueWalk, Allocate, Done,
             poolVars, PoolInv, CallFitsPc, OpenInProgress, OpenPc, WalkPc,
             Walk2Pc, ClunkPc, IsOpen, Bound, Locals
    <3> QED
      BY <1>3, <1>18, <2>1, <2>3, <3>1, <3>2, IssueFacts
         DEF UnlinkParentWalked, Returned, Then, ThenWalk, IssueWalk, Done, PoolInv
  <2> QED
    BY <2>2, <2>3
<1>19. CASE RenameOldWalked
  <2>1. UNCHANGED ocb /\ OpenFids' = OpenFids
    BY <1>2, <1>19 DEF RenameOldWalked
  <2>2. CASE pc' = "idle"
    <3>1. Held = {}
      BY <1>3, <1>19, <2>2, IssueFacts
         DEF RenameOldWalked, Returned, Then, ThenWalk, Held, OnlyIf, WalkPc,
             Walk2Pc, ClunkPc
    <3>2. PICK code : Done(code)
      BY <1>19, <2>2 DEF RenameOldWalked, Then, ThenWalk
    <3> QED
      BY <1>4, <1>19, <2>1, <3>1, <3>2 DEF RenameOldWalked, Returned
  <2>3. CASE pc' # "idle"
    <3>1. allocated' \subseteq {0, rootFid'} \cup OpenFids' \cup Held'
      BY <1>1, <1>3, <1>19, <2>1, <2>3, IssueFacts
         DEF RenameOldWalked, Returned, Then, ThenWalk, IssueWalk, Allocate, Done,
             poolVars, PoolInv, Held, OnlyIf, WalkPc, Walk2Pc, ClunkPc, Locals
    <3>2. CallFitsPc' /\ OpenInProgress'
      BY <1>1, <1>3, <1>19, <2>1, <2>3, IssueFacts
         DEF RenameOldWalked, Returned, Then, ThenWalk, IssueWalk, Allocate, Done,
             poolVars, PoolInv, CallFitsPc, OpenInProgress, OpenPc, WalkPc,
             Walk2Pc, ClunkPc, IsOpen, Bound, Locals
    <3> QED
      BY <1>3, <1>19, <2>1, <2>3, <3>1, <3>2, IssueFacts
         DEF RenameOldWalked, Returned, Then, ThenWalk, IssueWalk, Done, PoolInv
  <2> QED
    BY <2>2, <2>3
<1>20. CASE RenameNewWalked
  <2>1. UNCHANGED ocb /\ OpenFids' = OpenFids
    BY <1>2, <1>20 DEF RenameNewWalked
  <2>2. CASE pc' = "idle"
    <3>1. Held = {}
      BY <1>3, <1>20, <2>2, IssueFacts
         DEF RenameNewWalked, Returned, Then, ThenWalk, Held, OnlyIf, WalkPc,
             Walk2Pc, ClunkPc
    <3>2. PICK code : Done(code)
      BY <1>20, <2>2 DEF RenameNewWalked, Then, ThenWalk
    <3> QED
      BY <1>4, <1>20, <2>1, <3>1, <3>2 DEF RenameNewWalked, Returned
  <2>3. CASE pc' # "idle"
    <3>1. allocated' \subseteq {0, rootFid'} \cup OpenFids' \cup Held'
      BY <1>1, <1>3, <1>20, <2>1, <2>3, IssueFacts
         DEF RenameNewWalked, Returned, Then, ThenWalk, IssueWalk, Allocate, Done,
             poolVars, PoolInv, Held, OnlyIf, WalkPc, Walk2Pc, ClunkPc, Locals
    <3>2. CallFitsPc' /\ OpenInProgress'
      BY <1>1, <1>3, <1>20, <2>1, <2>3, IssueFacts
         DEF RenameNewWalked, Returned, Then, ThenWalk, IssueWalk, Allocate, Done,
             poolVars, PoolInv, CallFitsPc, OpenInProgress, OpenPc, WalkPc,
             Walk2Pc, ClunkPc, IsOpen, Bound, Locals
    <3> QED
      BY <1>3, <1>20, <2>1, <2>3, <3>1, <3>2, IssueFacts
         DEF RenameNewWalked, Returned, Then, ThenWalk, IssueWalk, Done, PoolInv
  <2> QED
    BY <2>2, <2>3
<1>21. CASE ParentClunked
  <2>1. Held = {}
    BY <1>3, <1>21
       DEF ParentClunked, Returned, Held, OnlyIf, WalkPc, Walk2Pc, ClunkPc
  <2> QED
    BY <1>4, <1>21, <2>1 DEF ParentClunked, Returned
<1>22. CASE OpenStatted \/ OpenCreated
  <2>1. UNCHANGED ocb /\ OpenFids' = OpenFids
    BY <1>2, <1>22 DEF OpenStatted, OpenCreated
  <2>2. allocated' \subseteq {0, rootFid'} \cup OpenFids' \cup Held'
    <3>1. allocated \subseteq {0, rootFid} \cup OpenFids \cup {loc.fid}
      BY <1>3, <1>22
         DEF OpenStatted, OpenCreated, Returned, PoolInv, Held, OnlyIf, WalkPc,
             Walk2Pc, ClunkPc
    <3>2. allocated' = allocated /\ rootFid' = rootFid
      BY <1>22, IssueFacts
         DEF OpenStatted, OpenCreated, OpenFailed, Then, poolVars
    <3>3. loc.fid \in Held'
      <4>1. CASE OpenFailed
        BY <4>1, IssueFacts DEF OpenFailed, Then, Held, OnlyIf, ClunkPc
      <4>2. CASE pc' = "OpenAttachOcb" /\ loc'.fid = loc.fid
        BY <4>2 DEF Held, OnlyIf
      <4> QED
        BY <1>1, <1>22, <4>1, <4>2 DEF OpenStatted, OpenCreated, Locals
    <3> QED
      BY <2>1, <3>1, <3>2, <3>3
  <2>3. CallFitsPc'
    BY <1>1, <1>3, <1>22, IssueFacts
       DEF OpenStatted, OpenCreated, OpenFailed, Returned, Then, CallFitsPc,
           WalkPc, Walk2Pc, ClunkPc, Pending, Locals
  <2>4. OpenInProgress'
    <3>1. CASE pc' = "OpenUndo"
      BY <3>1 DEF OpenInProgress, OpenPc
    <3>2. CASE OpenStatted
      BY <1>1, <2>1, <3>2
         DEF OpenStatted, Returned, PoolInv, OpenInProgress, OpenPc, IsOpen,
             Locals
    <3>3. CASE OpenCreated /\ pc' = "OpenAttachOcb"
      <4>1. rc = "ok" /\ loc'.obj = srvFids[loc.fid] /\ loc'.ocb = loc.ocb
        BY <1>1, <3>3 DEF OpenCreated, OpenFailed, Then, Locals
      <4> QED
        BY <1>3, <2>1, <3>3, <4>1
           DEF OpenCreated, Returned, PoolInv, OpenInProgress, OpenPc, IsOpen,
               Bound
    <3> QED
      BY <1>22, <3>1, <3>2, <3>3 DEF OpenCreated, OpenFailed, Then
  <2> QED
    BY <1>3, <1>22, <2>1, <2>2, <2>3, <2>4, IssueFacts
       DEF OpenStatted, OpenCreated, OpenFailed, Returned, Then, PoolInv
<1>23. CASE InitVersionDone
  <2>1. UNCHANGED ocb /\ OpenFids' = OpenFids
    BY <1>2, <1>23 DEF InitVersionDone
  <2>2. allocated \subseteq {0} /\ OpenFids = {}
    BY <1>3, <1>23
       DEF InitVersionDone, Returned, PoolInv, Held, OnlyIf, WalkPc, Walk2Pc,
           ClunkPc
  <2>3. \/ /\ pc' = "InitAttach" /\ rootFid' = nextFid
           /\ allocated' = allocated \cup {nextFid}
           /\ Pending' /\ call'.phase = "send" /\ call'.type = "attach"
        \/ pc' = "exited" /\ allocated' = allocated /\ ~Pending'
    BY <1>3, <1>23
       DEF InitVersionDone, IssueAttach, Allocate, Pending, NoCall
  <2>4. CallFitsPc' /\ OpenInProgress'
    BY <2>3 DEF CallFitsPc, OpenInProgress, OpenPc, WalkPc, Walk2Pc, ClunkPc
  <2> QED
    BY <2>1, <2>2, <2>3, <2>4 DEF PoolInv
<1>24. CASE InitAttachDone
  <2>1. /\ UNCHANGED ocb /\ OpenFids' = OpenFids /\ allocated' = allocated
        /\ rootFid' = rootFid /\ ~Pending' /\ pc' \in {"idle", "exited"}
    BY <1>2, <1>3, <1>24 DEF InitAttachDone, Pending
  <2>2. allocated \subseteq {0, rootFid} /\ OpenFids = {}
    BY <1>3, <1>24
       DEF InitAttachDone, Returned, PoolInv, Held, OnlyIf, WalkPc, Walk2Pc,
           ClunkPc
  <2>3. CallFitsPc' /\ OpenInProgress'
    BY <2>1 DEF CallFitsPc, OpenInProgress, OpenPc
  <2> QED
    BY <2>1, <2>2, <2>3 DEF PoolInv
<1>25. CASE OpenAttachOcb
  <2>1. ~IsOpen(loc.ocb) /\ loc.obj # NoObj /\ pc = "OpenAttachOcb"
    BY <1>25 DEF OpenAttachOcb, Returned, PoolInv, OpenInProgress, OpenPc
  <2>2. allocated \subseteq {0, rootFid} \cup OpenFids \cup {loc.fid}
    BY <1>3, <2>1
       DEF PoolInv, Held, OnlyIf, WalkPc, Walk2Pc, ClunkPc
  <2>3. CASE Done("ok")
    <3>1. ocb' = [ocb EXCEPT ![loc.ocb] =
                    [fid |-> loc.fid, obj |-> loc.obj, isDir |-> loc.isDir]]
      BY <1>25, <2>3, <2>1 DEF OpenAttachOcb, Then, Done
    <3>2. \A o \in OpenOcbs : o \in OpenOcbs' /\ ocb'[o].fid = ocb[o].fid
      BY <1>1, <2>1, <3>1 DEF OpenOcbs, IsOpen
    <3>3. loc.ocb \in OpenOcbs' /\ ocb'[loc.ocb].fid = loc.fid
      BY <1>1, <2>1, <3>1 DEF OpenOcbs, IsOpen
    <3>4. OpenFids \cup {loc.fid} \subseteq OpenFids'
      BY <3>2, <3>3 DEF OpenFids
    <3>5. /\ pc' = "idle" /\ ~Pending' /\ allocated' = allocated
          /\ rootFid' = rootFid
      BY <1>3, <2>3 DEF Done, Pending
    <3>6. CallFitsPc' /\ OpenInProgress'
      BY <3>5 DEF CallFitsPc, OpenInProgress, OpenPc
    <3> QED
      BY <2>2, <3>4, <3>5, <3>6 DEF PoolInv
  <2>4. CASE Then("OpenUndo", "clunk", loc.fid, 0) /\ UNCHANGED ocb
    <3>1. /\ Pending' /\ call'.type = "clunk" /\ call'.fid = loc.fid
          /\ call'.phase = "send" /\ pc' = "OpenUndo" /\ rootFid' = rootFid
          /\ allocated' = allocated
      BY <2>4, IssueFacts DEF Then, poolVars
    <3>2. CallFitsPc' /\ OpenInProgress'
      BY <3>1
         DEF CallFitsPc, OpenInProgress, OpenPc, WalkPc, Walk2Pc, ClunkPc
    <3>3. allocated' \subseteq {0, rootFid'} \cup OpenFids' \cup Held'
      BY <1>2, <2>2, <2>4, <3>1 DEF Held, OnlyIf, ClunkPc
    <3> QED
      BY <3>1, <3>2, <3>3 DEF PoolInv
  <2> QED
    BY <1>25, <2>3, <2>4 DEF OpenAttachOcb
<1>26. CASE IoClosed
  <2>1. /\ allocated \subseteq {0, rootFid} \cup OpenFids
        /\ ocb[loc.ocb].fid \notin allocated
    BY <1>3, <1>26
       DEF IoClosed, Returned, PoolInv, Held, OnlyIf, WalkPc, Walk2Pc, ClunkPc
  <2>2. ocb' = [ocb EXCEPT ![loc.ocb] = Closed]
    BY <1>26 DEF IoClosed
  <2>3. \A o \in OpenOcbs : o # loc.ocb =>
          o \in OpenOcbs' /\ ocb'[o].fid = ocb[o].fid
    BY <1>1, <2>2 DEF OpenOcbs, IsOpen
  <2>4. OpenFids \subseteq OpenFids' \cup {ocb[loc.ocb].fid}
    BY <2>3 DEF OpenFids
  <2>5. /\ pc' = "idle" /\ ~Pending' /\ allocated' = allocated
        /\ rootFid' = rootFid
    BY <1>3, <1>26 DEF IoClosed, Done, Pending
  <2>6. CallFitsPc' /\ OpenInProgress'
    BY <2>5 DEF CallFitsPc, OpenInProgress, OpenPc
  <2> QED
    BY <2>1, <2>4, <2>5, <2>6 DEF PoolInv
<1> QED
  BY <1>5, <1>6, <1>7, <1>8, <1>9, <1>10, <1>11, <1>12, <1>13,
     <1>14, <1>15, <1>16, <1>17, <1>18, <1>19, <1>20, <1>21, <1>22,
     <1>23, <1>24, <1>25, <1>26
     DEF HandlerStep

\* A fresh pool.
LEMMA InitPool == Init => PoolInv
<1> SUFFICES ASSUME Init PROVE PoolInv
  OBVIOUS
<1>1. OpenFids = {}
  BY DEF Init, OpenFids, OpenOcbs, IsOpen, Closed
<1>2. /\ pc = "InitVersion" /\ allocated = {} /\ rootFid = 0
      /\ call.phase = "send" /\ call.type = "version"
  BY DEF Init, SessionInit, NoCall
<1>3. CallFitsPc /\ OpenInProgress
  BY <1>2 DEF CallFitsPc, OpenInProgress, OpenPc, WalkPc, Walk2Pc, ClunkPc
<1> QED
  BY <1>1, <1>2, <1>3 DEF PoolInv

\* A pool after the session is initialised again.
LEMMA RestartPool ==
    ASSUME PoolInv, Restart
    PROVE  PoolInv'
<1>1. OpenFids' = OpenFids /\ OpenFids = {}
  BY DEF Restart, PoolInv, OpenFids, OpenOcbs, IsOpen
<1>2. /\ pc' = "InitVersion" /\ allocated' = {} /\ rootFid' = 0
      /\ call'.phase = "send" /\ call'.type = "version"
  BY DEF Restart, NoCall
<1>3. CallFitsPc' /\ OpenInProgress'
  BY <1>2 DEF CallFitsPc, OpenInProgress, OpenPc, WalkPc, Walk2Pc, ClunkPc
<1> QED
  BY <1>1, <1>2, <1>3 DEF PoolInv

(* PoolInv holds in every execution: at every step of every handler the    *)
(* pool accounts for exactly who holds a fid (fid_pool.cpp, and the clunks *)
(* on the error paths of fs_virtio9p.cpp).                                 *)
THEOREM PoolAccounted == Spec => []PoolInv
<1>1. Init => TypeOK /\ PoolInv
  BY InitType, InitPool
<1>2. TypeOK /\ PoolInv /\ [Next]_vars => (TypeOK /\ PoolInv)'
  <2> SUFFICES ASSUME TypeOK, PoolInv, [Next]_vars PROVE TypeOK' /\ PoolInv'
    OBVIOUS
  <2>1. TypeOK'
    BY StepType
  <2>2. ASSUME UNCHANGED vars PROVE PoolInv'
    <3>1. Held' = Held /\ OpenFids' = OpenFids
      BY <2>2 DEF vars, sessionVars, Held, OnlyIf, Pending, OpenFids, OpenOcbs,
                  IsOpen
    <3>2. CallFitsPc' /\ OpenInProgress'
      BY <2>2 DEF vars, sessionVars, PoolInv, CallFitsPc, OpenInProgress,
                  Pending, IsOpen, Bound
    <3> QED
      BY <2>2, <3>1, <3>2 DEF vars, sessionVars, PoolInv, Pending, IsOpen
  <2>3. ASSUME ClientRequest PROVE PoolInv'
    BY <2>3, ClientRequestPool
  <2>4. ASSUME HandlerStep PROVE PoolInv'
    BY <2>4, HandlerStepPool
  <2>5. ASSUME SessionStep PROVE PoolInv'
    BY <2>5, TransactPool
  <2>6. ASSUME Restart PROVE PoolInv'
    BY <2>6, RestartPool
  <2> QED
    BY <2>1, <2>2, <2>3, <2>4, <2>5, <2>6 DEF Next, AwaitMessage
<1> QED
  BY <1>1, <1>2, PTL DEF Spec

(* Between requests the fid pool holds nothing but the root fid and the    *)
(* fids of open files, for every pattern of requests, refusals and failed  *)
(* exchanges.                                                              *)
THEOREM FidsNeverLeak == Spec => []NoFidLeak
<1>1. PoolInv => NoFidLeak
  <2> SUFFICES ASSUME PoolInv, pc = "idle" PROVE NoFidLeak
    BY DEF NoFidLeak
  <2>1. Held = {}
    BY DEF Held, OnlyIf, WalkPc, Walk2Pc, ClunkPc
  <2> QED
    BY <2>1 DEF PoolInv, NoFidLeak
<1> QED
  BY <1>1, PoolAccounted, PTL
-----------------------------------------------------------------------------
(* What the server answers, and what becomes of a session step.            *)

\* The server's reply to each request: what it makes of the fid table, and
\* whether it carried out a mutation.
LEMMA ReplyOf ==
    ASSUME TypeOK, NEW r \in Replies(Sent)
    PROVE  /\ r.mutations \in {0, 1}
           /\ call.type = "version" => r.fids = Unbound /\ r.mutations = 0
           /\ call.type # "version" /\ r.rc # "ok" =>
                 r.fids = srvFids /\ r.mutations = 0
           /\ call.type = "attach" /\ r.rc = "ok" =>
                 r.fids = Bind(call.fid, Root) /\ r.mutations = 0
           /\ call.type = "walk" /\ r.rc = "ok" =>
                 /\ call.fid = call.fid2 \/ ~Bound(call.fid2)
                 /\ \E o \in Obj : r.fids = Bind(call.fid2, o)
                 /\ r.mutations = 0
           /\ call.type = "clunk" =>
                 /\ r.rc = "ok" => r.fids = Bind(call.fid, NoObj)
                 /\ Bound(call.fid) => r.rc = "ok"
                 /\ r.mutations = 0
           /\ call.type \in Mutation /\ r.rc = "ok" =>
                 /\ r.mutations = 1 /\ Bound(call.fid)
                 /\ IF call.type = "create"
                    THEN \E o \in Files : r.fids = Bind(call.fid, o)
                    ELSE r.fids = srvFids
           /\ call.type \in {"open", "getattr", "io"} =>
                 r.fids = srvFids /\ r.mutations = 0
<1>1. Sent.type = call.type /\ Sent.fid = call.fid /\ Sent.fid2 = call.fid2
  BY DEF Sent, Message
<1>2. \A x \in Refusal : x.rc # "ok" /\ x.fids = srvFids /\ x.mutations = 0
  BY DEF Refusal, Reply
<1>3. CASE call.type = "version"
  <2>1. r \in VersionReply
    BY <1>1, <1>3 DEF Replies
  <2> QED
    BY <1>3, <2>1 DEF VersionReply, Reply, Mutation
<1>4. CASE call.type = "attach"
  <2>1. r \in AttachReply(call.fid)
    BY <1>1, <1>4 DEF Replies
  <2> QED
    BY <1>2, <1>4, <2>1 DEF AttachReply, Reply, Mutation
<1>5. CASE call.type \notin {"version", "attach"} /\ ~Bound(call.fid)
  <2>1. r = Reply("ENOENT", srvFids, 0)
    BY <1>1, <1>5 DEF Replies, AttachedReplies
  <2> QED
    BY <1>5, <2>1 DEF Reply
<1>6. CASE call.type = "walk" /\ Bound(call.fid)
  <2>1. r \in WalkReply(call.fid, call.fid2)
    BY <1>1, <1>6 DEF Replies, AttachedReplies
  <2> QED
    BY <1>2, <1>6, <2>1 DEF WalkReply, Reply, Mutation
<1>7. CASE call.type = "clunk" /\ Bound(call.fid)
  <2>1. r = Reply("ok", Bind(call.fid, NoObj), 0)
    BY <1>1, <1>7 DEF Replies, AttachedReplies
  <2> QED
    BY <1>7, <2>1 DEF Reply, Mutation
<1>8. CASE call.type \in Mutation /\ Bound(call.fid)
  <2>1. r \in MutationReply(call.type, call.fid, call.fid2)
    BY <1>1, <1>8 DEF Replies, AttachedReplies, Mutation
  <2> QED
    BY <1>2, <1>8, <2>1 DEF MutationReply, Reply, Mutation
<1>9. CASE call.type \in {"open", "getattr", "io"} /\ Bound(call.fid)
  <2>1. r \in Refusal \cup {Reply("ok", srvFids, 0)}
    BY <1>1, <1>9 DEF Replies, AttachedReplies, Mutation
  <2> QED
    BY <1>2, <1>9, <2>1 DEF Reply, Mutation
<1> QED
  BY <1>3, <1>4, <1>5, <1>6, <1>7, <1>8, <1>9
     DEF TypeOK, SessionTypeOK, ClientTypeOK, Request

\* What a step of Transact does, by where it is in its loop.
Answers == /\ call.phase = "send"
           /\ \E r \in Replies(Sent) : Answered(r) /\ Return(r.rc, {})
Garbles == call.phase = "send" /\ Garbled(Sent) /\ Return("EIO", {})
VersionAnswered ==
    /\ call.phase = "reVersion"
    /\ srvFids' = Unbound /\ applied' = applied
    /\ rootFid' = nextFid /\ Allocate /\ NextTag /\ rc' = rc
    /\ call' = [call EXCEPT !.phase = "reAttach"]
ReinitFailed ==
    /\ call.phase \in {"reVersion", "reAttach"}
    /\ applied' = applied
    /\ \A f \in Fid : srvFids'[f] # NoObj => Bound(f) \/ f = rootFid
    /\ \E S : Return("EIO", S)
AttachedAgain ==
    /\ call.phase = "reAttach"
    /\ srvFids' = Bind(rootFid, Root) /\ applied' = applied
    /\ \/ /\ call' = [call EXCEPT !.phase = "send", !.attempt = @ + 1]
          /\ UNCHANGED <<allocated, nextFid, rootFid, nextTag, rc>>
       \/ Return("EIO", {})

\* Every step of a session call is one of these.
LEMMA SessionCases ==
    ASSUME TypeOK, SessionStep
    PROVE  /\ Pending /\ pc' = pc /\ loc' = loc /\ ocb' = ocb
           /\ \/ Answers \/ Garbles \/ TransactFails
              \/ VersionAnswered \/ ReinitFailed \/ AttachedAgain
<1>1. Transact /\ pc' = pc /\ loc' = loc /\ ocb' = ocb
  BY DEF SessionStep
<1>2. Pending
  BY <1>1 DEF Transact, TransactReply, TransactFails, ReinitVersion,
              ReinitAttach, Pending, NoCall
<1>3. /\ srvFids \in [Fid -> Obj \cup {NoObj}] /\ rootFid \in Fid
      /\ applied \in Nat
  BY DEF TypeOK, SessionTypeOK, ServerTypeOK, ClientTypeOK
<1>4. \A f \in Fid : Unbound[f] = NoObj
  BY DEF Unbound
<1>5. \A r \in Replies(Tversion) : r.fids = Unbound /\ r.mutations = 0
  BY DEF Tversion, Message, Replies, VersionReply, Reply
<1>6. \A r \in Replies(Tattach) :
         /\ r.mutations = 0
         /\ r.rc = "ok" => r.fids = Bind(rootFid, Root)
         /\ r.fids \in {srvFids, Bind(rootFid, Root)}
  BY DEF Tattach, Message, Replies, AttachReply, Refusal, Reply
<1>7. \A f \in Fid : f # rootFid => Bind(rootFid, Root)[f] = srvFids[f]
  BY <1>3 DEF Bind
<1>8. CASE TransactReply
  BY <1>1, <1>2, <1>8 DEF TransactReply, Answers, Garbles
<1>9. CASE ReinitVersion
  <2>1. CASE \E r \in Replies(Tversion) :
               /\ r.rc = "ok" /\ Answered(r)
               /\ rootFid' = nextFid /\ Allocate /\ NextTag
               /\ call' = [call EXCEPT !.phase = "reAttach"]
               /\ UNCHANGED rc
    BY <1>1, <1>2, <1>3, <1>5, <1>9, <2>1
       DEF ReinitVersion, VersionAnswered, Answered
  <2>2. CASE /\ \/ \E r \in Replies(Tversion) : Answered(r)
                \/ Garbled(Tversion) \/ Lost(Tversion)
             /\ Return("EIO", {})
    <3>1. srvFids' = Unbound /\ applied' = applied
      BY <1>3, <1>5, <2>2 DEF Answered, Garbled, Lost
    <3> QED
      BY <1>1, <1>2, <1>4, <1>9, <2>2, <3>1 DEF ReinitVersion, ReinitFailed
  <2> QED
    BY <1>9, <2>1, <2>2 DEF ReinitVersion
<1>10. CASE ReinitAttach
  <2>1. CASE \E r \in Replies(Tattach) :
               r.rc = "ok" /\ Answered(r) /\ ReinitDone
    <3>1. srvFids' = Bind(rootFid, Root) /\ applied' = applied
      BY <1>3, <1>6, <2>1 DEF Answered
    <3> QED
      BY <1>1, <1>2, <1>10, <2>1, <3>1
         DEF ReinitAttach, ReinitDone, AttachedAgain
  <2>2. CASE /\ \/ \E r \in Replies(Tattach) : Answered(r)
                \/ Garbled(Tattach) \/ Lost(Tattach)
             /\ Return("EIO", {rootFid})
    <3>1. /\ srvFids' \in {srvFids, Bind(rootFid, Root), Unbound}
          /\ applied' = applied
      BY <1>3, <1>6, <2>2 DEF Answered, Garbled, Lost
    <3>2. \A f \in Fid : srvFids'[f] # NoObj => Bound(f) \/ f = rootFid
      BY <1>4, <1>7, <3>1 DEF Bound
    <3> QED
      BY <1>1, <1>2, <1>10, <2>2, <3>1, <3>2 DEF ReinitAttach, ReinitFailed
  <2> QED
    BY <1>10, <2>1, <2>2 DEF ReinitAttach
<1> QED
  BY <1>1, <1>2, <1>8, <1>9, <1>10 DEF Transact

-----------------------------------------------------------------------------
(* A retry never carries out a mutation twice.                             *)

\* Before the request that changes something; the place of that request.
EarlyPc == {"InitVersion", "InitAttach", "exited",
            "OpenWalk", "OpenOpen", "OpenGetAttr",
            "OpenParent", "MkdirParent", "UnlinkParent", "UnlinkTarget",
            "UnlinkGetAttr", "UnlinkClunkTarget", "RenameOld", "RenameNew"}
MutationPc == {"OpenCreate", "ParentOp", "RenameOp"}
NothingBound == \A f \in Fid : ~Bound(f)

\* A handler has one request that changes something.  A reset unbinds the
\* fid that its retry names, unless that is the root's own, which is then 0:
\* the pool began anew.
RetryInv ==
    /\ pc \in EarlyPc => applied = 0
    /\ Pending =>
         /\ call.type \in Mutation <=> pc \in MutationPc
         /\ pc \in MutationPc => call.fid = loc.fid
         /\ call.phase \in {"reVersion", "reAttach"} => NothingBound
         /\ call.phase = "reAttach" => rootFid = 0
         /\ call.phase = "send" /\ pc \in MutationPc /\ applied > 0 =>
               rootFid = 0 /\ \A f \in Fid : Bound(f) => f = 0
    /\ applied > 1 => loc.fid = 0 /\ rootFid = 0
    /\ ~Pending /\ pc \in MutationPc /\ rc = "ok" => applied > 0
    /\ pc \in {"RenameClunkOld", "ClunkParent"} /\ loc.rc = "ok" => applied > 0
    /\ loc.created => applied > 0

\* A session call keeps RetryInv: what it did to the server is undone by
\* the reset before the request is sent again.
LEMMA SessionRetry ==
    ASSUME TypeOK, PoolInv, RetryInv, SessionStep
    PROVE  RetryInv'
<1>1. /\ Pending /\ pc' = pc /\ loc' = loc /\ ocb' = ocb
      /\ \/ Answers \/ Garbles \/ TransactFails
         \/ VersionAnswered \/ ReinitFailed \/ AttachedAgain
  BY SessionCases
<1>2. /\ srvFids \in [Fid -> Obj \cup {NoObj}] /\ rootFid \in Fid
      /\ applied \in Nat /\ call.fid \in Fid
      /\ call \in [type : Request, fid : Fid, fid2 : Fid, tag : Tag,
                   attempt : 0 .. kMaxRetries - 1, phase : Phase]
  BY DEF TypeOK, SessionTypeOK, ServerTypeOK, ClientTypeOK
<1>3. \A f \in Fid : Unbound[f] = NoObj
  BY DEF Unbound
<1>4. ASSUME NEW r \in Replies(Sent)
      PROVE  /\ r.mutations \in {0, 1}
             /\ r.mutations = 1 => call.type \in Mutation /\ Bound(call.fid)
             /\ r.rc = "ok" /\ call.type \in Mutation => r.mutations = 1
  BY <1>4, ReplyOf
     DEF Mutation, Request, TypeOK, SessionTypeOK, ClientTypeOK
<1>5. ASSUME call.phase = "send", NEW r \in Replies(Sent)
      PROVE  /\ applied + r.mutations \in Nat
             /\ pc \in EarlyPc => applied + r.mutations = 0
             /\ applied + r.mutations > 1 => loc.fid = 0 /\ rootFid = 0
  BY <1>1, <1>2, <1>4, <1>5 DEF RetryInv, EarlyPc, MutationPc
<1>6. CASE Answers \/ Garbles
  <2>1. PICK r \in Replies(Sent) : applied' = applied + r.mutations
    BY <1>6 DEF Answers, Garbles, Answered, Garbled
  <2>2. ~Pending' /\ rootFid' = rootFid
    BY <1>6 DEF Answers, Garbles, Return, Pending
  <2>3. call.phase = "send"
    BY <1>6 DEF Answers, Garbles
  <2>4. ASSUME pc \in MutationPc, rc' = "ok" PROVE applied' > 0
    <3>1. PICK s \in Replies(Sent) : applied' = applied + s.mutations /\ s.rc = "ok"
      BY <1>6, <2>4 DEF Answers, Garbles, Answered, Return
    <3>2. s.mutations = 1
      BY <1>1, <1>4, <2>4, <3>1 DEF RetryInv
    <3> QED
      BY <1>2, <3>1, <3>2
  <2>5. applied' \in Nat /\ (applied > 0 => applied' > 0)
    BY <1>2, <1>4, <2>1
  <2> QED
    BY <1>1, <1>2, <1>5, <2>1, <2>2, <2>3, <2>4, <2>5 DEF RetryInv
<1>7. CASE TransactFails
  <2>1. /\ srvFids' = Unbound /\ rootFid' = rootFid /\ rc' = rc
        /\ call' = [call EXCEPT !.phase = "reVersion"] /\ call.phase = "send"
    BY <1>7 DEF TransactFails, Lost
  <2>2. applied' = applied \/ \E r \in Replies(Sent) : applied' = applied + r.mutations
    BY <1>7 DEF TransactFails, Lost
  <2>3. /\ Pending' /\ call'.type = call.type /\ call'.fid = call.fid
        /\ call'.phase = "reVersion"
    BY <1>2, <2>1 DEF Pending, NoCall
  <2>4. NothingBound'
    BY <1>3, <2>1 DEF NothingBound, Bound
  <2>5. applied' \in Nat /\ (applied > 0 => applied' > 0)
    BY <1>2, <1>4, <2>2
  <2> QED
    BY <1>1, <1>2, <1>5, <2>1, <2>2, <2>3, <2>4, <2>5 DEF RetryInv
<1>8. CASE VersionAnswered
  <2>1. /\ Pending' /\ call'.type = call.type /\ call'.fid = call.fid
        /\ call'.phase = "reAttach"
    BY <1>2, <1>8 DEF VersionAnswered, Pending, NoCall
  <2>2. nextFid = 0
    BY <1>1, <1>8 DEF VersionAnswered, PoolInv, CallFitsPc
  <2>3. NothingBound'
    BY <1>3, <1>8 DEF VersionAnswered, NothingBound, Bound
  <2> QED
    BY <1>1, <1>8, <2>1, <2>2, <2>3 DEF VersionAnswered, RetryInv
<1>9. CASE ReinitFailed
  <2>1. /\ ~Pending' /\ rc' = "EIO" /\ rootFid' = rootFid /\ applied' = applied
    BY <1>9 DEF ReinitFailed, Return, Pending
  <2> QED
    BY <1>1, <2>1 DEF RetryInv
<1>10. CASE AttachedAgain
  <2>1. rootFid' = rootFid /\ rootFid = 0 /\ applied' = applied
    BY <1>1, <1>10 DEF AttachedAgain, Return, RetryInv
  <2>2. \A f \in Fid : srvFids'[f] # NoObj => f = 0
    BY <1>1, <1>2, <1>10, <2>1
       DEF AttachedAgain, RetryInv, NothingBound, Bind, Bound
  <2>3. CASE Return("EIO", {})
    BY <1>1, <2>1, <2>3 DEF Return, Pending, RetryInv
  <2>4. CASE call' = [call EXCEPT !.phase = "send", !.attempt = @ + 1] /\ rc' = rc
    <3>1. /\ Pending' /\ call'.type = call.type /\ call'.fid = call.fid
          /\ call'.phase = "send"
      BY <1>2, <2>4 DEF Pending, NoCall
    <3> QED
      BY <1>1, <2>1, <2>2, <2>4, <3>1 DEF RetryInv, Bound
  <2> QED
    BY <1>10, <2>3, <2>4 DEF AttachedAgain
<1> QED
  BY <1>1, <1>6, <1>7, <1>8, <1>9, <1>10

\* A handler's own step keeps RetryInv: it goes from the requests that
\* change nothing to the one that does, and on to its clunks.
LEMMA HandlerRetry ==
    ASSUME TypeOK, PoolInv, RetryInv, HandlerStep
    PROVE  RetryInv'
<1>1. /\ ~Pending /\ applied' = applied /\ srvFids' = srvFids
  BY DEF HandlerStep, Returned, Pending,
         OpenWalked, OpenOpened, OpenStatted, OpenParentWalked,
         OpenCreated, OpenAttachOcb, OpenUndone, IoDone, IoWritten,
         IoClosed, MkdirParentWalked, UnlinkParentWalked,
         UnlinkTargetWalked, UnlinkTargetStatted, UnlinkTargetClunked,
         RenameOldWalked, RenameNewWalked, RenameOpDone, RenameOldClunked,
         ParentOpDone, ParentClunked, InitVersionDone, InitAttachDone
<1>2. loc \in Locals /\ applied \in Nat /\ rc \in Code
  BY DEF TypeOK, SessionTypeOK, ServerTypeOK, ClientTypeOK, HandlerTypeOK
<1>3. RetryInv
  OBVIOUS
<1>4. CASE OpenWalked
  BY <1>1, <1>2, <1>3, <1>4, IssueFacts
     DEF OpenWalked, Returned, Then, ThenWalk, IssueWalk, Done, NoLoc,
         RetryInv, EarlyPc, MutationPc, Mutation, Pending, Locals
<1>5. CASE OpenOpened
  BY <1>1, <1>2, <1>3, <1>5, IssueFacts
     DEF OpenOpened, Returned, Then, ThenWalk, IssueWalk, Done, OpenFailed, NoLoc,
         RetryInv, EarlyPc, MutationPc, Mutation, Pending, Locals
<1>6. CASE OpenStatted
  BY <1>1, <1>2, <1>3, <1>6, IssueFacts
     DEF OpenStatted, Returned, Then, ThenWalk, IssueWalk, Done, NoLoc,
         RetryInv, EarlyPc, MutationPc, Mutation, Pending, Locals
<1>7. CASE OpenParentWalked
  BY <1>1, <1>2, <1>3, <1>7, IssueFacts
     DEF OpenParentWalked, Returned, Then, ThenWalk, IssueWalk, Done, NoLoc,
         RetryInv, EarlyPc, MutationPc, Mutation, Pending, Locals
<1>8. CASE OpenCreated
  BY <1>1, <1>2, <1>3, <1>8, IssueFacts
     DEF OpenCreated, Returned, Then, ThenWalk, IssueWalk, Done, OpenFailed, NoLoc,
         RetryInv, EarlyPc, MutationPc, Mutation, Pending, Locals
<1>9. CASE OpenAttachOcb
  BY <1>1, <1>2, <1>3, <1>9, IssueFacts
     DEF OpenAttachOcb, Returned, Then, ThenWalk, IssueWalk, Done, NoLoc,
         RetryInv, EarlyPc, MutationPc, Mutation, Pending, Locals
<1>10. CASE OpenUndone
  BY <1>1, <1>2, <1>3, <1>10, IssueFacts
     DEF OpenUndone, Returned, Then, ThenWalk, IssueWalk, Done, NoLoc,
         RetryInv, EarlyPc, MutationPc, Mutation, Pending, Locals
<1>11. CASE IoDone
  BY <1>1, <1>2, <1>3, <1>11, IssueFacts
     DEF IoDone, Returned, Then, ThenWalk, IssueWalk, Done, NoLoc,
         RetryInv, EarlyPc, MutationPc, Mutation, Pending, Locals
<1>12. CASE IoWritten
  BY <1>1, <1>2, <1>3, <1>12, IssueFacts
     DEF IoWritten, Returned, Then, ThenWalk, IssueWalk, Done, NoLoc,
         RetryInv, EarlyPc, MutationPc, Mutation, Pending, Locals
<1>13. CASE IoClosed
  BY <1>1, <1>2, <1>3, <1>13, IssueFacts
     DEF IoClosed, Returned, Then, ThenWalk, IssueWalk, Done, NoLoc,
         RetryInv, EarlyPc, MutationPc, Mutation, Pending, Locals
<1>14. CASE MkdirParentWalked
  BY <1>1, <1>2, <1>3, <1>14, IssueFacts
     DEF MkdirParentWalked, Returned, Then, ThenWalk, IssueWalk, Done, NoLoc,
         RetryInv, EarlyPc, MutationPc, Mutation, Pending, Locals
<1>15. CASE UnlinkParentWalked
  BY <1>1, <1>2, <1>3, <1>15, IssueFacts
     DEF UnlinkParentWalked, Returned, Then, ThenWalk, IssueWalk, Done, NoLoc,
         RetryInv, EarlyPc, MutationPc, Mutation, Pending, Locals
<1>16. CASE UnlinkTargetWalked
  BY <1>1, <1>2, <1>3, <1>16, IssueFacts
     DEF UnlinkTargetWalked, Returned, Then, ThenWalk, IssueWalk, Done, NoLoc,
         RetryInv, EarlyPc, MutationPc, Mutation, Pending, Locals
<1>17. CASE UnlinkTargetStatted
  BY <1>1, <1>2, <1>3, <1>17, IssueFacts
     DEF UnlinkTargetStatted, Returned, Then, ThenWalk, IssueWalk, Done, NoLoc,
         RetryInv, EarlyPc, MutationPc, Mutation, Pending, Locals
<1>18. CASE UnlinkTargetClunked
  BY <1>1, <1>2, <1>3, <1>18, IssueFacts
     DEF UnlinkTargetClunked, Returned, Then, ThenWalk, IssueWalk, Done, NoLoc,
         RetryInv, EarlyPc, MutationPc, Mutation, Pending, Locals
<1>19. CASE RenameOldWalked
  BY <1>1, <1>2, <1>3, <1>19, IssueFacts
     DEF RenameOldWalked, Returned, Then, ThenWalk, IssueWalk, Done, NoLoc,
         RetryInv, EarlyPc, MutationPc, Mutation, Pending, Locals
<1>20. CASE RenameNewWalked
  BY <1>1, <1>2, <1>3, <1>20, IssueFacts
     DEF RenameNewWalked, Returned, Then, ThenWalk, IssueWalk, Done, NoLoc,
         RetryInv, EarlyPc, MutationPc, Mutation, Pending, Locals
<1>21. CASE RenameOpDone
  BY <1>1, <1>2, <1>3, <1>21, IssueFacts
     DEF RenameOpDone, Returned, Then, ThenWalk, IssueWalk, Done, NoLoc,
         RetryInv, EarlyPc, MutationPc, Mutation, Pending, Locals
<1>22. CASE RenameOldClunked
  BY <1>1, <1>2, <1>3, <1>22, IssueFacts
     DEF RenameOldClunked, Returned, Then, ThenWalk, IssueWalk, Done, NoLoc,
         RetryInv, EarlyPc, MutationPc, Mutation, Pending, Locals
<1>23. CASE ParentOpDone
  BY <1>1, <1>2, <1>3, <1>23, IssueFacts
     DEF ParentOpDone, Returned, Then, ThenWalk, IssueWalk, Done, NoLoc,
         RetryInv, EarlyPc, MutationPc, Mutation, Pending, Locals
<1>24. CASE ParentClunked
  BY <1>1, <1>2, <1>3, <1>24, IssueFacts
     DEF ParentClunked, Returned, Then, ThenWalk, IssueWalk, Done, NoLoc,
         RetryInv, EarlyPc, MutationPc, Mutation, Pending, Locals
<1>25. CASE InitVersionDone
  BY <1>1, <1>2, <1>3, <1>25, IssueFacts
     DEF InitVersionDone, Returned, Then, ThenWalk, IssueWalk, Done, IssueAttach, NoCall, NoLoc,
         RetryInv, EarlyPc, MutationPc, Mutation, Pending, Locals
<1>26. CASE InitAttachDone
  BY <1>1, <1>2, <1>3, <1>26, IssueFacts
     DEF InitAttachDone, Returned, Then, ThenWalk, IssueWalk, Done, NoLoc,
         RetryInv, EarlyPc, MutationPc, Mutation, Pending, Locals
<1> QED
  BY <1>4, <1>5, <1>6, <1>7, <1>8, <1>9, <1>10, <1>11, <1>12, <1>13,
     <1>14, <1>15, <1>16, <1>17, <1>18, <1>19, <1>20, <1>21, <1>22,
     <1>23, <1>24, <1>25, <1>26
     DEF HandlerStep

\* A request begins with nothing applied.
LEMMA ClientRequestRetry ==
    ASSUME TypeOK, RetryInv, ClientRequest
    PROVE  RetryInv'
<1>1. /\ applied' = 0 /\ ~loc'.created
      /\ pc' \in {"OpenWalk", "Io", "Write", "Close", "MkdirParent",
                  "UnlinkParent", "RenameOld"}
      /\ call'.phase = "send" /\ call'.type \in {"walk", "io", "clunk"}
  BY IssueFacts
     DEF ClientRequest, ConnectOpen, IoRequest, IoWrite, IoCloseOcb,
         ConnectMknod, ConnectUnlink, ConnectRename, Begin, Then, ThenWalk,
         IssueWalk, NoLoc
<1> QED
  BY <1>1 DEF RetryInv, EarlyPc, MutationPc, Mutation

\* Nothing is applied when a process starts.
LEMMA StartRetry ==
    /\ Init => RetryInv
    /\ RetryInv /\ Restart => RetryInv'
<1>1. NoCall.type = "version" /\ [NoCall EXCEPT !.phase = "send"].type = "version"
      /\ [NoCall EXCEPT !.phase = "send"].phase = "send"
  BY DEF NoCall
<1>2. Init => RetryInv
  BY <1>1 DEF Init, SessionInit, RetryInv, EarlyPc, MutationPc, Mutation, NoLoc
<1>3. RetryInv /\ Restart => RetryInv'
  BY <1>1 DEF Restart, RetryInv, EarlyPc, MutationPc, Mutation
<1> QED
  BY <1>2, <1>3

\* RetryInv holds in every execution.
LEMMA RetryInvariant == Spec => []RetryInv
<1>1. Init => RetryInv
  BY StartRetry
<1>2. TypeOK /\ PoolInv /\ RetryInv /\ [Next]_vars => RetryInv'
  <2> SUFFICES ASSUME TypeOK, PoolInv, RetryInv, [Next]_vars PROVE RetryInv'
    OBVIOUS
  <2>1. CASE UNCHANGED vars
    BY <2>1 DEF vars, sessionVars, RetryInv, Pending, NothingBound, Bound
  <2> QED
    BY <2>1, ClientRequestRetry, HandlerRetry, SessionRetry, StartRetry
       DEF Next, AwaitMessage
<1> QED
  BY <1>1, <1>2, TypeCorrect, PoolAccounted, PTL DEF Spec

(* However many exchanges are lost or answered too late, the retries make  *)
(* the server carry out a create, mkdir, unlink or rename at most once,    *)
(* unless the handler has been handed the root's own fid.                  *)
THEOREM RetriesApplyOnce == Spec => []AppliedAtMostOnce
<1>1. RetryInv => AppliedAtMostOnce
  BY DEF RetryInv, AppliedAtMostOnce
<1> QED
  BY <1>1, RetryInvariant, PTL

(* A client that is told its mkdir, unlink, rename or create succeeded can *)
(* rely on the server having carried it out.                               *)
THEOREM SuccessIsApplied == Spec => AckedIsApplied
<1>1. TypeOK /\ RetryInv /\ [Next]_vars =>
         [pc' = "idle" /\ rc' = "ok" /\ (pc = "ClunkParent" \/ loc.created)
             => applied >= 1]_vars
  <2> SUFFICES ASSUME TypeOK, RetryInv, [Next]_vars,
                      pc' = "idle", rc' = "ok", pc = "ClunkParent" \/ loc.created
               PROVE  applied >= 1 \/ UNCHANGED vars
    OBVIOUS
  <2>1. applied \in Nat
    BY DEF TypeOK, SessionTypeOK, ServerTypeOK
  <2>2. CASE loc.created
    BY <2>1, <2>2 DEF RetryInv
  <2>3. CASE pc = "ClunkParent"
    <3>1. CASE SessionStep \/ AwaitMessage
      BY <2>3, <3>1 DEF SessionStep, AwaitMessage
    <3>2. CASE ClientRequest
      BY <2>3, <3>2
         DEF ClientRequest, ConnectOpen, IoRequest, IoWrite, IoCloseOcb,
             ConnectMknod, ConnectUnlink, ConnectRename, Begin
    <3>3. CASE Restart
      BY <2>3, <3>3 DEF Restart
    <3>4. CASE HandlerStep
      <4>1. ParentClunked
        BY <2>3, <3>4
           DEF HandlerStep, Returned, OpenWalked, OpenOpened, OpenStatted,
               OpenParentWalked, OpenCreated, OpenAttachOcb, OpenUndone,
               IoDone, IoWritten, IoClosed, MkdirParentWalked,
               UnlinkParentWalked, UnlinkTargetWalked, UnlinkTargetStatted,
               UnlinkTargetClunked, RenameOldWalked, RenameNewWalked,
               RenameOpDone, RenameOldClunked, ParentOpDone,
               InitVersionDone, InitAttachDone
      <4> QED
        BY <2>1, <2>3, <4>1 DEF ParentClunked, Done, RetryInv
    <3> QED
      BY <3>1, <3>2, <3>3, <3>4 DEF Next
  <2> QED
    BY <2>2, <2>3
<1> QED
  BY <1>1, TypeCorrect, RetryInvariant, PTL DEF Spec, AckedIsApplied

-----------------------------------------------------------------------------
(* The server keeps no fid the driver has forgotten.                       *)

\* No reply arrives cut or damaged: the answer to a walk may bind a fid that
\* the driver, which cannot parse it, gives back.
RepliesWhole == "garbled" \notin Faults

\* What the handler will still clunk, or hand to an open file.
ServerHeld ==
    OnlyIf(\/ pc \in {"OpenOpen", "OpenGetAttr", "OpenCreate",
                     "OpenAttachOcb", "ParentOp", "UnlinkTarget", "RenameNew",
                     "UnlinkGetAttr", "UnlinkClunkTarget", "RenameOp"}
           \/ pc \in WalkPc /\ ~Pending /\ rc = "ok", loc.fid)
    \cup OnlyIf(\/ pc \in {"UnlinkGetAttr", "RenameOp", "RenameClunkOld"}
                \/ pc \in Walk2Pc /\ ~Pending /\ rc = "ok", loc.fid2)
    \cup OnlyIf(pc \in ClunkPc /\ Pending, call.fid)
Known(f) == f \in {0, 1, rootFid} \cup OpenFids \cup ServerHeld

\* Between a reset and the new root the table is empty; start-up hands out
\* no fid but 0 and 1.
ServerInv ==
    /\ \A f \in Fid : Bound(f) => Known(f)
    /\ Pending =>
         /\ call.phase \in {"reVersion", "reAttach"} => NothingBound
         /\ pc = "InitVersion" => call.type = "version"
         /\ call.type = "attach" => call.fid \in {0, 1}
    /\ pc = "Close" /\ ~Pending /\ Bound(ocb[loc.ocb].fid) =>
          ocb[loc.ocb].fid \in {0, 1, rootFid}
    /\ pc = "InitVersion" => nextFid \in {0, 1}
    /\ pc = "InitVersion" /\ ~Pending /\ rc = "ok" => NothingBound

\* A session call that comes to nothing, or to an empty table.
LEMMA SessionServerEmpty ==
    ASSUME TypeOK, PoolInv, ServerInv, SessionStep,
           TransactFails \/ VersionAnswered \/ ReinitFailed \/ AttachedAgain
    PROVE  ServerInv'
<1>1. Pending /\ pc' = pc /\ loc' = loc /\ ocb' = ocb
  BY SessionCases
<1>2. /\ srvFids \in [Fid -> Obj \cup {NoObj}] /\ rootFid \in Fid
      /\ nextFid \in Fid
      /\ call \in [type : Request, fid : Fid, fid2 : Fid, tag : Tag,
                   attempt : 0 .. kMaxRetries - 1, phase : Phase]
  BY DEF TypeOK, SessionTypeOK, ServerTypeOK, ClientTypeOK
<1>3. \A f \in Fid : Unbound[f] = NoObj
  BY DEF Unbound
<1>4. ASSUME \A f \in Fid : srvFids'[f] # NoObj => f = rootFid',
             Pending' => /\ call'.type = call.type /\ call'.fid = call.fid
                         /\ call'.phase \in {"reVersion", "reAttach"}
                               => NothingBound',
             ~Pending' => rc' # "ok",
             pc = "InitVersion" => nextFid' \in {0, 1}
      PROVE  ServerInv'
  <2>1. \A f \in Fid : Bound(f)' => Known(f)' /\ f = rootFid'
    BY <1>4 DEF Bound, Known
  <2>2. pc = "Close" => ocb[loc.ocb].fid \in Fid
    BY DEF TypeOK, HandlerTypeOK, Locals, OcbState
  <2> QED
    BY <1>1, <1>4, <2>1, <2>2 DEF ServerInv, Bound
<1>5. CASE TransactFails
  <2>1. /\ srvFids' = Unbound /\ nextFid' = 0
        /\ call' = [call EXCEPT !.phase = "reVersion"]
    BY <1>5 DEF TransactFails, Lost
  <2>2. Pending' /\ call'.type = call.type /\ call'.fid = call.fid
    BY <1>2, <2>1 DEF Pending, NoCall
  <2> QED
    BY <1>3, <1>4, <2>1, <2>2 DEF NothingBound, Bound
<1>6. CASE VersionAnswered
  <2>1. /\ Pending' /\ call'.type = call.type /\ call'.fid = call.fid
        /\ srvFids' = Unbound
    BY <1>2, <1>6 DEF VersionAnswered, Pending, NoCall
  <2>2. nextFid' = 1
    BY <1>1, <1>6, FidModAssumption
       DEF VersionAnswered, PoolInv, CallFitsPc, Allocate, Succ
  <2> QED
    BY <1>3, <1>4, <2>1, <2>2 DEF NothingBound, Bound
<1>7. CASE ReinitFailed
  <2>1. ~Pending' /\ rc' = "EIO" /\ rootFid' = rootFid /\ nextFid' = nextFid
    BY <1>7 DEF ReinitFailed, Return, Pending
  <2>2. NothingBound
    BY <1>1, <1>7 DEF ReinitFailed, ServerInv
  <2> QED
    BY <1>4, <1>7, <2>1, <2>2 DEF ReinitFailed, ServerInv, NothingBound
<1>8. CASE AttachedAgain
  <2>1. rootFid' = rootFid /\ nextFid' = nextFid
    BY <1>8 DEF AttachedAgain, Return
  <2>2. \A f \in Fid : srvFids'[f] # NoObj => f = rootFid'
    BY <1>1, <1>2, <1>8, <2>1
       DEF AttachedAgain, ServerInv, NothingBound, Bind, Bound
  <2>3. CASE Return("EIO", {})
    BY <1>4, <2>1, <2>2, <2>3 DEF Return, Pending, ServerInv
  <2>4. CASE call' = [call EXCEPT !.phase = "send", !.attempt = @ + 1]
    <3>1. /\ Pending' /\ call'.type = call.type /\ call'.fid = call.fid
          /\ call'.phase = "send"
      BY <1>2, <2>4 DEF Pending, NoCall
    <3> QED
      BY <1>4, <2>1, <2>2, <3>1 DEF ServerInv
  <2> QED
    BY <1>8, <2>3, <2>4 DEF AttachedAgain
<1> QED
  BY <1>5, <1>6, <1>7, <1>8

\* A session call that is answered.
LEMMA SessionServerAnswers ==
    ASSUME TypeOK, PoolInv, ServerInv, SessionStep, Answers
    PROVE  ServerInv'
<1>1. Pending /\ pc' = pc /\ loc' = loc /\ ocb' = ocb
  BY SessionCases
<1>2. /\ srvFids \in [Fid -> Obj \cup {NoObj}] /\ rootFid \in Fid
      /\ call.fid \in Fid /\ call.fid2 \in Fid /\ call.type \in Request
      /\ ocb[loc.ocb].fid \in Fid
  BY DEF TypeOK, SessionTypeOK, ServerTypeOK, ClientTypeOK, HandlerTypeOK,
         Locals, OcbState
<1>3. PICK r \in Replies(Sent) : srvFids' = r.fids /\ Return(r.rc, {})
  BY DEF Answers, Answered
<1>4. /\ ~Pending' /\ rc' = r.rc /\ rootFid' = rootFid /\ nextFid' = nextFid
      /\ OpenFids' = OpenFids
  BY <1>1, <1>3 DEF Return, Pending, OpenFids, OpenOcbs, IsOpen
<1>5. CallFitsPc
  BY DEF PoolInv
<1>6. \A f \in Fid : Unbound[f] = NoObj
  BY DEF Unbound
\* What stays bound is known still.
<1>7. ASSUME NEW f \in Fid, Bound(f), f # call.fid \/ call.type # "clunk"
      PROVE  Known(f)'
  <2>1. CASE f \in {0, 1, rootFid} \cup OpenFids
    BY <1>4, <2>1 DEF Known
  <2>2. CASE f \in ServerHeld
    <3>1. f \in ServerHeld'
      BY <1>1, <1>4, <1>5, <1>7, <2>2
         DEF ServerHeld, OnlyIf, CallFitsPc, WalkPc, Walk2Pc, ClunkPc
    <3> QED
      BY <3>1 DEF Known
  <2> QED
    BY <1>7, <2>1, <2>2 DEF ServerInv, Known
<1>8. ASSUME NEW f \in Fid, srvFids'[f] # NoObj PROVE Known(f)'
  <2>1. CASE call.type = "version"
    BY <1>3, <1>6, <1>8, <2>1, ReplyOf
  <2>2. CASE call.type # "version" /\ r.rc # "ok"
    <3>1. srvFids' = srvFids /\ (call.type = "clunk" => ~Bound(call.fid))
      BY <1>3, <2>2, ReplyOf
    <3> QED
      BY <1>7, <1>8, <3>1 DEF Bound
  <2>3. CASE call.type = "attach" /\ r.rc = "ok"
    <3>1. srvFids' = Bind(call.fid, Root) /\ call.fid \in {0, 1}
      BY <1>1, <1>3, <2>3, ReplyOf DEF ServerInv
    <3>2. f \in {0, 1} \/ Bound(f)
      BY <1>2, <1>8, <3>1 DEF Bind, Bound
    <3> QED
      BY <1>7, <2>3, <3>2 DEF Known
  <2>4. CASE call.type = "walk" /\ r.rc = "ok"
    <3>1. PICK o \in Obj : srvFids' = Bind(call.fid2, o)
      BY <1>3, <2>4, ReplyOf
    <3>2. f = call.fid2 \/ Bound(f)
      BY <1>2, <1>8, <3>1 DEF Bind, Bound
    <3>3. call.fid2 \in ServerHeld'
      BY <1>1, <1>4, <1>5, <2>4
         DEF ServerHeld, OnlyIf, CallFitsPc, WalkPc, Walk2Pc, ClunkPc
    <3> QED
      BY <1>7, <2>4, <3>2, <3>3 DEF Known
  <2>5. CASE call.type = "clunk" /\ r.rc = "ok"
    <3>1. srvFids' = Bind(call.fid, NoObj)
      BY <1>3, <2>5, ReplyOf
    <3>2. f # call.fid /\ Bound(f)
      BY <1>2, <1>8, <3>1 DEF Bind, Bound
    <3> QED
      BY <1>7, <3>2
  <2>6. CASE call.type \in Mutation /\ r.rc = "ok"
    <3>1. /\ Bound(call.fid)
          /\ srvFids' = srvFids \/ \E o \in Files : srvFids' = Bind(call.fid, o)
      BY <1>3, <2>6, ReplyOf
    <3>2. Bound(f)
      BY <1>2, <1>8, <3>1 DEF Bind, Bound
    <3> QED
      BY <1>7, <2>6, <3>2 DEF Mutation
  <2>7. CASE call.type \in {"open", "getattr", "io"}
    <3>1. srvFids' = srvFids
      BY <1>3, <2>7, ReplyOf
    <3> QED
      BY <1>7, <1>8, <2>7, <3>1 DEF Bound
  <2> QED
    BY <1>2, <2>1, <2>2, <2>3, <2>4, <2>5, <2>6, <2>7 DEF Request
<1>9. pc = "Close" => srvFids'[ocb[loc.ocb].fid] = NoObj
  <2> SUFFICES ASSUME pc = "Close" PROVE srvFids'[ocb[loc.ocb].fid] = NoObj
    OBVIOUS
  <2>1. call.type = "clunk" /\ call.fid = ocb[loc.ocb].fid
    BY <1>1, <1>5 DEF CallFitsPc, ClunkPc
  <2>2. CASE r.rc = "ok"
    BY <1>2, <1>3, <2>1, <2>2, ReplyOf DEF Bind
  <2>3. CASE r.rc # "ok"
    BY <1>3, <2>1, <2>3, ReplyOf DEF Bound
  <2> QED
    BY <2>2, <2>3
<1>10. pc = "InitVersion" => NothingBound'
  BY <1>1, <1>3, <1>6, ReplyOf DEF ServerInv, NothingBound, Bound
<1> QED
  BY <1>1, <1>4, <1>8, <1>9, <1>10 DEF ServerInv, Bound

\* A handler's own step forgets no fid that is bound.
LEMMA HandlerServer ==
    ASSUME TypeOK, PoolInv, ServerInv, HandlerStep
    PROVE  ServerInv'
<1>1. /\ ~Pending /\ srvFids' = srvFids
  BY DEF HandlerStep, Returned, Pending,
         OpenWalked, OpenOpened, OpenStatted, OpenParentWalked,
         OpenUndone, IoDone, IoWritten, MkdirParentWalked,
         UnlinkParentWalked, UnlinkTargetWalked, UnlinkTargetStatted,
         UnlinkTargetClunked, RenameOldWalked, RenameNewWalked,
         RenameOpDone, RenameOldClunked, ParentOpDone, ParentClunked,
         InitAttachDone, OpenCreated, OpenAttachOcb, IoClosed,
         InitVersionDone
<1>2. /\ loc \in Locals /\ rc \in Code /\ ocb \in [Ocb -> OcbState]
      /\ loc.ocb \in Ocb /\ nextFid \in Fid
  BY DEF TypeOK, SessionTypeOK, ClientTypeOK, HandlerTypeOK, Locals
<1>3. ServerInv /\ CallFitsPc /\ OpenInProgress
  BY DEF PoolInv
<1>4. ASSUME ocb' = ocb, rootFid' = rootFid, ServerHeld \subseteq ServerHeld',
             Pending' => /\ call'.phase = "send"
                         /\ call'.type \notin {"version", "attach"},
             pc' \notin {"InitVersion", "Close"} \/ (Pending' /\ pc' # "InitVersion")
      PROVE  ServerInv'
  <2>1. OpenFids' = OpenFids
    BY <1>4 DEF OpenFids, OpenOcbs, IsOpen
  <2>2. \A f \in Fid : Bound(f)' => Known(f)'
    BY <1>1, <1>3, <1>4, <2>1 DEF ServerInv, Known, Bound
  <2> QED
    BY <1>4, <2>2 DEF ServerInv
<1>5. CASE OpenWalked
  BY <1>1, <1>2, <1>3, <1>4, <1>5, IssueFacts
     DEF OpenWalked, Returned, Then, ThenWalk, IssueWalk, Done,
         ServerHeld, OnlyIf, Pending, WalkPc, Walk2Pc, ClunkPc, Locals
<1>6. CASE OpenOpened
  BY <1>1, <1>2, <1>3, <1>4, <1>6, IssueFacts
     DEF OpenOpened, Returned, Then, ThenWalk, IssueWalk, Done, OpenFailed,
         ServerHeld, OnlyIf, Pending, WalkPc, Walk2Pc, ClunkPc, Locals
<1>7. CASE OpenStatted
  BY <1>1, <1>2, <1>3, <1>4, <1>7, IssueFacts
     DEF OpenStatted, Returned, Then, ThenWalk, IssueWalk, Done,
         ServerHeld, OnlyIf, Pending, WalkPc, Walk2Pc, ClunkPc, Locals
<1>8. CASE OpenParentWalked
  BY <1>1, <1>2, <1>3, <1>4, <1>8, IssueFacts
     DEF OpenParentWalked, Returned, Then, ThenWalk, IssueWalk, Done,
         ServerHeld, OnlyIf, Pending, WalkPc, Walk2Pc, ClunkPc, Locals
<1>9. CASE OpenUndone
  BY <1>1, <1>2, <1>3, <1>4, <1>9, IssueFacts
     DEF OpenUndone, Returned, Then, ThenWalk, IssueWalk, Done,
         ServerHeld, OnlyIf, Pending, WalkPc, Walk2Pc, ClunkPc, Locals
<1>10. CASE IoDone
  BY <1>1, <1>2, <1>3, <1>4, <1>10, IssueFacts
     DEF IoDone, Returned, Then, ThenWalk, IssueWalk, Done,
         ServerHeld, OnlyIf, Pending, WalkPc, Walk2Pc, ClunkPc, Locals
<1>11. CASE IoWritten
  BY <1>1, <1>2, <1>3, <1>4, <1>11, IssueFacts
     DEF IoWritten, Returned, Then, ThenWalk, IssueWalk, Done,
         ServerHeld, OnlyIf, Pending, WalkPc, Walk2Pc, ClunkPc, Locals
<1>12. CASE MkdirParentWalked
  BY <1>1, <1>2, <1>3, <1>4, <1>12, IssueFacts
     DEF MkdirParentWalked, Returned, Then, ThenWalk, IssueWalk, Done,
         ServerHeld, OnlyIf, Pending, WalkPc, Walk2Pc, ClunkPc, Locals
<1>13. CASE UnlinkParentWalked
  BY <1>1, <1>2, <1>3, <1>4, <1>13, IssueFacts
     DEF UnlinkParentWalked, Returned, Then, ThenWalk, IssueWalk, Done,
         ServerHeld, OnlyIf, Pending, WalkPc, Walk2Pc, ClunkPc, Locals
<1>14. CASE UnlinkTargetWalked
  BY <1>1, <1>2, <1>3, <1>4, <1>14, IssueFacts
     DEF UnlinkTargetWalked, Returned, Then, ThenWalk, IssueWalk, Done,
         ServerHeld, OnlyIf, Pending, WalkPc, Walk2Pc, ClunkPc, Locals
<1>15. CASE UnlinkTargetStatted
  BY <1>1, <1>2, <1>3, <1>4, <1>15, IssueFacts
     DEF UnlinkTargetStatted, Returned, Then, ThenWalk, IssueWalk, Done,
         ServerHeld, OnlyIf, Pending, WalkPc, Walk2Pc, ClunkPc, Locals
<1>16. CASE UnlinkTargetClunked
  BY <1>1, <1>2, <1>3, <1>4, <1>16, IssueFacts
     DEF UnlinkTargetClunked, Returned, Then, ThenWalk, IssueWalk, Done,
         ServerHeld, OnlyIf, Pending, WalkPc, Walk2Pc, ClunkPc, Locals
<1>17. CASE RenameOldWalked
  BY <1>1, <1>2, <1>3, <1>4, <1>17, IssueFacts
     DEF RenameOldWalked, Returned, Then, ThenWalk, IssueWalk, Done,
         ServerHeld, OnlyIf, Pending, WalkPc, Walk2Pc, ClunkPc, Locals
<1>18. CASE RenameNewWalked
  BY <1>1, <1>2, <1>3, <1>4, <1>18, IssueFacts
     DEF RenameNewWalked, Returned, Then, ThenWalk, IssueWalk, Done,
         ServerHeld, OnlyIf, Pending, WalkPc, Walk2Pc, ClunkPc, Locals
<1>19. CASE RenameOpDone
  BY <1>1, <1>2, <1>3, <1>4, <1>19, IssueFacts
     DEF RenameOpDone, Returned, Then, ThenWalk, IssueWalk, Done,
         ServerHeld, OnlyIf, Pending, WalkPc, Walk2Pc, ClunkPc, Locals
<1>20. CASE RenameOldClunked
  BY <1>1, <1>2, <1>3, <1>4, <1>20, IssueFacts
     DEF RenameOldClunked, Returned, Then, ThenWalk, IssueWalk, Done,
         ServerHeld, OnlyIf, Pending, WalkPc, Walk2Pc, ClunkPc, Locals
<1>21. CASE ParentOpDone
  BY <1>1, <1>2, <1>3, <1>4, <1>21, IssueFacts
     DEF ParentOpDone, Returned, Then, ThenWalk, IssueWalk, Done,
         ServerHeld, OnlyIf, Pending, WalkPc, Walk2Pc, ClunkPc, Locals
<1>22. CASE ParentClunked
  BY <1>1, <1>2, <1>3, <1>4, <1>22, IssueFacts
     DEF ParentClunked, Returned, Then, ThenWalk, IssueWalk, Done,
         ServerHeld, OnlyIf, Pending, WalkPc, Walk2Pc, ClunkPc, Locals
<1>23. CASE InitAttachDone
  BY <1>1, <1>2, <1>3, <1>4, <1>23, IssueFacts
     DEF InitAttachDone, Returned, Then, ThenWalk, IssueWalk, Done,
         ServerHeld, OnlyIf, Pending, WalkPc, Walk2Pc, ClunkPc, Locals
<1>24. CASE OpenCreated
  <2>1. pc = "OpenCreate" /\ ocb' = ocb /\ rootFid' = rootFid
    BY <1>24 DEF OpenCreated, Returned, Then, OpenFailed, Issue
  <2>2. ServerHeld = {loc.fid}
    BY <1>1, <2>1 DEF ServerHeld, OnlyIf, WalkPc, Walk2Pc, ClunkPc
  <2>3. CASE rc = "ok"
    <3>1. pc' = "OpenAttachOcb" /\ ~Pending' /\ loc'.fid = loc.fid
      BY <1>1, <1>2, <1>24, <2>3 DEF OpenCreated, OpenFailed, Pending, Locals
    <3>2. ServerHeld' = {loc.fid}
      BY <3>1 DEF ServerHeld, OnlyIf, WalkPc, Walk2Pc, ClunkPc
    <3> QED
      BY <1>4, <2>1, <2>2, <3>1, <3>2
  <2>4. CASE rc # "ok" /\ OpenFailed
    BY <1>4, <2>1, <2>2, <2>4, IssueFacts
       DEF OpenFailed, Then, ServerHeld, OnlyIf, ClunkPc
  <2> QED
    BY <1>24, <2>3, <2>4 DEF OpenCreated
<1>25. CASE OpenAttachOcb
  <2>1. ~IsOpen(loc.ocb) /\ loc.obj # NoObj /\ pc = "OpenAttachOcb"
    BY <1>3, <1>25 DEF OpenAttachOcb, Returned, OpenInProgress, OpenPc
  <2>2. ServerHeld = {loc.fid}
    BY <1>1, <2>1 DEF ServerHeld, OnlyIf, WalkPc, Walk2Pc, ClunkPc
  <2>3. CASE Done("ok")
    <3>1. /\ pc' = "idle" /\ ~Pending' /\ rootFid' = rootFid
          /\ ocb' = [ocb EXCEPT ![loc.ocb] =
                       [fid |-> loc.fid, obj |-> loc.obj, isDir |-> loc.isDir]]
      BY <1>1, <1>25, <2>1, <2>3 DEF OpenAttachOcb, Done, Then, Pending
    <3>2. \A o \in OpenOcbs : o \in OpenOcbs' /\ ocb'[o].fid = ocb[o].fid
      BY <1>2, <2>1, <3>1 DEF OpenOcbs, IsOpen
    <3>3. loc.ocb \in OpenOcbs' /\ ocb'[loc.ocb].fid = loc.fid
      BY <1>2, <2>1, <3>1 DEF OpenOcbs, IsOpen
    <3>4. OpenFids \cup {loc.fid} \subseteq OpenFids'
      BY <3>2, <3>3 DEF OpenFids
    <3>5. \A f \in Fid : Bound(f)' => Known(f)'
      BY <1>1, <1>3, <2>2, <3>1, <3>4 DEF ServerInv, Known, Bound
    <3> QED
      BY <3>1, <3>5 DEF ServerInv
  <2>4. CASE Then("OpenUndo", "clunk", loc.fid, 0) /\ ocb' = ocb
    BY <1>4, <2>2, <2>4, IssueFacts DEF Then, ServerHeld, OnlyIf, ClunkPc
  <2> QED
    BY <1>25, <2>3, <2>4 DEF OpenAttachOcb
<1>26. CASE IoClosed
  <2>1. /\ ocb' = [ocb EXCEPT ![loc.ocb] = Closed] /\ pc = "Close"
        /\ pc' = "idle" /\ ~Pending' /\ rootFid' = rootFid
    BY <1>1, <1>26 DEF IoClosed, Returned, Done, Pending
  <2>2. ServerHeld = {}
    BY <1>1, <2>1 DEF ServerHeld, OnlyIf, WalkPc, Walk2Pc, ClunkPc
  <2>3. \A o \in OpenOcbs : o # loc.ocb =>
          o \in OpenOcbs' /\ ocb'[o].fid = ocb[o].fid
    BY <1>2, <2>1 DEF OpenOcbs, IsOpen
  <2>4. OpenFids \subseteq OpenFids' \cup {ocb[loc.ocb].fid}
    BY <2>3 DEF OpenFids
  <2>5. \A f \in Fid : Bound(f)' => Known(f)'
    BY <1>1, <1>3, <2>1, <2>2, <2>4 DEF ServerInv, Known, Bound
  <2> QED
    BY <2>1, <2>5 DEF ServerInv
<1>27. CASE InitVersionDone
  <2>1. /\ ocb' = ocb /\ OpenFids' = OpenFids /\ pc = "InitVersion"
        /\ ServerHeld = {}
    BY <1>1, <1>27
       DEF InitVersionDone, Returned, OpenFids, OpenOcbs, IsOpen, ServerHeld,
           OnlyIf, WalkPc, Walk2Pc, ClunkPc
  <2>2. CASE rc = "ok" /\ pc' = "InitAttach" /\ IssueAttach
    <3>1. /\ NothingBound' /\ call'.type = "attach" /\ call'.phase = "send"
          /\ call'.fid \in {0, 1}
      BY <1>1, <1>3, <2>1, <2>2
         DEF ServerInv, NothingBound, Bound, IssueAttach
    <3> QED
      BY <2>2, <3>1 DEF ServerInv, NothingBound, Pending, NoCall
  <2>3. CASE pc' = "exited" /\ rootFid' = rootFid /\ call' = call
    <3>1. \A f \in Fid : Bound(f)' => Known(f)'
      BY <1>1, <1>3, <2>1, <2>3 DEF ServerInv, Known, Bound
    <3> QED
      BY <1>1, <2>3, <3>1 DEF ServerInv, Pending
  <2> QED
    BY <1>27, <2>2, <2>3 DEF InitVersionDone
<1> QED
  BY <1>5, <1>6, <1>7, <1>8, <1>9, <1>10, <1>11, <1>12, <1>13, <1>14,
     <1>15, <1>16, <1>17, <1>18, <1>19, <1>20, <1>21, <1>22, <1>23,
     <1>24, <1>25, <1>26, <1>27
     DEF HandlerStep

\* A request begins with no fid of its own.
LEMMA ClientRequestServer ==
    ASSUME TypeOK, PoolInv, ServerInv, ClientRequest
    PROVE  ServerInv'
<1>1. /\ srvFids' = srvFids /\ ocb' = ocb /\ rootFid' = rootFid /\ pc = "idle"
      /\ pc' \in {"OpenWalk", "Io", "Write", "Close", "MkdirParent",
                  "UnlinkParent", "RenameOld"}
      /\ call'.phase = "send" /\ call'.type \in {"walk", "io", "clunk"}
      /\ Pending'
  BY IssueFacts
     DEF ClientRequest, ConnectOpen, IoRequest, IoWrite, IoCloseOcb,
         ConnectMknod, ConnectUnlink, ConnectRename, Begin, Then, ThenWalk,
         IssueWalk, NoLoc
<1>2. OpenFids' = OpenFids /\ ServerHeld = {}
  BY <1>1 DEF OpenFids, OpenOcbs, IsOpen, ServerHeld, OnlyIf, WalkPc, Walk2Pc,
              ClunkPc
<1>3. \A f \in Fid : Bound(f)' => Known(f)'
  BY <1>1, <1>2 DEF ServerInv, Known, Bound
<1> QED
  BY <1>1, <1>3 DEF ServerInv

\* An empty table when a process starts.
LEMMA StartServer ==
    /\ Init => ServerInv
    /\ Restart => ServerInv'
<1>1. NoCall.type = "version" /\ [NoCall EXCEPT !.phase = "send"].type = "version"
      /\ [NoCall EXCEPT !.phase = "send"].phase = "send"
      /\ [NoCall EXCEPT !.phase = "send"] # NoCall
  BY DEF NoCall
<1>2. \A f \in Fid : Unbound[f] = NoObj
  BY DEF Unbound
<1>3. Init => ServerInv
  BY <1>1, <1>2
     DEF Init, SessionInit, ServerInv, Bound, Pending
<1>4. Restart => ServerInv'
  BY <1>1, <1>2 DEF Restart, ServerInv, Bound, Pending
<1> QED
  BY <1>3, <1>4

(* Where replies arrive whole, the server keeps no fid that the driver has *)
(* forgotten between requests, whichever exchanges were lost or late.      *)
THEOREM ServerFidsNeverLeak == RepliesWhole => (Spec => []NoServerFidLeak)
<1> SUFFICES ASSUME RepliesWhole PROVE Spec => []NoServerFidLeak
  OBVIOUS
<1>1. Init => ServerInv
  BY StartServer
<1>2. TypeOK /\ PoolInv /\ ServerInv /\ [Next]_vars => ServerInv'
  <2> SUFFICES ASSUME TypeOK, PoolInv, ServerInv, [Next]_vars PROVE ServerInv'
    OBVIOUS
  <2>1. CASE UNCHANGED vars
    <3>1. OpenFids' = OpenFids /\ ServerHeld' = ServerHeld
      BY <2>1 DEF vars, sessionVars, OpenFids, OpenOcbs, IsOpen, ServerHeld,
                  OnlyIf, Pending
    <3> QED
      BY <2>1, <3>1
         DEF vars, sessionVars, ServerInv, Pending, NothingBound, Bound, Known
  <2>2. CASE SessionStep
    <3>1. ~Garbles
      BY DEF Garbles, Garbled, RepliesWhole
    <3> QED
      BY <2>2, <3>1, SessionCases, SessionServerAnswers, SessionServerEmpty
  <2> QED
    BY <2>1, <2>2, ClientRequestServer, HandlerServer, StartServer
       DEF Next, AwaitMessage
<1>3. TypeOK /\ ServerInv => NoServerFidLeak
  <2> SUFFICES ASSUME ServerInv, pc = "idle", NEW f \in Fid, Bound(f)
               PROVE  f \in {0, 1, rootFid} \cup OpenFids
    BY DEF NoServerFidLeak
  <2>1. ServerHeld = {}
    BY DEF ServerHeld, OnlyIf, WalkPc, Walk2Pc, ClunkPc
  <2> QED
    BY <2>1 DEF ServerInv, Known
<1> QED
  BY <1>1, <1>2, <1>3, TypeCorrect, PoolAccounted, PTL DEF Spec

-----------------------------------------------------------------------------
(* Without failed exchanges the driver and the server agree.               *)

\* next_fid_ stays below its wrap in this instance: the pool hands out
\* next_fid_ whether or not it is still allocated.
NoWrap == MaxFid + 2 < FidMod

\* The open files whose fid is not clunked yet, what a handler holds
\* besides them, and the fid that the walk in progress is to bind.
Live == IF pc = "Close" /\ ~Pending THEN OpenOcbs \ {loc.ocb} ELSE OpenOcbs
LiveFids == {ocb[o].fid : o \in Live}
Mine   == IF pc = "Close" THEN {} ELSE Held
Wanted == IF Pending /\ call.type = "walk" THEN {call.fid2} ELSE {}

TwoFidsPc == Walk2Pc \cup {"UnlinkGetAttr", "UnlinkClunkTarget", "RenameOp",
                           "RenameClunkOld"}
FidsApart ==
    /\ \A o, p \in OpenOcbs : ocb[o].fid = ocb[p].fid => o = p
    /\ \A o \in OpenOcbs : ocb[o].fid # rootFid /\ ocb[o].fid \notin Mine
    /\ rootFid \notin Mine
    /\ pc \in TwoFidsPc => loc.fid # loc.fid2
FidsMean ==
    /\ srvFids[rootFid] = Root
    /\ \A o \in Live : srvFids[ocb[o].fid] = ocb[o].obj
    /\ pc \in {"OpenOpen", "OpenGetAttr", "OpenAttachOcb"} =>
          srvFids[loc.fid] = loc.obj
FidsFresh ==
    /\ \A f \in allocated : f < nextFid
    /\ pc \in {"OpenWalk", "UnlinkParent", "RenameOld"} => nextFid <= MaxFid + 1
ServingInv ==
    /\ allocated = {rootFid} \cup LiveFids \cup Mine
    /\ \A f \in Fid : Bound(f) <=> f \in allocated \ Wanted
    /\ FidsApart /\ FidsMean /\ FidsFresh

\* While the session is being initialized: Tversion, then Tattach of fid 0.
StartingInv ==
    /\ pc = "InitVersion" => allocated = {} /\ nextFid = 0 /\ NothingBound
    /\ pc = "InitAttach" =>
         /\ rootFid = 0 /\ nextFid = 1
         /\ Pending => call.fid = 0 /\ allocated = {0} /\ NothingBound
         /\ ~Pending /\ rc = "ok" => /\ allocated = {0} /\ srvFids[0] = Root
                                     /\ \A f \in Fid : Bound(f) <=> f = 0

Serving  == pc \notin {"InitVersion", "InitAttach", "exited"}
AgreeInv == faults = 0 =>
    /\ Pending => /\ call.phase = "send"
                  /\ call.type = "version" <=> pc = "InitVersion"
                  /\ call.type = "attach" <=> pc = "InitAttach"
    /\ StartingInv
    /\ Serving => ServingInv

\* A failed exchange is counted and never forgotten.
LEMMA FaultsGrow ==
    ASSUME TypeOK, SessionStep
    PROVE  /\ faults' = faults \/ faults' = faults + 1 \/ ~CountFaults
           /\ CountFaults /\ (Garbles \/ TransactFails) => faults' = faults + 1
BY DEF SessionStep, Transact, TransactReply, TransactFails, ReinitVersion,
       ReinitAttach, Answered, Garbled, Lost, Fault, Garbles

\* The answer to a request of a handler.
LEMMA AnswerAgrees ==
    ASSUME TypeOK, PoolInv, RetryInv, ServingInv, Pending, Serving,
           call.type \notin {"version", "attach"},
           NEW r \in Replies(Sent), srvFids' = r.fids, Return(r.rc, {}),
           pc' = pc, loc' = loc, ocb' = ocb
    PROVE  ServingInv'
<1>1. /\ srvFids \in [Fid -> Obj \cup {NoObj}] /\ rootFid \in Fid
      /\ call.type \in Request /\ call.fid \in Fid /\ call.fid2 \in Fid
      /\ loc.fid \in Fid /\ loc.fid2 \in Fid /\ loc.ocb \in Ocb
      /\ \A o \in Ocb : ocb[o].fid \in Fid
  BY DEF TypeOK, SessionTypeOK, ServerTypeOK, ClientTypeOK, HandlerTypeOK,
         Locals, OcbState
<1>2. /\ ~Pending' /\ rc' = r.rc /\ rootFid' = rootFid /\ nextFid' = nextFid
      /\ allocated' = allocated \ Released(r.rc)
      /\ OpenOcbs' = OpenOcbs /\ Wanted' = {}
  BY DEF Return, Pending, OpenOcbs, IsOpen, Wanted
<1>3. \A o \in OpenOcbs : o \in Ocb
  BY DEF OpenOcbs
<1>4. CallFitsPc /\ ServingInv /\ NoObj \notin Obj
  BY ObjAssumption DEF PoolInv, Obj
<1>5. ASSUME Live' = Live, allocated' = allocated \ (Mine \ Mine'),
             Mine' \subseteq Mine,
             \A f \in Fid : Bound(f)' <=> f \in allocated',
             \A f \in Fid : f \notin Mine => srvFids'[f] = srvFids[f],
             pc \in {"OpenOpen", "OpenGetAttr", "OpenAttachOcb"} =>
                 srvFids' = srvFids
      PROVE  ServingInv'
  <2>1. LiveFids' = LiveFids
    BY <1>5 DEF LiveFids
  <2>2. Live \subseteq OpenOcbs
    BY DEF Live
  <2>3. allocated' = {rootFid} \cup LiveFids' \cup Mine'
    BY <1>4, <1>5, <2>1, <2>2 DEF ServingInv, FidsApart, LiveFids
  <2>4. FidsApart' /\ FidsFresh'
    BY <1>2, <1>4, <1>5 DEF ServingInv, FidsApart, FidsFresh
  <2>5. FidsMean'
    BY <1>1, <1>2, <1>3, <1>4, <1>5, <2>2 DEF ServingInv, FidsApart, FidsMean
  <2> QED
    BY <1>2, <1>5, <2>3, <2>4, <2>5 DEF ServingInv
<1>6. CASE call.type = "walk"
  <2>1. /\ pc \in WalkPc \cup Walk2Pc /\ Live' = Live /\ Wanted = {call.fid2}
        /\ call.fid2 \in Mine /\ allocated' \cup {call.fid2} = allocated
    BY <1>2, <1>4, <1>6
       DEF CallFitsPc, WalkPc, Walk2Pc, ClunkPc, Live, Wanted, Mine, Held,
           OnlyIf, Released, ServingInv
  <2>2. CASE r.rc = "ok"
    <3>1. PICK o \in Obj : srvFids' = Bind(call.fid2, o)
      BY <1>6, <2>2, ReplyOf
    <3>2. allocated' = allocated /\ Mine' = Mine
      BY <1>2, <1>4, <1>6, <2>1, <2>2
         DEF Released, Mine, Held, OnlyIf, CallFitsPc, WalkPc, Walk2Pc, ClunkPc
    <3>3. \A f \in Fid : f # call.fid2 => srvFids'[f] = srvFids[f]
      BY <1>1, <3>1 DEF Bind
    <3>4. \A f \in Fid : Bound(f)' <=> f \in allocated'
      BY <1>1, <1>4, <2>1, <3>1, <3>2 DEF ServingInv, Bind, Bound
    <3> QED
      BY <1>5, <2>1, <3>2, <3>3, <3>4 DEF WalkPc, Walk2Pc
  <2>3. CASE r.rc # "ok"
    <3>1. srvFids' = srvFids
      BY <1>6, <2>3, ReplyOf
    <3>2. allocated' = allocated \ {call.fid2} /\ Mine' \cup {call.fid2} = Mine
          /\ call.fid2 \notin Mine'
      BY <1>2, <1>4, <1>6, <2>1, <2>3
         DEF Released, Mine, Held, OnlyIf, CallFitsPc, WalkPc, Walk2Pc,
             ClunkPc, ServingInv, FidsApart, TwoFidsPc
    <3>3. \A f \in Fid : Bound(f)' <=> f \in allocated'
      BY <1>4, <2>1, <3>1, <3>2 DEF ServingInv, Bound
    <3> QED
      BY <1>5, <2>1, <3>1, <3>2, <3>3
  <2> QED
    BY <2>2, <2>3
<1>7. CASE call.type = "clunk"
  <2>1. pc \in ClunkPc /\ Wanted = {} /\ allocated' = allocated \ {call.fid}
    BY <1>2, <1>4, <1>7 DEF CallFitsPc, Wanted, Released
  <2>2. call.fid \in allocated
    BY <1>1, <1>4, <2>1
       DEF ServingInv, PoolInv, CallFitsPc, Mine, Held, OnlyIf, ClunkPc,
           LiveFids, Live, OpenOcbs
  <2>3. srvFids' = Bind(call.fid, NoObj)
    BY <1>1, <1>4, <1>7, <2>1, <2>2, ReplyOf DEF ServingInv
  <2>4. \A f \in Fid : Bound(f)' <=> f \in allocated'
    BY <1>1, <1>4, <2>1, <2>3 DEF ServingInv, Bind, Bound
  <2>5. \A f \in Fid : f # call.fid => srvFids'[f] = srvFids[f]
    BY <1>1, <2>3 DEF Bind
  <2>6. CASE pc # "Close"
    <3>1. Mine' = Mine \ {call.fid} /\ call.fid \in Mine /\ Live' = Live
      BY <1>2, <1>4, <2>1, <2>6
         DEF Mine, Held, OnlyIf, CallFitsPc, WalkPc, Walk2Pc, ClunkPc, Live,
             ServingInv, FidsApart, TwoFidsPc
    <3> QED
      BY <1>5, <2>1, <2>4, <2>5, <2>6, <3>1 DEF ClunkPc
  <2>7. CASE pc = "Close"
    <3>1. /\ loc.ocb \in OpenOcbs /\ call.fid = ocb[loc.ocb].fid
          /\ Live = OpenOcbs /\ Live' = OpenOcbs \ {loc.ocb}
          /\ Mine = {} /\ Mine' = {}
      BY <1>1, <1>2, <1>4, <2>7
         DEF PoolInv, CallFitsPc, Live, Mine, OpenOcbs
    <3>2. LiveFids' = LiveFids \ {call.fid}
      BY <1>4, <3>1 DEF ServingInv, FidsApart, LiveFids
    <3>3. call.fid # rootFid
      BY <1>4, <3>1 DEF ServingInv, FidsApart
    <3>4. allocated' = {rootFid} \cup LiveFids' \cup Mine'
      BY <1>4, <2>1, <3>1, <3>2, <3>3 DEF ServingInv
    <3>5. FidsApart' /\ FidsFresh'
      BY <1>2, <1>4, <2>1, <2>7, <3>1
         DEF ServingInv, FidsApart, FidsFresh, TwoFidsPc, Walk2Pc
    <3>6. FidsMean'
      BY <1>1, <1>2, <1>3, <1>4, <2>5, <2>7, <3>1, <3>3
         DEF ServingInv, FidsApart, FidsMean
    <3> QED
      BY <1>2, <2>4, <3>4, <3>5, <3>6 DEF ServingInv
  <2> QED
    BY <2>6, <2>7
<1>8. ASSUME call.type \notin {"walk", "clunk"}
      PROVE  /\ Live' = Live /\ Mine' = Mine /\ allocated' = allocated
             /\ Wanted = {}
  BY <1>2, <1>4, <1>8
     DEF CallFitsPc, Live, Mine, Held, OnlyIf, WalkPc, Walk2Pc, ClunkPc,
         Released, Wanted
<1>9. CASE call.type \in Mutation /\ r.rc = "ok" /\ call.type = "create"
  <2>1. PICK o \in Files : srvFids' = Bind(call.fid, o)
    BY <1>9, ReplyOf
  <2>2. Bound(call.fid) /\ pc \in MutationPc /\ call.fid = loc.fid
    BY <1>9, ReplyOf DEF RetryInv
  <2>3. call.fid \in Mine
    BY <2>2 DEF MutationPc, Mine, Held, OnlyIf
  <2>4. \A f \in Fid : Bound(f)' <=> Bound(f)
    BY <1>1, <1>4, <2>1, <2>2 DEF Bind, Bound, Obj
  <2>5. \A f \in Fid : f # call.fid => srvFids'[f] = srvFids[f]
    BY <1>1, <2>1 DEF Bind
  <2> QED
    BY <1>4, <1>5, <1>8, <1>9, <2>2, <2>3, <2>4, <2>5
       DEF MutationPc, ServingInv
<1>10. CASE /\ call.type \notin {"walk", "clunk"}
            /\ ~(call.type \in Mutation /\ r.rc = "ok" /\ call.type = "create")
  <2>1. srvFids' = srvFids
    BY <1>1, <1>10, ReplyOf DEF Request
  <2> QED
    BY <1>4, <1>5, <1>8, <1>10, <2>1 DEF ServingInv, Bound
<1> QED
  BY <1>6, <1>7, <1>9, <1>10

\* The replies to a handler's requests, and to Tversion and Tattach when a
\* process starts, keep the two ends in agreement.
LEMMA SessionAgree ==
    ASSUME CountFaults, TypeOK, PoolInv, RetryInv, AgreeInv, SessionStep
    PROVE  AgreeInv'
<1> SUFFICES ASSUME faults' = 0 PROVE AgreeInv'
  BY DEF AgreeInv
<1>1. Pending /\ pc' = pc /\ loc' = loc /\ ocb' = ocb
  BY SessionCases
<1>2. faults \in Nat
  BY FaultAssumption DEF TypeOK, SessionTypeOK, ServerTypeOK
<1>3. faults = 0 /\ ~Garbles /\ ~TransactFails
  BY <1>2, FaultsGrow
<1>4. Answers
  BY <1>1, <1>3, SessionCases
     DEF AgreeInv, VersionAnswered, ReinitFailed, AttachedAgain
<1>5. PICK r \in Replies(Sent) : srvFids' = r.fids /\ Return(r.rc, {})
  BY <1>4 DEF Answers, Answered
<1>6. /\ ~Pending' /\ rootFid' = rootFid /\ nextFid' = nextFid /\ rc' = r.rc
      /\ allocated' = allocated \ Released(r.rc)
  BY <1>5 DEF Return, Pending
<1>7. srvFids \in [Fid -> Obj \cup {NoObj}] /\ rootFid \in Fid /\ 0 \in Fid
  BY NoCallType DEF TypeOK, SessionTypeOK, ServerTypeOK, ClientTypeOK
<1>8. CASE pc = "InitVersion"
  <2>1. call.type = "version" /\ srvFids' = Unbound /\ Released(r.rc) = {}
    BY <1>1, <1>3, <1>5, <1>8, ReplyOf DEF AgreeInv, Released
  <2>2. NothingBound'
    BY <2>1 DEF NothingBound, Bound, Unbound
  <2> QED
    BY <1>1, <1>3, <1>6, <1>8, <2>1, <2>2 DEF AgreeInv, StartingInv, Serving
<1>9. CASE pc = "InitAttach"
  <2>1. /\ call.type = "attach" /\ call.fid = 0 /\ rootFid = 0 /\ nextFid = 1
        /\ allocated = {0} /\ NothingBound
    BY <1>1, <1>3, <1>9 DEF AgreeInv, StartingInv
  <2>2. ASSUME r.rc = "ok"
        PROVE  /\ allocated' = {0} /\ srvFids'[0] = Root
               /\ \A f \in Fid : Bound(f)' <=> f = 0
    <3>1. srvFids' = Bind(0, Root) /\ Root # NoObj
      BY <1>5, <2>1, <2>2, ReplyOf, ObjAssumption
    <3>2. Released(r.rc) = {}
      BY <2>1, <2>2 DEF Released
    <3> QED
      BY <1>6, <1>7, <2>1, <3>1, <3>2 DEF Bind, Bound, NothingBound
  <2> QED
    BY <1>1, <1>6, <1>9, <2>1, <2>2 DEF AgreeInv, StartingInv, Serving
<1>10. CASE Serving
  <2>1. ServingInv /\ call.type \notin {"version", "attach"}
    BY <1>1, <1>3, <1>10 DEF AgreeInv, Serving
  <2>2. ServingInv'
    BY <1>1, <1>5, <1>10, <2>1, AnswerAgrees
  <2> QED
    BY <1>1, <1>6, <1>10, <2>2 DEF AgreeInv, StartingInv, Serving
<1> QED
  BY <1>1, <1>8, <1>9, <1>10 DEF PoolInv, CallFitsPc, Serving

\* A handler's walk: the pool gives it a fid that neither end has in use.
LEMMA WalkAgrees ==
    ASSUME NoWrap, TypeOK, ServingInv, ~Pending, pc # "Close",
           nextFid <= MaxFid + 1, IssueWalk, srvFids' = srvFids, ocb' = ocb,
           pc' \in WalkPc \cup Walk2Pc,
           Mine' = Mine \cup {nextFid},
           pc' \in Walk2Pc => /\ loc'.fid2 = nextFid /\ loc'.fid \in Mine,
           pc' \in {"OpenWalk", "UnlinkParent", "RenameOld"} => nextFid <= MaxFid
    PROVE  ServingInv'
<1>1. /\ nextFid \in Nat /\ allocated \subseteq Nat /\ nextFid \in Fid
      /\ FidMod \in Nat /\ MaxFid \in Nat
  BY FidModAssumption, BoundAssumption
     DEF TypeOK, SessionTypeOK, ClientTypeOK, Fid
<1>2. /\ nextFid' = nextFid + 1 /\ allocated' = allocated \cup {nextFid}
      /\ rootFid' = rootFid /\ Pending'
      /\ call'.type = "walk" /\ call'.fid2 = nextFid
  BY <1>1, IssueFacts DEF IssueWalk, Allocate, Succ, NoWrap
<1>3. nextFid \notin allocated /\ ~Bound(nextFid)
  BY <1>1 DEF ServingInv, FidsFresh
<1>4. Live = OpenOcbs /\ Live' = OpenOcbs /\ OpenOcbs' = OpenOcbs
  BY <1>2 DEF Live, OpenOcbs, IsOpen
<1>5. Wanted = {} /\ Wanted' = {nextFid} /\ LiveFids' = LiveFids
  BY <1>2, <1>4 DEF Wanted, LiveFids
<1>6. allocated' = {rootFid'} \cup LiveFids' \cup Mine'
  BY <1>2, <1>5 DEF ServingInv
<1>7. \A f \in Fid : Bound(f)' <=> f \in allocated' \ Wanted'
  BY <1>2, <1>3, <1>5 DEF ServingInv, Bound
<1>8. FidsApart'
  <2>1. \A o \in OpenOcbs : ocb[o].fid # nextFid
    BY <1>3, <1>4 DEF ServingInv, LiveFids
  <2>2. rootFid # nextFid /\ \A f \in Mine : f # nextFid
    BY <1>3 DEF ServingInv
  <2>3. pc' \in TwoFidsPc => pc' \in Walk2Pc
    BY DEF TwoFidsPc, WalkPc, Walk2Pc
  <2> QED
    BY <1>2, <1>4, <2>1, <2>2, <2>3 DEF ServingInv, FidsApart
<1>9. FidsMean' /\ FidsFresh'
  BY <1>1, <1>2, <1>4
     DEF ServingInv, FidsMean, FidsFresh, WalkPc, Walk2Pc
<1> QED
  BY <1>6, <1>7, <1>8, <1>9 DEF ServingInv

\* A handler's own step changes neither end, or begins a walk.
LEMMA HandlerAgree ==
    ASSUME NoWrap, TypeOK, PoolInv, AgreeInv, HandlerStep
    PROVE  AgreeInv'
<1>1. ~Pending /\ srvFids' = srvFids /\ faults' = faults
  BY DEF HandlerStep, Returned, Pending,
         OpenWalked, OpenOpened, OpenStatted, OpenParentWalked,
         OpenCreated, OpenUndone, IoDone, IoWritten, MkdirParentWalked,
         UnlinkParentWalked, UnlinkTargetWalked, UnlinkTargetStatted,
         UnlinkTargetClunked, RenameOldWalked, RenameNewWalked,
         RenameOpDone, RenameOldClunked, ParentOpDone, ParentClunked,
         OpenAttachOcb, IoClosed, InitVersionDone, InitAttachDone
<1> SUFFICES ASSUME faults = 0 PROVE AgreeInv'
  BY <1>1 DEF AgreeInv
<1>2. /\ loc \in Locals /\ rc \in Code /\ ocb \in [Ocb -> OcbState]
      /\ loc.ocb \in Ocb /\ nextFid \in Fid /\ rootFid \in Fid
  BY DEF TypeOK, SessionTypeOK, ClientTypeOK, HandlerTypeOK, Locals
<1>3. AgreeInv /\ CallFitsPc /\ OpenInProgress
  BY DEF PoolInv
<1>4. Serving => ServingInv
  BY <1>3 DEF AgreeInv
<1> DEFINE Asks == Pending' => /\ call'.phase = "send"
                               /\ call'.type \notin {"version", "attach"}
<1>5. ASSUME Serving, Serving', ServingInv', Asks PROVE AgreeInv'
  BY <1>5 DEF AgreeInv, StartingInv, Serving
<1>6. ASSUME Serving, Serving', Asks, pc # "Close", pc' # "Close",
             ocb' = ocb, allocated' = allocated, nextFid' = nextFid,
             rootFid' = rootFid, Mine' = Mine,
             Pending' => call'.type # "walk",
             pc' \in TwoFidsPc => pc \in TwoFidsPc /\ loc'.fid = loc.fid
                                  /\ loc'.fid2 = loc.fid2,
             pc' \in {"OpenOpen", "OpenGetAttr", "OpenAttachOcb"} =>
                 srvFids[loc'.fid] = loc'.obj,
             pc' \notin {"OpenWalk", "UnlinkParent", "RenameOld"}
      PROVE  AgreeInv'
  <2>1. /\ OpenOcbs' = OpenOcbs /\ Live = OpenOcbs /\ Live' = OpenOcbs
        /\ Wanted = {} /\ Wanted' = {}
    BY <1>1, <1>6 DEF OpenOcbs, IsOpen, Live, Wanted
  <2>2. LiveFids' = LiveFids
    BY <1>6, <2>1 DEF LiveFids
  <2>3. FidsApart' /\ FidsMean' /\ FidsFresh'
    BY <1>1, <1>4, <1>6, <2>1
       DEF ServingInv, FidsApart, FidsMean, FidsFresh
  <2>4. \A f \in Fid : Bound(f)' <=> f \in allocated' \ Wanted'
    BY <1>1, <1>4, <1>6, <2>1 DEF ServingInv, Bound
  <2> QED
    BY <1>4, <1>5, <1>6, <2>2, <2>3, <2>4 DEF ServingInv
<1>7. ASSUME Serving, Serving', pc # "Close", nextFid <= MaxFid + 1,
             IssueWalk, ocb' = ocb, pc' \in WalkPc \cup Walk2Pc,
             Mine' = Mine \cup {nextFid},
             pc' \in Walk2Pc => loc'.fid2 = nextFid /\ loc'.fid \in Mine,
             pc' \notin {"OpenWalk", "UnlinkParent", "RenameOld"}
      PROVE  AgreeInv'
  <2>1. ServingInv'
    BY <1>1, <1>4, <1>7, WalkAgrees
  <2>2. Asks
    BY <1>7, IssueFacts DEF IssueWalk
  <2> QED
    BY <1>5, <1>7, <2>1, <2>2
<1>8. CASE OpenWalked
  <2>1. /\ pc = "OpenWalk" /\ ocb' = ocb /\ Serving /\ nextFid <= MaxFid + 1
    BY <1>4, <1>8 DEF OpenWalked, Returned, Serving, ServingInv, FidsFresh
  <2>2. CASE rc = "ok" /\ loc' = [loc EXCEPT !.obj = srvFids[loc.fid]]
            /\ Then("OpenOpen", "open", loc.fid, 0)
    <3>1. pc' # "Close" /\ Serving'
      BY <2>2 DEF Then, Serving
    <3> QED
      BY <1>1, <1>2, <1>6, <1>7, <2>1, <2>2, <3>1, IssueFacts
         DEF Then, Mine, Held, OnlyIf, Pending, WalkPc, Walk2Pc,
             ClunkPc, TwoFidsPc, poolVars
  <2>3. CASE rc = "ENOENT" /\ loc' = [loc EXCEPT !.fid = nextFid]
            /\ ThenWalk("OpenParent")
    <3>1. pc' # "Close" /\ Serving'
      BY <2>3 DEF ThenWalk, IssueWalk, Serving
    <3> QED
      BY <1>1, <1>2, <1>6, <1>7, <2>1, <2>3, <3>1, IssueFacts
         DEF ThenWalk, IssueWalk, Mine, Held, OnlyIf, Pending, WalkPc, Walk2Pc,
             ClunkPc, TwoFidsPc, poolVars
  <2>4. CASE rc # "ok" /\ \E code : Done(code)
    <3>1. pc' # "Close" /\ Serving'
      BY <2>4 DEF Done, Serving
    <3> QED
      BY <1>1, <1>2, <1>6, <1>7, <2>1, <2>4, <3>1, IssueFacts
         DEF Done, Mine, Held, OnlyIf, Pending, WalkPc, Walk2Pc,
             ClunkPc, TwoFidsPc, poolVars
  <2> QED
    BY <1>1, <1>2, <1>8, <2>2, <2>3, <2>4 DEF OpenWalked, Locals
<1>9. CASE OpenOpened
  BY <1>1, <1>2, <1>3, <1>4, <1>6, <1>7, <1>9, IssueFacts
     DEF OpenOpened, Returned, Then, ThenWalk, Done, OpenFailed,
         Mine, Held, OnlyIf, Pending, Serving, WalkPc, Walk2Pc, ClunkPc,
         TwoFidsPc, Locals, poolVars, ServingInv, FidsApart, FidsMean,
         FidsFresh
<1>10. CASE OpenStatted
  BY <1>1, <1>2, <1>3, <1>4, <1>6, <1>7, <1>10, IssueFacts
     DEF OpenStatted, Returned, Then, ThenWalk, Done,
         Mine, Held, OnlyIf, Pending, Serving, WalkPc, Walk2Pc, ClunkPc,
         TwoFidsPc, Locals, poolVars, ServingInv, FidsApart, FidsMean,
         FidsFresh
<1>11. CASE OpenParentWalked
  BY <1>1, <1>2, <1>3, <1>4, <1>6, <1>7, <1>11, IssueFacts
     DEF OpenParentWalked, Returned, Then, ThenWalk, Done,
         Mine, Held, OnlyIf, Pending, Serving, WalkPc, Walk2Pc, ClunkPc,
         TwoFidsPc, Locals, poolVars, ServingInv, FidsApart, FidsMean,
         FidsFresh
<1>12. CASE OpenCreated
  <2>1. /\ pc = "OpenCreate" /\ ocb' = ocb /\ Serving
    BY <1>4, <1>12 DEF OpenCreated, Returned, Serving, ServingInv, FidsFresh
  <2>2. CASE rc = "ok" /\ pc' = "OpenAttachOcb" /\ loc'.fid = loc.fid
            /\ loc'.obj = srvFids[loc.fid] /\ ~Pending'
            /\ UNCHANGED <<allocated, nextFid, rootFid>>
    <3>1. pc' # "Close" /\ Serving'
      BY <2>2 DEF Serving
    <3> QED
      BY <1>1, <1>2, <1>6, <1>7, <2>1, <2>2, <3>1, IssueFacts
         DEF Mine, Held, OnlyIf, Pending, WalkPc, Walk2Pc,
             ClunkPc, TwoFidsPc, poolVars
  <2>3. CASE rc # "ok" /\ OpenFailed
    <3>1. pc' # "Close" /\ Serving'
      BY <2>3 DEF OpenFailed, Then, Serving
    <3> QED
      BY <1>1, <1>2, <1>6, <1>7, <2>1, <2>3, <3>1, IssueFacts
         DEF OpenFailed, Then, Mine, Held, OnlyIf, Pending, WalkPc, Walk2Pc,
             ClunkPc, TwoFidsPc, poolVars
  <2> QED
    BY <1>1, <1>2, <1>12, <2>2, <2>3 DEF OpenCreated, Locals, Pending
<1>13. CASE OpenUndone
  BY <1>1, <1>2, <1>3, <1>4, <1>6, <1>7, <1>13, IssueFacts
     DEF OpenUndone, Returned, Then, ThenWalk, Done,
         Mine, Held, OnlyIf, Pending, Serving, WalkPc, Walk2Pc, ClunkPc,
         TwoFidsPc, Locals, poolVars, ServingInv, FidsApart, FidsMean,
         FidsFresh
<1>14. CASE IoDone
  BY <1>1, <1>2, <1>3, <1>4, <1>6, <1>7, <1>14, IssueFacts
     DEF IoDone, Returned, Then, ThenWalk, Done,
         Mine, Held, OnlyIf, Pending, Serving, WalkPc, Walk2Pc, ClunkPc,
         TwoFidsPc, Locals, poolVars, ServingInv, FidsApart, FidsMean,
         FidsFresh
<1>15. CASE IoWritten
  BY <1>1, <1>2, <1>3, <1>4, <1>6, <1>7, <1>15, IssueFacts
     DEF IoWritten, Returned, Then, ThenWalk, Done,
         Mine, Held, OnlyIf, Pending, Serving, WalkPc, Walk2Pc, ClunkPc,
         TwoFidsPc, Locals, poolVars, ServingInv, FidsApart, FidsMean,
         FidsFresh
<1>16. CASE MkdirParentWalked
  BY <1>1, <1>2, <1>3, <1>4, <1>6, <1>7, <1>16, IssueFacts
     DEF MkdirParentWalked, Returned, Then, ThenWalk, Done,
         Mine, Held, OnlyIf, Pending, Serving, WalkPc, Walk2Pc, ClunkPc,
         TwoFidsPc, Locals, poolVars, ServingInv, FidsApart, FidsMean,
         FidsFresh
<1>17. CASE UnlinkParentWalked
  <2>1. /\ pc = "UnlinkParent" /\ ocb' = ocb /\ Serving /\ nextFid <= MaxFid + 1
    BY <1>4, <1>17 DEF UnlinkParentWalked, Returned, Serving, ServingInv, FidsFresh
  <2>2. CASE rc = "ok" /\ loc' = [loc EXCEPT !.fid2 = nextFid]
            /\ ThenWalk("UnlinkTarget")
    <3>1. pc' # "Close" /\ Serving'
      BY <2>2 DEF ThenWalk, IssueWalk, Serving
    <3> QED
      BY <1>1, <1>2, <1>6, <1>7, <2>1, <2>2, <3>1, IssueFacts
         DEF ThenWalk, IssueWalk, Mine, Held, OnlyIf, Pending, WalkPc, Walk2Pc,
             ClunkPc, TwoFidsPc, poolVars
  <2>3. CASE rc # "ok" /\ Done(rc)
    <3>1. pc' # "Close" /\ Serving'
      BY <2>3 DEF Done, Serving
    <3> QED
      BY <1>1, <1>2, <1>6, <1>7, <2>1, <2>3, <3>1, IssueFacts
         DEF Done, Mine, Held, OnlyIf, Pending, WalkPc, Walk2Pc,
             ClunkPc, TwoFidsPc, poolVars
  <2> QED
    BY <1>1, <1>2, <1>17, <2>2, <2>3 DEF UnlinkParentWalked, Locals
<1>18. CASE UnlinkTargetWalked
  BY <1>1, <1>2, <1>3, <1>4, <1>6, <1>7, <1>18, IssueFacts
     DEF UnlinkTargetWalked, Returned, Then, ThenWalk, Done,
         Mine, Held, OnlyIf, Pending, Serving, WalkPc, Walk2Pc, ClunkPc,
         TwoFidsPc, Locals, poolVars, ServingInv, FidsApart, FidsMean,
         FidsFresh
<1>19. CASE UnlinkTargetStatted
  BY <1>1, <1>2, <1>3, <1>4, <1>6, <1>7, <1>19, IssueFacts
     DEF UnlinkTargetStatted, Returned, Then, ThenWalk, Done,
         Mine, Held, OnlyIf, Pending, Serving, WalkPc, Walk2Pc, ClunkPc,
         TwoFidsPc, Locals, poolVars, ServingInv, FidsApart, FidsMean,
         FidsFresh
<1>20. CASE UnlinkTargetClunked
  BY <1>1, <1>2, <1>3, <1>4, <1>6, <1>7, <1>20, IssueFacts
     DEF UnlinkTargetClunked, Returned, Then, ThenWalk, Done,
         Mine, Held, OnlyIf, Pending, Serving, WalkPc, Walk2Pc, ClunkPc,
         TwoFidsPc, Locals, poolVars, ServingInv, FidsApart, FidsMean,
         FidsFresh
<1>21. CASE RenameOldWalked
  <2>1. /\ pc = "RenameOld" /\ ocb' = ocb /\ Serving /\ nextFid <= MaxFid + 1
    BY <1>4, <1>21 DEF RenameOldWalked, Returned, Serving, ServingInv, FidsFresh
  <2>2. CASE rc = "ok" /\ loc' = [loc EXCEPT !.fid2 = nextFid]
            /\ ThenWalk("RenameNew")
    <3>1. pc' # "Close" /\ Serving'
      BY <2>2 DEF ThenWalk, IssueWalk, Serving
    <3> QED
      BY <1>1, <1>2, <1>6, <1>7, <2>1, <2>2, <3>1, IssueFacts
         DEF ThenWalk, IssueWalk, Mine, Held, OnlyIf, Pending, WalkPc, Walk2Pc,
             ClunkPc, TwoFidsPc, poolVars
  <2>3. CASE rc = "ok" /\ loc' = [loc EXCEPT !.rc = "EINVAL"]
            /\ Then("ClunkParent", "clunk", loc.fid, 0)
    <3>1. pc' # "Close" /\ Serving'
      BY <2>3 DEF Then, Serving
    <3> QED
      BY <1>1, <1>2, <1>6, <1>7, <2>1, <2>3, <3>1, IssueFacts
         DEF Then, Mine, Held, OnlyIf, Pending, WalkPc, Walk2Pc,
             ClunkPc, TwoFidsPc, poolVars
  <2>4. CASE rc # "ok" /\ Done(rc)
    <3>1. pc' # "Close" /\ Serving'
      BY <2>4 DEF Done, Serving
    <3> QED
      BY <1>1, <1>2, <1>6, <1>7, <2>1, <2>4, <3>1, IssueFacts
         DEF Done, Mine, Held, OnlyIf, Pending, WalkPc, Walk2Pc,
             ClunkPc, TwoFidsPc, poolVars
  <2> QED
    BY <1>1, <1>2, <1>21, <2>2, <2>3, <2>4 DEF RenameOldWalked, Locals
<1>22. CASE RenameNewWalked
  BY <1>1, <1>2, <1>3, <1>4, <1>6, <1>7, <1>22, IssueFacts
     DEF RenameNewWalked, Returned, Then, ThenWalk, Done,
         Mine, Held, OnlyIf, Pending, Serving, WalkPc, Walk2Pc, ClunkPc,
         TwoFidsPc, Locals, poolVars, ServingInv, FidsApart, FidsMean,
         FidsFresh
<1>23. CASE RenameOpDone
  BY <1>1, <1>2, <1>3, <1>4, <1>6, <1>7, <1>23, IssueFacts
     DEF RenameOpDone, Returned, Then, ThenWalk, Done,
         Mine, Held, OnlyIf, Pending, Serving, WalkPc, Walk2Pc, ClunkPc,
         TwoFidsPc, Locals, poolVars, ServingInv, FidsApart, FidsMean,
         FidsFresh
<1>24. CASE RenameOldClunked
  BY <1>1, <1>2, <1>3, <1>4, <1>6, <1>7, <1>24, IssueFacts
     DEF RenameOldClunked, Returned, Then, ThenWalk, Done,
         Mine, Held, OnlyIf, Pending, Serving, WalkPc, Walk2Pc, ClunkPc,
         TwoFidsPc, Locals, poolVars, ServingInv, FidsApart, FidsMean,
         FidsFresh
<1>25. CASE ParentOpDone
  BY <1>1, <1>2, <1>3, <1>4, <1>6, <1>7, <1>25, IssueFacts
     DEF ParentOpDone, Returned, Then, ThenWalk, Done,
         Mine, Held, OnlyIf, Pending, Serving, WalkPc, Walk2Pc, ClunkPc,
         TwoFidsPc, Locals, poolVars, ServingInv, FidsApart, FidsMean,
         FidsFresh
<1>26. CASE ParentClunked
  BY <1>1, <1>2, <1>3, <1>4, <1>6, <1>7, <1>26, IssueFacts
     DEF ParentClunked, Returned, Then, ThenWalk, Done,
         Mine, Held, OnlyIf, Pending, Serving, WalkPc, Walk2Pc, ClunkPc,
         TwoFidsPc, Locals, poolVars, ServingInv, FidsApart, FidsMean,
         FidsFresh
<1>27. CASE OpenAttachOcb
  <2>1. /\ ~IsOpen(loc.ocb) /\ loc.obj # NoObj /\ pc = "OpenAttachOcb"
        /\ Serving /\ ServingInv
    BY <1>3, <1>4, <1>27 DEF OpenAttachOcb, Returned, OpenInProgress, OpenPc,
                           Serving
  <2>2. Mine = {loc.fid} /\ Live = OpenOcbs /\ Wanted = {}
    BY <1>1, <2>1 DEF Mine, Held, OnlyIf, WalkPc, Walk2Pc, ClunkPc, Live, Wanted
  <2>3. CASE Done("ok") /\ ocb' = [ocb EXCEPT ![loc.ocb] =
                    [fid |-> loc.fid, obj |-> loc.obj, isDir |-> loc.isDir]]
    <3>1. /\ pc' = "idle" /\ ~Pending' /\ rootFid' = rootFid
          /\ allocated' = allocated /\ nextFid' = nextFid
      BY <1>1, <2>3 DEF Done, Pending
    <3>2. /\ Mine' = {} /\ Wanted' = {} /\ Live' = OpenOcbs'
          /\ Serving' /\ Asks
      BY <3>1 DEF Mine, Held, OnlyIf, WalkPc, Walk2Pc, ClunkPc, Live, Wanted,
                  Serving
    <3>3. /\ OpenOcbs' = OpenOcbs \cup {loc.ocb} /\ loc.ocb \notin OpenOcbs
          /\ ocb'[loc.ocb].fid = loc.fid /\ ocb'[loc.ocb].obj = loc.obj
          /\ \A o \in OpenOcbs : ocb'[o] = ocb[o]
      BY <1>2, <2>1, <2>3 DEF OpenOcbs, IsOpen
    <3>4. allocated' = {rootFid'} \cup LiveFids' \cup Mine'
      BY <2>1, <2>2, <3>1, <3>2, <3>3 DEF ServingInv, LiveFids
    <3>5. FidsApart'
      BY <2>1, <2>2, <3>1, <3>2, <3>3
         DEF ServingInv, FidsApart, TwoFidsPc, Walk2Pc
    <3>6. FidsMean' /\ FidsFresh'
      BY <1>1, <2>1, <2>2, <3>1, <3>2, <3>3
         DEF ServingInv, FidsMean, FidsFresh
    <3>7. \A f \in Fid : Bound(f)' <=> f \in allocated' \ Wanted'
      BY <1>1, <2>1, <2>2, <3>1, <3>2 DEF ServingInv, Bound
    <3> QED
      BY <1>5, <2>1, <3>2, <3>4, <3>5, <3>6, <3>7 DEF ServingInv
  <2>4. CASE Then("OpenUndo", "clunk", loc.fid, 0) /\ ocb' = ocb
    BY <1>1, <1>6, <2>1, <2>2, <2>4, IssueFacts
       DEF Then, Mine, Held, OnlyIf, WalkPc, Walk2Pc, ClunkPc, Serving,
           TwoFidsPc, poolVars
  <2> QED
    BY <1>27, <2>3, <2>4 DEF OpenAttachOcb
<1>28. CASE IoClosed
  <2>1. /\ ocb' = [ocb EXCEPT ![loc.ocb] = Closed] /\ pc = "Close"
        /\ pc' = "idle" /\ ~Pending' /\ rootFid' = rootFid
        /\ allocated' = allocated /\ nextFid' = nextFid
        /\ Serving /\ Serving' /\ ServingInv /\ Asks
    BY <1>1, <1>4, <1>28 DEF IoClosed, Returned, Done, Pending, Serving
  <2>2. /\ Live = OpenOcbs \ {loc.ocb} /\ Live' = OpenOcbs'
        /\ OpenOcbs' = OpenOcbs \ {loc.ocb}
        /\ \A o \in OpenOcbs' : ocb'[o] = ocb[o]
    BY <1>1, <1>2, <2>1 DEF Live, OpenOcbs, IsOpen, Closed
  <2>3. Mine = {} /\ Mine' = {} /\ Wanted = {} /\ Wanted' = {}
    BY <1>1, <2>1 DEF Mine, Held, OnlyIf, WalkPc, Walk2Pc, ClunkPc, Wanted
  <2>4. LiveFids' = LiveFids
    BY <2>2 DEF LiveFids
  <2>5. FidsApart' /\ FidsMean' /\ FidsFresh'
    BY <1>1, <2>1, <2>2, <2>3
       DEF ServingInv, FidsApart, FidsMean, FidsFresh, TwoFidsPc, Walk2Pc
  <2>6. \A f \in Fid : Bound(f)' <=> f \in allocated' \ Wanted'
    BY <1>1, <2>1, <2>3 DEF ServingInv, Bound
  <2> QED
    BY <1>5, <2>1, <2>3, <2>4, <2>5, <2>6 DEF ServingInv
<1>29. CASE InitVersionDone
  <2>1. /\ pc = "InitVersion" /\ allocated = {} /\ nextFid = 0 /\ NothingBound
    BY <1>3, <1>29 DEF InitVersionDone, Returned, AgreeInv, StartingInv
  <2>2. CASE pc' = "InitAttach" /\ IssueAttach
    <3>1. /\ rootFid' = 0 /\ nextFid' = 1 /\ allocated' = {0} /\ Pending'
          /\ call'.type = "attach" /\ call'.fid = 0 /\ call'.phase = "send"
          /\ NothingBound'
      BY <1>1, <2>1, <2>2, FidModAssumption
         DEF IssueAttach, Allocate, Succ, Pending, NoCall, NothingBound, Bound
    <3> QED
      BY <2>2, <3>1 DEF AgreeInv, StartingInv, Serving
  <2>3. CASE pc' = "exited" /\ call' = call
    BY <1>1, <2>3 DEF AgreeInv, StartingInv, Serving, Pending
  <2> QED
    BY <1>29, <2>2, <2>3 DEF InitVersionDone
<1>30. CASE InitAttachDone
  <2>1. /\ pc = "InitAttach" /\ rootFid = 0 /\ nextFid = 1
        /\ UNCHANGED <<allocated, nextFid, rootFid, call, rc, loc, ocb>>
    BY <1>3, <1>30 DEF InitAttachDone, Returned, AgreeInv, StartingInv
  <2>2. CASE rc # "ok"
    BY <1>1, <1>30, <2>1, <2>2
       DEF InitAttachDone, AgreeInv, StartingInv, Serving, Pending
  <2>3. CASE rc = "ok"
    <3>1. /\ allocated = {0} /\ srvFids[0] = Root /\ pc' = "idle"
          /\ \A f \in Fid : Bound(f) <=> f = 0
      BY <1>1, <1>3, <1>30, <2>1, <2>3
         DEF InitAttachDone, AgreeInv, StartingInv
    <3>2. OpenOcbs' = {}
      BY <2>1 DEF PoolInv, OpenFids, OpenOcbs, IsOpen
    <3>3. Mine' = {} /\ Wanted' = {} /\ Live' = {} /\ LiveFids' = {}
      BY <1>1, <2>1, <3>1, <3>2
         DEF Mine, Held, OnlyIf, WalkPc, Walk2Pc, ClunkPc, Wanted, Live,
             LiveFids, Pending
    <3>4. FidsApart' /\ FidsMean' /\ FidsFresh'
      BY <1>1, <2>1, <3>1, <3>2, <3>3
         DEF FidsApart, FidsMean, FidsFresh, TwoFidsPc, Walk2Pc
    <3>5. \A f \in Fid : Bound(f)' <=> f \in allocated' \ Wanted'
      BY <1>1, <2>1, <3>1, <3>3 DEF Bound
    <3>6. ServingInv'
      BY <2>1, <3>1, <3>3, <3>4, <3>5 DEF ServingInv
    <3> QED
      BY <1>1, <2>1, <3>1, <3>6 DEF AgreeInv, StartingInv, Serving, Pending
  <2> QED
    BY <2>2, <2>3
<1> QED
  BY <1>8, <1>9, <1>10, <1>11, <1>12, <1>13, <1>14, <1>15, <1>16,
     <1>17, <1>18, <1>19, <1>20, <1>21, <1>22, <1>23, <1>24, <1>25,
     <1>26, <1>27, <1>28, <1>29, <1>30
     DEF HandlerStep

\* A request starts between requests: nothing is held and nothing wanted.
LEMMA ClientRequestAgree ==
    ASSUME NoWrap, TypeOK, PoolInv, AgreeInv, ClientRequest
    PROVE  AgreeInv'
<1>1. /\ srvFids' = srvFids /\ ocb' = ocb /\ faults' = faults /\ pc = "idle"
      /\ nextFid <= MaxFid
  BY DEF ClientRequest, ConnectOpen, IoRequest, IoWrite, IoCloseOcb,
         ConnectMknod, ConnectUnlink, ConnectRename, Begin
<1> SUFFICES ASSUME faults = 0 PROVE AgreeInv'
  BY <1>1 DEF AgreeInv
<1>2. /\ ~Pending /\ ServingInv
  BY <1>1 DEF AgreeInv, Serving, PoolInv, CallFitsPc
<1>3. /\ nextFid \in Nat /\ MaxFid \in Nat /\ loc.ocb \in Ocb
      /\ OpenOcbs \subseteq Ocb
  BY FidModAssumption, BoundAssumption
     DEF TypeOK, SessionTypeOK, ClientTypeOK, HandlerTypeOK, Locals, Fid,
         OpenOcbs
<1>4. Mine = {} /\ Wanted = {} /\ Live = OpenOcbs /\ OpenOcbs' = OpenOcbs
  BY <1>1, <1>2
     DEF Mine, Held, OnlyIf, WalkPc, Walk2Pc, ClunkPc, Wanted, Live, OpenOcbs,
         IsOpen
<1>5. CASE \E p \in {"OpenWalk", "MkdirParent", "UnlinkParent", "RenameOld"} :
              ThenWalk(p) /\ loc'.fid = nextFid
  <2>1. /\ pc' \in {"OpenWalk", "MkdirParent", "UnlinkParent", "RenameOld"}
        /\ IssueWalk /\ Pending' /\ call'.phase = "send"
        /\ call'.type = "walk" /\ loc'.fid = nextFid
    BY <1>5, IssueFacts DEF ThenWalk, IssueWalk
  <2>2. Mine' = Mine \cup {nextFid}
    BY <1>4, <2>1 DEF Mine, Held, OnlyIf, WalkPc, Walk2Pc, ClunkPc
  <2>3. ServingInv'
    BY <1>1, <1>2, <1>3, <2>1, <2>2, WalkAgrees DEF WalkPc, Walk2Pc
  <2> QED
    BY <2>1, <2>3 DEF AgreeInv, StartingInv, Serving
<1>6. CASE \E p \in {"Io", "Write", "Close"}, t \in {"io", "clunk"}, f \in Fid :
              Then(p, t, f, 0)
  <2>1. /\ pc' \in {"Io", "Write", "Close"} /\ rootFid' = rootFid
        /\ allocated' = allocated /\ nextFid' = nextFid /\ Pending'
        /\ call'.phase = "send" /\ call'.type \in {"io", "clunk"}
    BY <1>6, IssueFacts DEF Then, poolVars
  <2>2. Mine' = {} /\ Wanted' = {} /\ Live' = OpenOcbs'
    BY <2>1 DEF Mine, Held, OnlyIf, WalkPc, Walk2Pc, ClunkPc, Wanted, Live
  <2>3. LiveFids' = LiveFids
    BY <1>1, <1>4, <2>2 DEF LiveFids
  <2>4. FidsApart' /\ FidsMean' /\ FidsFresh'
    BY <1>1, <1>2, <1>4, <2>1, <2>2
       DEF ServingInv, FidsApart, FidsMean, FidsFresh, TwoFidsPc, Walk2Pc
  <2>5. \A f \in Fid : Bound(f)' <=> f \in allocated' \ Wanted'
    BY <1>1, <1>2, <1>4, <2>1, <2>2 DEF ServingInv, Bound
  <2>6. ServingInv'
    BY <1>2, <1>4, <2>1, <2>2, <2>3, <2>4, <2>5 DEF ServingInv
  <2> QED
    BY <2>1, <2>6 DEF AgreeInv, StartingInv, Serving
<1>7. \A o \in Ocb : ocb[o].fid \in Fid
  BY DEF TypeOK, HandlerTypeOK, OcbState
<1>8. ASSUME NEW o \in Ocb,
             \/ \E create, excl \in BOOLEAN : ConnectOpen(o, create, excl)
             \/ IoRequest(o)
             \/ \E k \in 1 .. MaxChunks : IoWrite(o, k)
             \/ IoCloseOcb(o)
      PROVE  AgreeInv'
  BY <1>5, <1>6, <1>7, <1>8
     DEF ConnectOpen, IoRequest, IoWrite, IoCloseOcb, NoLoc
<1>9. CASE ConnectMknod \/ ConnectUnlink \/ ConnectRename
  BY <1>5, <1>9 DEF ConnectMknod, ConnectUnlink, ConnectRename, NoLoc
<1> QED
  BY <1>8, <1>9 DEF ClientRequest

\* Both ends of a session that is yet to be made are empty.
LEMMA StartAgree ==
    /\ Init => AgreeInv
    /\ Restart => AgreeInv'
<1>1. LET c == [NoCall EXCEPT !.phase = "send"]
      IN  c.type = "version" /\ c.phase = "send"
  BY DEF NoCall
<1>2. \A f \in Fid : Unbound[f] = NoObj
  BY DEF Unbound
<1>3. Init => AgreeInv
  BY <1>1, <1>2
     DEF Init, SessionInit, AgreeInv, StartingInv, Serving, NothingBound, Bound
<1>4. Restart => AgreeInv'
  BY <1>1, <1>2
     DEF Restart, AgreeInv, StartingInv, Serving, NothingBound, Bound
<1> QED
  BY <1>3, <1>4

(* Until an exchange fails, the driver and the server agree between        *)
(* requests on which fids there are and on what each stands for.           *)
THEOREM FidsAlwaysAgree == CountFaults /\ NoWrap => (Spec => []FidsAgree)
<1> SUFFICES ASSUME CountFaults, NoWrap PROVE Spec => []FidsAgree
  OBVIOUS
<1>1. Init => AgreeInv
  BY StartAgree
<1>2. TypeOK /\ PoolInv /\ RetryInv /\ AgreeInv /\ [Next]_vars => AgreeInv'
  <2> SUFFICES ASSUME TypeOK, PoolInv, RetryInv, AgreeInv, [Next]_vars
               PROVE  AgreeInv'
    OBVIOUS
  <2>1. CASE UNCHANGED vars
    <3>1. /\ OpenOcbs' = OpenOcbs /\ Mine' = Mine /\ Wanted' = Wanted
          /\ Live' = Live
      BY <2>1 DEF vars, sessionVars, OpenOcbs, IsOpen, Mine, Held, OnlyIf,
                  Wanted, Pending, Live
    <3>2. ServingInv' <=> ServingInv
      BY <2>1, <3>1
         DEF vars, sessionVars, ServingInv, LiveFids, Bound, FidsApart,
             FidsMean, FidsFresh
    <3>3. StartingInv' <=> StartingInv
      BY <2>1
         DEF vars, sessionVars, StartingInv, NothingBound, Bound, Pending
    <3> QED
      BY <2>1, <3>2, <3>3 DEF vars, sessionVars, AgreeInv, Serving, Pending
  <2> QED
    BY <2>1, SessionAgree, ClientRequestAgree, HandlerAgree, StartAgree
       DEF Next, AwaitMessage
<1>3. TypeOK /\ PoolInv /\ AgreeInv => FidsAgree
  <2> SUFFICES ASSUME TypeOK, PoolInv, AgreeInv, pc = "idle", faults = 0
               PROVE  /\ allocated = {rootFid} \cup OpenFids
                      /\ {f \in Fid : Bound(f)} = allocated
                      /\ srvFids[rootFid] = Root
                      /\ \A o \in OpenOcbs : srvFids[ocb[o].fid] = ocb[o].obj
                      /\ \A o, p \in OpenOcbs : ocb[o].fid = ocb[p].fid => o = p
                      /\ rootFid \notin OpenFids
    BY DEF FidsAgree
  <2>1. ~Pending /\ ServingInv /\ allocated \subseteq Fid
    BY DEF PoolInv, CallFitsPc, AgreeInv, Serving, TypeOK, SessionTypeOK,
           ClientTypeOK
  <2>2. Mine = {} /\ Wanted = {} /\ Live = OpenOcbs /\ LiveFids = OpenFids
    BY <2>1 DEF Mine, Held, OnlyIf, WalkPc, Walk2Pc, ClunkPc, Wanted, Live,
                LiveFids, OpenFids
  <2>3. {f \in Fid : Bound(f)} = allocated
    BY <2>1, <2>2 DEF ServingInv
  <2> QED
    BY <2>1, <2>2, <2>3 DEF ServingInv, FidsApart, FidsMean, OpenFids
<1>4. Spec => []RetryInv
  BY RetryInvariant
<1> QED
  BY <1>1, <1>2, <1>3, <1>4, TypeCorrect, PoolAccounted, PTL DEF Spec
=============================================================================
