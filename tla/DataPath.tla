------------------------------ MODULE DataPath ------------------------------
(***************************************************************************)
(* The data that the handlers of fs_virtio9p.cpp move: what ConnectOpen    *)
(* keeps for an open file, and IoRead and IoWrite, against one file and    *)
(* one directory of the host.                                              *)
(*                                                                         *)
(* The session below is FsVirtio9p.tla's concern: here a session call is   *)
(* one step, in which the server does what it was asked (the variable      *)
(* file) and the answer comes back or is lost.  IoWrite sends a message    *)
(* per chunk, so it has a step per chunk; the thread that dispatches the   *)
(* handlers is the only one, and no other handler comes between.           *)
(***************************************************************************)
EXTENDS Bytes, FiniteSetsExt

CONSTANTS
    Ocb,            \* open files
    DirOcb,         \* bound: those of them that may be the directory's
    Data,           \* byte sequences that programs write
    Sizes,          \* sizes of the buffers that programs read files into
    DirSizes,       \* sizes of the buffers that programs read directories into
    MaxLen,         \* bound: no write ends beyond this position
    Opens,          \* ways the file is opened: mode, flags and Rlopen's iounit
    FallbackChunk,  \* kMaxMessageSize - 128
    NameLen         \* lengths of the names in the directory, in its order

ASSUME OcbAssumption == Ocb # {}
ASSUME SizesAssumption == Sizes \subseteq Nat \ {0} /\ DirSizes \subseteq Nat
ASSUME OpensAssumption ==
    Opens \subseteq [acc : SUBSET {"rd", "wr"}, trunc : BOOLEAN,
                    append : BOOLEAN, iounit : Nat]
ASSUME ChunkAssumption == FallbackChunk \in Nat \ {0}
ASSUME PositionAssumption == MaxLen \in Nat
ASSUME ListingAssumption == NameLen \in Seq(Nat)

ByteSet  == {Zero} \cup UNION {{d[i] : i \in 1..Len(d)} : d \in Data}
Contents == Seq(ByteSet)
ASSUME DataAssumption == Data \subseteq Contents

VARIABLES file,   \* contents of the file on the host
          ocb,    \* Virtio9pOcb and the QNX OCB of every open file
          pc,     \* "Write" while IoWrite has chunks to send
          loc,    \* the local variables of IoWrite
          reply   \* the last answer of a handler to its client

vars == <<file, ocb, pc, loc, reply>>

-----------------------------------------------------------------------------
(* Opening.                                                                *)

LinuxModes == {"O_RDONLY", "O_WRONLY", "O_RDWR"}

\* (Mutant: QNX's bits 1 and 2 handed over as Linux's values 1 and 2.)
FlagsUntranslated(acc) ==
    CASE acc = {} -> "O_RDONLY" [] acc = {"rd"} -> "O_WRONLY"
      [] OTHER -> "O_RDWR"

\* The access mode: a set of bits in QNX, one of three values in Linux.
TranslateQnxToLinuxFlags(acc) ==
    IF {"rd", "wr"} \subseteq acc THEN "O_RDWR"
    ELSE IF "wr" \in acc THEN "O_WRONLY" ELSE "O_RDONLY"

\* kind is the object the server opened.  seen, the entries a directory's
\* reader has been given, is a history variable.
Closed == [kind |-> "closed", isDir |-> FALSE, acc |-> {}, mode |-> "O_RDONLY",
           append |-> FALSE, iounit |-> 0, offset |-> 0, seen |-> << >>]

\* before, the file as it was, and turn, which each turn of the loop flips,
\* are history variables.
NoOcb == CHOOSE o \in Ocb : TRUE
NoLoc == [ocb |-> NoOcb, data |-> << >>, start |-> 0, moves |-> FALSE,
          inline |-> 0, total |-> 0, turn |-> FALSE, before |-> << >>]
NoReply == [op |-> "none", rc |-> "ok", ocb |-> NoOcb, at |-> 0, n |-> 0,
            data |-> << >>]

Init == /\ file = << >>
        /\ ocb = [o \in Ocb |-> Closed]
        /\ pc = "idle" /\ loc = NoLoc /\ reply = NoReply

Begin(o, kinds) == pc = "idle" /\ ocb[o].kind \in kinds

\* The handler answers; at is the position the client asked for, n the size
\* of its buffer for a directory.
Answer(op, rc, o, at, n, data) ==
    reply' = [op |-> op, rc |-> rc, ocb |-> o, at |-> at, n |-> n,
              data |-> data]

\* The server truncates and appends; the handler keeps the offset at 0.
ConnectOpen(o, how) ==
    /\ Begin(o, {"closed"})
    /\ reply' = NoReply
    /\ file' = IF how.trunc THEN << >> ELSE file
    /\ ocb' = [ocb EXCEPT ![o] =
                 [Closed EXCEPT !.kind = "file", !.acc = how.acc,
                                !.mode = TranslateQnxToLinuxFlags(how.acc),
                                !.append = how.append, !.iounit = how.iounit]]
    /\ UNCHANGED <<pc, loc>>

\* The result of GetAttr is not looked at: when it fails, the mode stays 0
\* and is_directory says FALSE of a directory.
ConnectOpenDir(o) ==
    /\ Begin(o, {"closed"}) /\ o \in DirOcb
    /\ reply' = NoReply
    /\ \E gotAttr \in BOOLEAN :
         ocb' = [ocb EXCEPT ![o] =
                   [Closed EXCEPT !.kind = "dir", !.isDir = gotAttr,
                                  !.acc = {"rd"}]]
    /\ UNCHANGED <<file, pc, loc>>

IoCloseOcb(o) == /\ Begin(o, {"file", "dir"})
                 /\ ocb' = [ocb EXCEPT ![o] = Closed]
                 /\ reply' = NoReply
                 /\ UNCHANGED <<file, pc, loc>>

-----------------------------------------------------------------------------
(* IoRead.  (A positioned read comes to the same handler, which looks      *)
(* neither at the type of the request nor at its position.)                *)

ReadVerified(o) == "rd" \in ocb[o].acc          \* iofunc_read_verify
ServerReads(o)  == ocb[o].mode # "O_WRONLY" /\ ocb[o].kind = "file"

IoReadRefused(o) == /\ Begin(o, {"file", "dir"})
                    /\ ~ReadVerified(o)
                    /\ Answer("refused", "EBADF", o, 0, 0, << >>)
                    /\ UNCHANGED <<file, ocb, pc, loc>>

ReadAnswer(o, rc, data) == Answer("read", rc, o, ocb[o].offset, 0, data)

\* An exchange fails; or the server refuses an access it does not allow.
Errors(allowed) == {"EIO"} \cup (IF allowed THEN {} ELSE {"server EBADF"})

ReadFailed(o) == /\ \E rc \in Errors(ServerReads(o)) : ReadAnswer(o, rc, << >>)
                 /\ UNCHANGED ocb

\* (Mutant: the offset moves by what was asked for.)
GotAdvanceByCount(o, n, k) ==
    /\ ReadAnswer(o, "ok", SubSeq(file, ocb[o].offset + 1, ocb[o].offset + k))
    /\ ocb' = [ocb EXCEPT ![o].offset = @ + n]

Got(o, n, k) ==
    /\ ReadAnswer(o, "ok", SubSeq(file, ocb[o].offset + 1, ocb[o].offset + k))
    /\ ocb' = [ocb EXCEPT ![o].offset = @ + k]

\* The count goes to the server as it is: a message that has no room for it
\* is the server's to shorten or to refuse.
IoRead(o, n) ==
    /\ Begin(o, {"file", "dir"}) /\ ReadVerified(o) /\ ~ocb[o].isDir
    /\ \/ ReadFailed(o)
       \/ /\ ServerReads(o)
          /\ IF ocb[o].offset >= Len(file) THEN Got(o, n, 0)
             ELSE \E k \in 1..SmallerOf(n, Len(file) - ocb[o].offset) :
                    Got(o, n, k)
    /\ UNCHANGED <<file, pc, loc>>

-----------------------------------------------------------------------------
(* IoRead of a directory: entries are numbered in the server's order, and  *)
(* an entry's offset is its number.                                        *)

Wire(e) == 24 + NameLen[e]                      \* qid, offset, type, name
Rec(e)  == ((20 + NameLen[e] + 1 + 7) \div 8) * 8   \* struct dirent

\* Bytes that the entries from a to b take on the wire, or as records.
WireRoom(a, b) == MapThenSumSet(Wire, a..b)
RecRoom(a, b)  == MapThenSumSet(Rec, a..b)

\* (Mutant: the offset of the last entry the server sent.)
KeepAllOffsets(o, kept, sent) ==
    [ocb EXCEPT ![o].offset = sent,
                ![o].seen = @ \o [i \in 1..kept - ocb[o].offset |->
                                    ocb[o].offset + i]]

\* The entries after offset up to number kept go to the client.
Keep(o, kept, sent) ==
    [ocb EXCEPT ![o].offset = kept,
                ![o].seen = @ \o [i \in 1..kept - ocb[o].offset |->
                                    ocb[o].offset + i]]

\* (Mutant: an entry that fills the buffer to its end is dropped.)
RecsFitBelow(from, kept, n) == RecRoom(from + 1, kept) < n
RecsFit(from, kept, n) == RecRoom(from + 1, kept) <= n

\* The server sends entries that fit n bytes on the wire, at least one if
\* the next one fits; the handler keeps those whose records fit n bytes.
IoReadDir(o, n) ==
    /\ Begin(o, {"dir"}) /\ ReadVerified(o) /\ ocb[o].isDir
    /\ \/ Answer("list", "EIO", o, 0, n, << >>) /\ UNCHANGED ocb
       \/ LET from == ocb[o].offset
              sendable == {e \in from..Len(NameLen) :
                             WireRoom(from + 1, e) <= n}
          IN \E sent \in sendable :
               /\ sent = from => sendable = {from}
               /\ \E kept \in from..sent :
                    /\ kept = from \/ RecsFit(from, kept, n)
                    /\ kept < sent => ~RecsFit(from, kept + 1, n)
                    /\ ocb' = Keep(o, kept, sent)
                    /\ Answer("list", "ok", o, 0, n,
                              [i \in 1..kept - from |-> from + i])
    /\ UNCHANGED <<file, pc, loc>>

-----------------------------------------------------------------------------
(* IoWrite.                                                                *)

WriteVerified(o) == "wr" \in ocb[o].acc         \* iofunc_write_verify
ServerWrites(o)  == ocb[o].mode # "O_RDONLY" /\ ocb[o].kind = "file"

\* EBADF, or ENOSYS for a request type other than write() and pwrite().
IoWriteRefused(o) ==
    /\ Begin(o, {"file", "dir"})
    /\ \/ ~WriteVerified(o) /\ Answer("refused", "EBADF", o, 0, 0, << >>)
       \/ WriteVerified(o) /\ Answer("refused", "ENOSYS", o, 0, 0, << >>)
    /\ UNCHANGED <<file, ocb, pc, loc>>

\* Bounds the length of the file and the offsets.
Fits(o, at, d) == LargerOf(at, IF ocb[o].append THEN Len(file) ELSE 0) + Len(d)
                      <= MaxLen

\* inline is how much of the client's data came with its message.
IoWrite(o, d, at, moves, inline) ==
    /\ Begin(o, {"file"}) /\ WriteVerified(o)
    /\ moves => at = ocb[o].offset
    /\ Fits(o, at, d)
    /\ IF d = << >>
       THEN Answer("write", "ok", o, at, 0, << >>) /\ UNCHANGED <<pc, loc>>
       ELSE /\ pc' = "Write" /\ UNCHANGED reply
            /\ loc' = [ocb |-> o, data |-> d, start |-> at, moves |-> moves,
                       inline |-> inline, total |-> 0, turn |-> FALSE,
                       before |-> file]
    /\ UNCHANGED <<file, ocb>>

ChunkSize == IF ocb[loc.ocb].iounit > 0 THEN ocb[loc.ocb].iounit
             ELSE FallbackChunk
ToWrite   == SmallerOf(Len(loc.data) - loc.total, ChunkSize)
Copied    == IF loc.total < loc.inline
             THEN SmallerOf(loc.inline - loc.total, ToWrite) ELSE 0

\* resmgr_msgread of n bytes of the client's data, from byte number from on.
MsgRead(from, n) == SubSeq(loc.data, from + 1, from + n)

\* (Mutant: the bytes already copied are not skipped.)
ChunkFromTotal == SubSeq(loc.data, loc.total + 1, loc.total + Copied)
                      \o MsgRead(loc.total, ToWrite - Copied)
Chunk == SubSeq(loc.data, loc.total + 1, loc.total + Copied)
             \o MsgRead(loc.total + Copied, ToWrite - Copied)

\* Where the server puts the chunk.
ChunkPlace == IF ocb[loc.ocb].append THEN Len(file) ELSE loc.start + loc.total

WriteReply(rc, data) ==
    /\ pc' = "idle" /\ loc' = NoLoc
    /\ Answer("write", rc, loc.ocb, loc.start, 0, data)

\* An error returns at once: nothing is said of the chunks before it, and
\* the offset does not move.
WriteFailed ==
    /\ pc = "Write"
    /\ \E rc \in Errors(ServerWrites(loc.ocb)) : WriteReply(rc, loc.data)
    /\ UNCHANGED ocb
    /\ \/ file' = file                      \* the client's message, or Twrite
       \/ /\ ServerWrites(loc.ocb)          \* Rwrite
          /\ \E k \in 1..Len(Chunk) :
               file' = Store(file, ChunkPlace, SubSeq(Chunk, 1, k))

\* (Mutant: a short write is followed by the next chunk.)
MoreIgnoringShort(k) == loc.total + k < Len(loc.data)

\* (Mutant: the loop goes on until a write is short.)
MoreUntilShort(k) == k = Len(Chunk)
MoreToWrite(k) == k = Len(Chunk) /\ loc.total + k < Len(loc.data)

\* The server stores k bytes of the chunk and says so.
WriteChunk ==
    /\ pc = "Write" /\ ServerWrites(loc.ocb)
    /\ \E k \in 0..Len(Chunk) :
         /\ file' = Store(file, ChunkPlace, SubSeq(Chunk, 1, k))
         /\ IF MoreToWrite(k)
            THEN /\ loc' = [loc EXCEPT !.total = @ + k, !.turn = ~@]
                 /\ UNCHANGED <<ocb, pc, reply>>
            ELSE /\ WriteReply("ok", SubSeq(loc.data, 1, loc.total + k))
                 /\ ocb' = IF loc.moves
                           THEN [ocb EXCEPT ![loc.ocb].offset = @ + loc.total + k]
                           ELSE ocb

-----------------------------------------------------------------------------
Next ==
    \/ \E o \in Ocb :
         \/ \E how \in Opens : ConnectOpen(o, how)
         \/ ConnectOpenDir(o) \/ IoCloseOcb(o)
         \/ IoReadRefused(o) \/ IoWriteRefused(o)
         \/ \E n \in Sizes : IoRead(o, n)
         \/ \E n \in DirSizes : IoReadDir(o, n)
         \/ \E d \in Data : \E inline \in 0..Len(d) :
              \/ IoWrite(o, d, ocb[o].offset, TRUE, inline)
              \/ \E at \in 0..MaxLen : IoWrite(o, d, at, FALSE, inline)
    \/ WriteFailed \/ WriteChunk

\* The loop of IoWrite runs until it returns.
Fairness == WF_vars(WriteFailed \/ WriteChunk)
Spec == Init /\ [][Next]_vars /\ Fairness

-----------------------------------------------------------------------------
(* Properties.                                                             *)

\* Every variable has its type; a chunk loop is in progress iff pc says so,
\* on an open file, and it has sent no more than it was given.
TypeOK ==
    /\ file \in Contents
    /\ \A o \in Ocb :
         /\ ocb[o].kind \in {"closed", "file", "dir"}
         /\ ocb[o].isDir \in BOOLEAN /\ ocb[o].append \in BOOLEAN
         /\ ocb[o].acc \subseteq {"rd", "wr"} /\ ocb[o].mode \in LinuxModes
         /\ ocb[o].iounit \in Nat /\ ocb[o].offset \in Nat
         /\ ocb[o].seen \in Seq(Nat)
         /\ ocb[o].isDir => ocb[o].kind = "dir"
    /\ pc \in {"idle", "Write"}
    /\ loc.ocb \in Ocb /\ loc.data \in Contents /\ loc.before \in Contents
    /\ loc.start \in Nat /\ loc.total \in Nat /\ loc.inline \in Nat
    /\ loc.moves \in BOOLEAN /\ loc.turn \in BOOLEAN
    /\ pc = "Write" => loc.total < Len(loc.data) /\ ocb[loc.ocb].kind = "file"

\* The handlers, with their chunks, partial messages and partial errors,
\* answer as the file of ByteFile.tla: an answered write stored exactly the
\* bytes it reports, in the client's order and at its position, a failed one
\* at most a beginning of them; a read gives the bytes at the offset and
\* none only at the end; an error never moves an offset.
Promised == INSTANCE ByteFile WITH
    file  <- IF pc = "Write" THEN loc.before ELSE file,
    desc  <- [o \in Ocb |->
                IF ocb[o].kind = "file"
                THEN [open |-> TRUE, acc |-> ocb[o].acc,
                      append |-> ocb[o].append, pos |-> ocb[o].offset]
                ELSE [open |-> FALSE, acc |-> {}, append |-> FALSE, pos |-> 0]],
    reply <- IF reply.op \in {"read", "write"} /\ ocb[reply.ocb].kind = "file"
             THEN [op |-> reply.op, at |-> reply.at, data |-> reply.data,
                   rc |-> IF reply.rc = "ok" THEN "ok" ELSE "error"]
             ELSE [op |-> "none", rc |-> "ok", at |-> 0, data |-> << >>]
ImplementsByteFile == Promised!Spec

\* The reader of a directory is given every entry up to its offset, once and
\* in the server's order: an entry the server sent and IoRead dropped for
\* want of room comes again with the next read.
ListsOnceInOrder ==
    \A o \in Ocb : ocb[o].kind = "dir" =>
        ocb[o].seen = [i \in 1..ocb[o].offset |-> i]

\* An empty answer means the end of the directory, unless the client's
\* buffer has no room for the next entry, as sent or as struct dirent.
EndOfListingIsTheEnd ==
    reply.op = "list" /\ reply.rc = "ok" /\ reply.data = << >> =>
        LET next == ocb[reply.ocb].offset + 1
        IN  next <= Len(NameLen) =>
                Wire(next) > reply.n \/ Rec(next) > reply.n

\* The server never refuses, for the mode the file was opened in, an access
\* that the local iofunc check let pass: the two access modes agree.
VerifyAgrees == reply.rc # "server EBADF" \/ ocb[reply.ocb].kind = "dir"

\* The chunk loop of IoWrite ends, however little the server stores.
WriteReturns == pc = "Write" ~> pc = "idle"
=============================================================================
