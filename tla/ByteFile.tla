------------------------------ MODULE ByteFile ------------------------------
(***************************************************************************)
(* What read() and write() on the mounted share promise a program: a file  *)
(* is a sequence of bytes, every open file has a position of its own, a    *)
(* read returns the bytes at that position, a write stores the bytes it    *)
(* says it stored and no others, and a call that fails moves no position.  *)
(* A write that fails may have stored a beginning of its bytes.            *)
(* DataPath.tla, which models the handlers, implements this.               *)
(***************************************************************************)
EXTENDS Bytes

CONSTANTS Ocb,   \* open files
          Data,  \* byte sequences that programs write
          MaxLen   \* bound on the positions that programs write at

VARIABLES file,  \* contents of the file
          desc,  \* open file descriptions
          reply  \* the last answer to a read or a write

vars == <<file, desc, reply>>

Modes    == SUBSET {"rd", "wr"}
NotOpen  == [open |-> FALSE, acc |-> {}, append |-> FALSE, pos |-> 0]
NoAnswer == [op |-> "none", rc |-> "ok", at |-> 0, data |-> << >>]

Place(o, at) == IF desc[o].append THEN Len(file) ELSE at

Init == file = << >> /\ desc = [o \in Ocb |-> NotOpen] /\ reply = NoAnswer

Open(o) ==
    /\ ~desc[o].open
    /\ file' \in {file, << >>}
    /\ \E acc \in Modes, append \in BOOLEAN :
         desc' = [desc EXCEPT ![o] = [open |-> TRUE, acc |-> acc,
                                      append |-> append, pos |-> 0]]
    /\ reply' = NoAnswer

Close(o) == /\ desc[o].open
            /\ desc' = [desc EXCEPT ![o] = NotOpen]
            /\ reply' = NoAnswer /\ UNCHANGED file

\* An answer that is about no byte: a listing, an open, a failed open.
Other == reply' = NoAnswer /\ UNCHANGED <<file, desc>>

Fail(op, at, d) == reply' = [op |-> op, rc |-> "error", at |-> at, data |-> d]

\* No bytes come back only at the end of the file.
Read(o) ==
    /\ desc[o].open /\ "rd" \in desc[o].acc
    /\ UNCHANGED file
    /\ LET at == desc[o].pos IN
         \/ Fail("read", at, << >>) /\ UNCHANGED desc
         \/ \E k \in 0..Len(file) :
              /\ IF k = 0 THEN at >= Len(file) ELSE at + k <= Len(file)
              /\ reply' = [op |-> "read", rc |-> "ok", at |-> at,
                           data |-> SubSeq(file, at + 1, at + k)]
              /\ desc' = [desc EXCEPT ![o].pos = @ + k]

\* at is the position asked for: the description's own, or a pwrite's.
Write(o, d, at, moves) ==
    /\ desc[o].open /\ "wr" \in desc[o].acc
    /\ moves => at = desc[o].pos
    /\ \E k \in 0..Len(d) :
         /\ file' = Store(file, Place(o, at), SubSeq(d, 1, k))
         /\ \/ Fail("write", at, d) /\ UNCHANGED desc
            \/ /\ reply' = [op |-> "write", rc |-> "ok", at |-> at,
                            data |-> SubSeq(d, 1, k)]
               /\ desc' = IF moves THEN [desc EXCEPT ![o].pos = @ + k] ELSE desc

Refused(o) == Fail("refused", 0, << >>) /\ UNCHANGED <<file, desc>>

Next == \/ Other
        \/ \E o \in Ocb :
             \/ Open(o) \/ Close(o) \/ Read(o) \/ Refused(o)
             \/ \E d \in Data, at \in {desc[o].pos} \cup 0..MaxLen, moves \in BOOLEAN :
                  Write(o, d, at, moves)

Spec == Init /\ [][Next]_vars
=============================================================================
