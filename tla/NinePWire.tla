------------------------------ MODULE NinePWire ------------------------------
(***************************************************************************)
(* A session call, byte for byte: the driver builds a request, a server    *)
(* reads it and writes a reply, and the driver parses the reply, which may *)
(* be the wrong one or arrive cut short (the used length that the device   *)
(* reports is believed, the size field of the reply is not looked at).     *)
(* The server is external: it knows the message layouts of 9P2000.L.       *)
(***************************************************************************)
EXTENDS NinePMessage

CONSTANTS Calls,    \* requests: [type, tag, args]
          Answers,  \* replies: [type, tag, vals]
          Strays    \* those of Answers that may come to any request

ASSUME StraysAssumption == Strays \subseteq Answers

VARIABLES phase,   \* "idle", "sent", "answered", "cut", "done" or "doneCut"
          call,    \* the request being made
          answer,  \* what the server answered
          wire,    \* the message on its way
          got      \* what the session call made of it

vars == <<phase, call, answer, wire, got>>

NoCall   == [type |-> "none", tag |-> 0, args |-> << >>]
NoAnswer == [type |-> "none", tag |-> 0, vals |-> << >>]
NoResult == [rc |-> "none", code |-> 0, vals |-> << >>]

ReplyTo == [Tversion |-> "Rversion", Tattach |-> "Rattach", Twalk |-> "Rwalk",
            Tlopen |-> "Rlopen", Tread |-> "Rread", Tclunk |-> "Rclunk",
            Tgetattr |-> "Rgetattr", Treaddir |-> "Rreaddir",
            Twrite |-> "Rwrite", Tlcreate |-> "Rlcreate", Tmkdir |-> "Rmkdir",
            Tunlinkat |-> "Runlinkat", Trenameat |-> "Rrenameat"]

-----------------------------------------------------------------------------
(* The layouts of 9P2000.L (external).                                     *)

RequestLayout ==
    [Tversion  |-> <<"u32", "s">>,
     Tattach   |-> <<"u32", "u32", "s", "s", "u32">>,
     Twalk     |-> <<"u32", "u32", "names">>,
     Tlopen    |-> <<"u32", "u32">>,
     Tread     |-> <<"u32", "u64", "u32">>,
     Tclunk    |-> <<"u32">>,
     Tgetattr  |-> <<"u32", "u64">>,
     Treaddir  |-> <<"u32", "u64", "u32">>,
     Twrite    |-> <<"u32", "u64", "data">>,
     Tlcreate  |-> <<"u32", "s", "u32", "u32", "u32">>,
     Tmkdir    |-> <<"u32", "s", "u32", "u32">>,
     Tunlinkat |-> <<"u32", "s", "u32">>,
     Trenameat |-> <<"u32", "s", "u32", "s">>]

ReplyLayout ==
    [Rlerror   |-> <<"u32">>,
     Rversion  |-> <<"u32", "s">>,
     Rattach   |-> <<"qid">>,
     Rlopen    |-> <<"qid", "u32">>,
     Rclunk    |-> << >>,
     Rwrite    |-> <<"u32">>,
     Rlcreate  |-> <<"qid", "u32">>,
     Rmkdir    |-> <<"qid">>,
     Runlinkat |-> << >>,
     Rrenameat |-> << >>,
     Rgetattr  |-> <<"u64", "qid", "u32", "u32", "u32">> \o [i \in 1..15 |-> "u64"]]

\* What fits a field of each form.
Byte == 0..B - 1
U32  == 0..Two32 - 1
U64  == 0..Two32 * Two32 - 1
Qid  == Byte \X U32 \X U64
IsText(v) == v \in Seq(Byte) /\ Len(v) < Two16
Fits(form, v) ==
    CASE form = "u32"   -> v \in U32
      [] form = "u64"   -> v \in U64
      [] form = "qid"   -> v \in Qid
      [] form = "s"     -> IsText(v)
      [] form = "data"  -> v \in Seq(Byte) /\ Len(v) < Two32
      [] form = "names" -> /\ v \in Seq(Seq(Byte)) /\ Len(v) < Two16
                           /\ \A i \in DOMAIN v : IsText(v[i])
      [] form = "entry" -> /\ v \in Qid \X U64 \X Byte \X Seq(Byte)
                           /\ IsText(v[4])
FitAll(forms, vals) == /\ vals = [i \in 1..Len(forms) |-> vals[i]]
                       /\ \A i \in DOMAIN forms : Fits(forms[i], vals[i])

\* The arguments have the types of the C++ parameters, and the message's size
\* fits its field.
ASSUME CallsAssumption ==
    \A c \in Calls :
        /\ c.type \in DOMAIN RequestLayout /\ c.tag \in 0..Two16 - 1
        /\ c.type = "Tversion" => c.tag = kNoTag
        /\ FitAll(RequestLayout[c.type], c.args)
        /\ Len(Build(c)) < Two32

-----------------------------------------------------------------------------
(* The server (external): an integer of four or eight bytes is two halves, *)
(* the low one first.                                                      *)

TwoAt(d, from)   == d[from + 1] + B * d[from + 2]
FourAt(d, from)  == TwoAt(d, from) + Two16 * TwoAt(d, from + 2)
EightAt(d, from) == FourAt(d, from) + Two32 * FourAt(d, from + 4)

Text(d, from) == LET len == TwoAt(d, from)
                 IN  Got(from + 2 + len, SubSeq(d, from + 3, from + 2 + len))
Texts(d, from, n) ==
    LET text[k \in 0..n] ==
          IF k = 0 THEN Got(from, << >>)
          ELSE LET r == text[k - 1]
                   t == Text(d, r.off)
               IN  Got(t.off, Append(r.val, t.val))
    IN  text[n]

\* It reads one field of a request, and all of them.
Field(form, d, from) ==
    CASE form = "u32"   -> Got(from + 4, FourAt(d, from))
      [] form = "u64"   -> Got(from + 8, EightAt(d, from))
      [] form = "s"     -> Text(d, from)
      [] form = "data"  -> LET n == FourAt(d, from)
                           IN  Got(from + 4 + n, SubSeq(d, from + 5, from + 4 + n))
      [] form = "names" -> Texts(d, from + 2, TwoAt(d, from))
Fields(forms, d) ==
    LET field[n \in 0..Len(forms)] ==
          IF n = 0 THEN Got(7, << >>)
          ELSE LET r == field[n - 1]
                   f == Field(forms[n], d, r.off)
               IN  Got(f.off, Append(r.val, f.val))
    IN  field[Len(forms)]

\* It writes a reply.
Two(v)   == <<v % B, v \div B>>
Four(v)  == Two(v % Two16) \o Two(v \div Two16)
Eight(v) == Four(v % Two32) \o Four(v \div Two32)

Written(form, v) ==
    CASE form = "u32"   -> Four(v)
      [] form = "u64"   -> Eight(v)
      [] form = "s"     -> Two(Len(v)) \o v
      [] form = "qid"   -> <<v[1]>> \o Four(v[2]) \o Eight(v[3])
      [] form = "entry" -> <<v[1][1]>> \o Four(v[1][2]) \o Eight(v[1][3])
                               \o Eight(v[2]) \o <<v[3]>> \o Two(Len(v[4])) \o v[4]
WrittenAll(forms, vals) ==
    FlattenSeq([i \in 1..Len(forms) |-> Written(forms[i], vals[i])])
Each(form, items) == WrittenAll([i \in 1..Len(items) |-> form], items)

Body(a) ==
    CASE a.type = "Rread" -> Four(Len(a.vals[1])) \o a.vals[1]
      [] a.type = "Rwalk" -> Two(Len(a.vals)) \o Each("qid", a.vals)
      [] a.type = "Rreaddir" ->
            LET entries == Each("entry", a.vals)
            IN  Four(Len(entries)) \o entries
      [] OTHER -> WrittenAll(ReplyLayout[a.type], a.vals)

\* The server's bodies are sequences, whatever texts they hold.
ASSUME AnswersAssumption == \A a \in Answers : Body(a) \in Seq(Range(Body(a)))

Reply(a) == Four(7 + Len(Body(a))) \o <<a.type>> \o Two(a.tag) \o Body(a)

\* The tag, the size and the values of the server's replies fit their fields.
ServerKeepsToLayouts ==
    \A a \in Answers :
        /\ a.tag \in 0..Two16 - 1 /\ 7 + Len(Body(a)) < Two32
        /\ CASE a.type = "Rread"    -> FitAll(<<"data">>, a.vals)
             [] a.type = "Rwalk"    -> /\ Len(a.vals) \in 0..Two16 - 1
                                       /\ FitAll([i \in 1..Len(a.vals) |-> "qid"], a.vals)
             [] a.type = "Rreaddir" -> /\ Len(a.vals) \in Nat
                                       /\ Len(Each("entry", a.vals)) < Two32
                                       /\ FitAll([i \in 1..Len(a.vals) |-> "entry"], a.vals)
             [] OTHER               -> FitAll(ReplyLayout[a.type], a.vals)

-----------------------------------------------------------------------------
Init == /\ phase = "idle" /\ call = NoCall /\ answer = NoAnswer
        /\ wire = << >> /\ got = NoResult

Send(c) == /\ phase = "idle" /\ phase' = "sent"
           /\ call' = c /\ wire' = Build(c)
           /\ UNCHANGED <<answer, got>>

ServerReplies(a) ==
    /\ phase = "sent" /\ phase' = "answered"
    /\ a.type = ReplyTo[call.type] \/ a \in Strays
    /\ answer' = a /\ wire' = Reply(a)
    /\ UNCHANGED <<call, got>>

CutShort(n) == /\ phase = "answered" /\ phase' = "cut"
               /\ n < Len(wire) /\ wire' = SubSeq(wire, 1, n)
               /\ UNCHANGED <<call, answer, got>>

\* The end of Transact, and the parse in the session call that made it: an
\* Rlerror with code 0 is no error to Transact, and no reply to the parser.
ReplyResult(c, d) ==
    LET code == ErrorCode(d)
        p    == Parse(c.type, d)
    IN  IF code # 0 THEN [rc |-> "error", code |-> code, vals |-> << >>]
        ELSE IF ~p.ok THEN [rc |-> "EIO", code |-> 0, vals |-> << >>]
        ELSE [rc |-> "ok", code |-> 0, vals |-> p.vals]

Receive == /\ phase \in {"answered", "cut"}
           /\ phase' = IF phase = "cut" THEN "doneCut" ELSE "done"
           /\ got' = ReplyResult(call, wire)
           /\ UNCHANGED <<call, answer, wire>>

NextCall == /\ phase \in {"done", "doneCut"}
            /\ phase' = "idle" /\ call' = NoCall /\ answer' = NoAnswer
            /\ wire' = << >> /\ got' = NoResult

Next == \/ \E c \in Calls : Send(c)
        \/ \E a \in Answers : ServerReplies(a)
        \/ phase = "answered" /\ \E n \in 0..Len(wire) - 1 : CutShort(n)
        \/ Receive \/ NextCall

Spec == Init /\ [][Next]_vars

-----------------------------------------------------------------------------
(* Properties.                                                             *)

Done == phase \in {"done", "doneCut"}

\* The thirteen builders: a server that knows the layouts alone reads the
\* type, the tag and every argument of each request, to its last byte.
RequestUnderstood ==
    phase = "sent" =>
        LET f == Fields(RequestLayout[call.type], wire) IN
        /\ FourAt(wire, 0) = Len(wire) /\ f.off = Len(wire)
        /\ wire[5] = call.type /\ TwoAt(wire, 5) = call.tag
        /\ f.val = call.args

\* The parsers and IsRlerror: a whole reply of the right type gives the
\* session every value the server put in it, an Rlerror its error code.
ReplyUnderstood ==
    phase = "done" =>
        /\ answer.type = ReplyTo[call.type] =>
              got = [rc |-> "ok", code |-> 0, vals |-> answer.vals]
        /\ answer.type = "Rlerror" /\ answer.vals[1] # 0 =>
              got.rc = "error" /\ got.code = answer.vals[1]

\* A reply of another type, or one too short for a header, is never taken
\* for the answer, an Rlerror whose code was cut off included.
ForeignReplyRejected ==
    Done /\ (answer.type # ReplyTo[call.type] \/ Len(wire) < 7) => got.rc # "ok"

\* What may become of a value when its reply is cut short.
Remains(form, v) ==
    CASE form = "u32" -> {v, 0}
      [] form = "u64" -> {v, v % Two32, 0}
      [] form = "qid" -> {v[1], 0} \X {v[2], 0} \X {v[3], v[3] % Two32, 0}

\* A reply of fixed layout that was cut short gives integers the server
\* sent, the low half of one of eight bytes, or 0: a Get past the end takes
\* no byte of another field for its own.  Two exceptions: the length of an
\* Rversion's text can be read from the bytes of the size before it (the
\* session then finds that it is not the protocol's name), and the qid's type
\* in an Rgetattr can be a byte of valid (nothing looks at it).  An Rread
\* that was cut short brings no data, not a part of them.  And the loop of
\* ParseRreaddir makes no more entries than its count of bytes can hold.
CutReplyInventsNothing ==
    phase = "doneCut" /\ got.rc = "ok" =>
        /\ answer.type \in DOMAIN ReplyLayout =>
             LET forms == ReplyLayout[answer.type] IN
             /\ Len(got.vals) = Len(forms)
             /\ \A i \in DOMAIN forms :
                  \/ forms[i] = "s"
                  \/ got.vals[i] \in Remains(forms[i], answer.vals[i])
                  \/ /\ answer.type = "Rgetattr" /\ i = 2
                     /\ got.vals[2][1] \in Range(Eight(answer.vals[1]))
                     /\ got.vals[2][2] = 0 /\ got.vals[2][3] = 0
        /\ answer.type = "Rread" => got.vals = << << >> >>
        /\ answer.type = "Rreaddir" =>
             Len(got.vals) * 24 < FourAt(Reply(answer), 7) + 24
=============================================================================
