---------------------------- MODULE NinePMessage ----------------------------
(***************************************************************************)
(* The 9P message codec (nine_p_message.cpp): the builders of the thirteen *)
(* requests the driver sends, the parsers of their replies, and between    *)
(* them a server that reads and writes messages by the layouts of 9P2000.L *)
(* alone.                                                                  *)
(*                                                                         *)
(* A message is a sequence of cells, one per byte.  A byte has B values    *)
(* (256 in the program), so that integers of one to eight bytes keep their *)
(* widths and stay small; the type is a symbol in a cell of its own, which *)
(* no parser reads as a number.  Sizes and offsets within a message do not *)
(* wrap, as kMaxMessageSize bounds it; a count that a reply states is only *)
(* bounded by its four bytes, and GetBytes adds it as the code does.       *)
(* Loops are recursive functions of the number of turns.                   *)
(***************************************************************************)
EXTENDS Naturals, SequencesExt

CONSTANT B  \* values of a byte

ASSUME ByteAssumption == B \in Nat \ {0, 1}

Two16 == B * B          \* 2^16, the values of two bytes
Two32 == Two16 * Two16  \* 2^32, the values of four

kHeaderSize == 7
kNoTag      == Two16 - 1

-----------------------------------------------------------------------------
(* Encoder helpers: the cells that a Put appends to data_.                 *)

PutU8(v)  == <<v % B>>
\* (Mutant: most significant byte first.)
PutU16BigEndian(v) == <<(v \div B) % B, v % B>>
PutU16(v) == <<v % B, (v \div B) % B>>
PutU32(v) == <<v % B, (v \div B) % B, (v \div Two16) % B,
               (v \div (Two16 * B)) % B>>
PutU64(v) == PutU32(v % Two32) \o PutU32(v \div Two32)
PutString(s) == PutU16(Len(s)) \o s
PutBytes(s)  == s

\* BeginMessage, the Puts of the body, EndMessage.
Message(type, tag, body) ==
    PutU32(kHeaderSize + Len(body)) \o <<type>> \o PutU16(tag) \o body

BuildTversion(max, version) ==
    Message("Tversion", kNoTag, PutU32(max) \o PutString(version))
BuildTattach(tag, fid, afid, uname, aname, nUname) ==
    Message("Tattach", tag, PutU32(fid) \o PutU32(afid) \o PutString(uname)
                                \o PutString(aname) \o PutU32(nUname))
BuildTwalk(tag, fid, newfid, names) ==
    Message("Twalk", tag, PutU32(fid) \o PutU32(newfid) \o PutU16(Len(names))
        \o FlattenSeq([i \in DOMAIN names |-> PutString(names[i])]))
BuildTlopen(tag, fid, flags) ==
    Message("Tlopen", tag, PutU32(fid) \o PutU32(flags))
BuildTread(tag, fid, offset, count) ==
    Message("Tread", tag, PutU32(fid) \o PutU64(offset) \o PutU32(count))
BuildTclunk(tag, fid) == Message("Tclunk", tag, PutU32(fid))
BuildTgetattr(tag, fid, mask) ==
    Message("Tgetattr", tag, PutU32(fid) \o PutU64(mask))
BuildTreaddir(tag, fid, offset, count) ==
    Message("Treaddir", tag, PutU32(fid) \o PutU64(offset) \o PutU32(count))
BuildTwrite(tag, fid, offset, data) ==
    Message("Twrite", tag, PutU32(fid) \o PutU64(offset) \o PutU32(Len(data))
                               \o PutBytes(data))
BuildTlcreate(tag, fid, name, flags, mode, gid) ==
    Message("Tlcreate", tag, PutU32(fid) \o PutString(name) \o PutU32(flags)
                                 \o PutU32(mode) \o PutU32(gid))
BuildTmkdir(tag, dfid, name, mode, gid) ==
    Message("Tmkdir", tag, PutU32(dfid) \o PutString(name) \o PutU32(mode)
                               \o PutU32(gid))
BuildTunlinkat(tag, dirfid, name, flags) ==
    Message("Tunlinkat", tag, PutU32(dirfid) \o PutString(name)
                                  \o PutU32(flags))
BuildTrenameat(tag, olddir, oldname, newdir, newname) ==
    Message("Trenameat", tag, PutU32(olddir) \o PutString(oldname)
                                  \o PutU32(newdir) \o PutString(newname))

\* The message that the session builds for a call.
Build(c) ==
    LET a == c.args IN
    CASE c.type = "Tversion"  -> BuildTversion(a[1], a[2])
      [] c.type = "Tattach"   -> BuildTattach(c.tag, a[1], a[2], a[3], a[4], a[5])
      [] c.type = "Twalk"     -> BuildTwalk(c.tag, a[1], a[2], a[3])
      [] c.type = "Tlopen"    -> BuildTlopen(c.tag, a[1], a[2])
      [] c.type = "Tread"     -> BuildTread(c.tag, a[1], a[2], a[3])
      [] c.type = "Tclunk"    -> BuildTclunk(c.tag, a[1])
      [] c.type = "Tgetattr"  -> BuildTgetattr(c.tag, a[1], a[2])
      [] c.type = "Treaddir"  -> BuildTreaddir(c.tag, a[1], a[2], a[3])
      [] c.type = "Twrite"    -> BuildTwrite(c.tag, a[1], a[2], a[3])
      [] c.type = "Tlcreate"  -> BuildTlcreate(c.tag, a[1], a[2], a[3], a[4], a[5])
      [] c.type = "Tmkdir"    -> BuildTmkdir(c.tag, a[1], a[2], a[3], a[4])
      [] c.type = "Tunlinkat" -> BuildTunlinkat(c.tag, a[1], a[2], a[3])
      [] c.type = "Trenameat" -> BuildTrenameat(c.tag, a[1], a[2], a[3], a[4])

-----------------------------------------------------------------------------
(* Decoder helpers: what a Get returns, and read_offset_ after it.  A Get  *)
(* that would read past the end returns 0 and leaves the offset alone;     *)
(* GetString has read its length by then.                                  *)

Got(off, val) == [off |-> off, val |-> val]

U16At(d, off) == d[off + 1] + B * d[off + 2]
U32At(d, off) == d[off + 1] + B * d[off + 2] + Two16 * d[off + 3]
                     + Two16 * B * d[off + 4]

GetU8(d, off) ==
    IF off >= Len(d) THEN Got(off, 0) ELSE Got(off + 1, d[off + 1])
GetU16(d, off) ==
    IF off + 2 > Len(d) THEN Got(off, 0) ELSE Got(off + 2, U16At(d, off))
\* (Mutant: half of the integer is taken when the rest is cut off.)
GetHalfU32(d, off) ==
    IF off + 2 > Len(d) THEN Got(off, 0)
    ELSE IF off + 4 > Len(d) THEN Got(off, U16At(d, off))
    ELSE Got(off + 4, U32At(d, off))
GetU32(d, off) ==
    IF off + 4 > Len(d) THEN Got(off, 0) ELSE Got(off + 4, U32At(d, off))
GetU64(d, off) == LET lo == GetU32(d, off)
                      hi == GetU32(d, lo.off)
                  IN  Got(hi.off, lo.val + Two32 * hi.val)
Take(d, off, n) ==
    IF off + n > Len(d) THEN Got(off, << >>)
    ELSE Got(off + n, SubSeq(d, off + 1, off + n))
GetString(d, off) == LET len == GetU16(d, off) IN Take(d, len.off, len.val)

\* read_offset_ + length is a uint32_t.  When it wraps the check is passed,
\* and what is read past the end is unspecified, as this SubSeq is.
GetBytes(d, off, n) ==
    IF (off + n) % Two32 > Len(d) THEN Got(off, << >>)
    ELSE Got((off + n) % Two32, SubSeq(d, off + 1, off + n))

\* (Mutant: the path of a qid is read as four bytes.)
GetShortQid(d, off) == LET type    == GetU8(d, off)
                           version == GetU32(d, type.off)
                           path    == GetU32(d, version.off)
                       IN  Got(path.off, <<type.val, version.val, path.val>>)
GetQid(d, off) == LET type    == GetU8(d, off)
                      version == GetU32(d, type.off)
                      path    == GetU64(d, version.off)
                  IN  Got(path.off, <<type.val, version.val, path.val>>)

Get(kind, d, off) ==
    CASE kind = "u32" -> GetU32(d, off)    [] kind = "u64" -> GetU64(d, off)
      [] kind = "s"   -> GetString(d, off) [] kind = "qid" -> GetQid(d, off)

\* The values of fields read one after the other.
Gets(kinds, d, off) ==
    LET read[n \in 0..Len(kinds)] ==
          IF n = 0 THEN Got(off, << >>)
          ELSE LET r == read[n - 1]
                   g == Get(kinds[n], d, r.off)
               IN  Got(g.off, Append(r.val, g.val))
    IN  read[Len(kinds)]

\* (Mutant: the type of a message too short for a header is looked at.)
GetTypeOfAny(d) == IF Len(d) < 5 THEN "Tlerror" ELSE d[5]
GetType(d) == IF Len(d) < kHeaderSize THEN "Tlerror" ELSE d[5]
GetTag(d)  == IF Len(d) < kHeaderSize THEN 0 ELSE U16At(d, 5)
GetSize(d) == IF Len(d) < 4 THEN 0 ELSE U32At(d, 0)

-----------------------------------------------------------------------------
(* Parsers.  The type is the one thing they check.                         *)

NotParsed == [ok |-> FALSE, vals |-> << >>]

ParseFields(d, type, kinds) ==
    IF GetType(d) # type THEN NotParsed
    ELSE [ok |-> TRUE, vals |-> Gets(kinds, d, kHeaderSize).val]

ParseRversion(d)  == ParseFields(d, "Rversion", <<"u32", "s">>)
ParseRattach(d)   == ParseFields(d, "Rattach", <<"qid">>)
ParseRlopen(d)    == ParseFields(d, "Rlopen", <<"qid", "u32">>)
ParseRclunk(d)    == ParseFields(d, "Rclunk", << >>)
ParseRwrite(d)    == ParseFields(d, "Rwrite", <<"u32">>)
ParseRlcreate(d)  == ParseFields(d, "Rlcreate", <<"qid", "u32">>)
ParseRmkdir(d)    == ParseFields(d, "Rmkdir", <<"qid">>)
ParseRunlinkat(d) == ParseFields(d, "Runlinkat", << >>)
ParseRrenameat(d) == ParseFields(d, "Rrenameat", << >>)

\* valid, qid, mode, uid, gid, and fifteen integers of eight bytes.
StatFields == <<"u64", "qid", "u32", "u32", "u32">> \o [i \in 1..15 |-> "u64"]
ParseRgetattr(d) == ParseFields(d, "Rgetattr", StatFields)

ParseRread(d) ==
    IF GetType(d) # "Rread" THEN NotParsed
    ELSE LET count == GetU32(d, kHeaderSize)
         IN  [ok |-> TRUE, vals |-> <<GetBytes(d, count.off, count.val).val>>]

ParseRwalk(d) ==
    IF GetType(d) # "Rwalk" THEN NotParsed
    ELSE LET nwqid == GetU16(d, kHeaderSize)
         IN  [ok |-> TRUE,
              vals |-> Gets([i \in 1..nwqid.val |-> "qid"], d, nwqid.off).val]

GetEntry(d, off) == LET qid    == GetQid(d, off)
                        offset == GetU64(d, qid.off)
                        type   == GetU8(d, offset.off)
                        name   == GetString(d, type.off)
                    IN  Got(name.off, <<qid.val, offset.val, type.val, name.val>>)

\* Bytes the loop of ParseRreaddir counts for an entry with this name.
EntrySize(name) == 24 + Len(name)

\* The loop takes an entry as long as it has counted fewer than count bytes.
\* An entry counts at least 24, so the loop turns at most count times.
Entries(d, off, count) ==
    LET turn[n \in 0..count] ==
          IF n = 0 THEN [off |-> off, consumed |-> 0, entries |-> << >>]
          ELSE LET r == turn[n - 1]
                   e == GetEntry(d, r.off)
               IN  IF r.consumed >= count THEN r
                   ELSE [off      |-> e.off,
                         consumed |-> r.consumed + EntrySize(e.val[4]),
                         entries  |-> Append(r.entries, e.val)]
    IN  turn[count].entries

ParseRreaddir(d) ==
    IF GetType(d) # "Rreaddir" THEN NotParsed
    ELSE LET count == GetU32(d, kHeaderSize)
         IN  [ok |-> TRUE, vals |-> Entries(d, count.off, count.val)]

Parse(type, d) ==
    CASE type = "Tversion"  -> ParseRversion(d)
      [] type = "Tattach"   -> ParseRattach(d)
      [] type = "Twalk"     -> ParseRwalk(d)
      [] type = "Tlopen"    -> ParseRlopen(d)
      [] type = "Tread"     -> ParseRread(d)
      [] type = "Tclunk"    -> ParseRclunk(d)
      [] type = "Tgetattr"  -> ParseRgetattr(d)
      [] type = "Treaddir"  -> ParseRreaddir(d)
      [] type = "Twrite"    -> ParseRwrite(d)
      [] type = "Tlcreate"  -> ParseRlcreate(d)
      [] type = "Tmkdir"    -> ParseRmkdir(d)
      [] type = "Tunlinkat" -> ParseRunlinkat(d)
      [] type = "Trenameat" -> ParseRrenameat(d)

\* IsRlerror: the error a reply carries, 0 when it carries none.
ErrorCode(d) == IF GetType(d) = "Rlerror" THEN GetU32(d, kHeaderSize).val ELSE 0
=============================================================================
