------------------------------- MODULE ListPack -------------------------------
(***************************************************************************)
(* memory/listpack: a sequence of values in one block of bytes, the        *)
(* compact encoding of every data type.  An entry is its encoding byte, its*)
(* payload and its own length written backwards (the backlen), so that the *)
(* block can be walked from both ends.  Entries are named by byte offsets, *)
(* which every insertion and deletion shifts.                              *)
(*                                                                         *)
(* A value is a token.  The first byte of a string's entry carries the     *)
(* token and the other bytes of its payload nothing; integers are encoded  *)
(* to their bytes and decoded from them.  The header is the count num; the *)
(* total is the length of the block.  Left out: strings of 64 bytes and    *)
(* more and integers past 24 bits, whose encodings have longer headers of  *)
(* the same form, and the checks against blocks of 2^30 bytes and of 65535 *)
(* entries, which the limits of the data types exclude.                    *)
(*                                                                         *)
(* A lp is a value, and an operator returns the new one.  A name that a    *)
(* library module has takes an _ at its end.  Operators called             *)
(* Definition_Bug are the defects the properties are tried against.        *)
(***************************************************************************)
EXTENDS Integers, Sequences, SequencesExt, FiniteSetsExt

CONSTANTS Values,         \* the strings of the model
          AsInt,          \* those that are canonical integers, and their value
          Length,         \* std::string_view::size()
          kBacklenRadix   \* 128 in the code: seven bits to a backlen byte

kListPackHeaderSize == 6
NoIndex == -1
NoValue == "no value"
Byte(n) == [val |-> NoValue, n |-> n]
Eof == Byte(255)

Least(m, n) == IF m <= n THEN m ELSE n

-----------------------------------------------------------------------------
(* Entries.                                                                *)

k6BitString == 128
k13BitInteger == 192
k16BitInteger == 241
k24BitInteger == 242

(* Two's complement in the smallest of the forms.                          *)
EncodeInteger(v) ==
    CASE v \in 0..127 -> <<v>>
      [] v \in -4096..4095 -> LET u == v % 2^13 IN <<k13BitInteger + u \div 256, u % 256>>
      [] v \in -2^15..2^15 - 1 -> LET u == v % 2^16
                                  IN  <<k16BitInteger, u \div 256, u % 256>>
      [] OTHER -> LET u == v % 2^24
                  IN  <<k24BitInteger, u \div 2^16, (u \div 256) % 256, u % 256>>

EncodeString(val) ==
    <<[val |-> val, n |-> k6BitString + Length[val]]>>
    \o [i \in 1..Length[val] |-> Byte(0)]

Encoded(val) ==
    IF val \in DOMAIN AsInt
    THEN [i \in 1..Len(EncodeInteger(AsInt[val])) |-> Byte(EncodeInteger(AsInt[val])[i])]
    ELSE EncodeString(val)

BacklenBytes(backlen) ==
    CHOOSE k \in 1..5 : /\ k < 5 => backlen < kBacklenRadix ^ k
                        /\ k > 1 => backlen >= kBacklenRadix ^ (k - 1)

EntryBytes(backlen) == backlen + BacklenBytes(backlen)
EstimateEntryBytes(val) == EntryBytes(Len(Encoded(val)))

(* The low digit first and unmarked, the others marked by the top bit.     *)
EncodeBacklen(backlen) ==
    [i \in 1..BacklenBytes(backlen) |->
        Byte(((backlen \div kBacklenRadix ^ (i - 1)) % kBacklenRadix)
             + (IF i > 1 THEN kBacklenRadix ELSE 0))]

Entry(val) == Encoded(val) \o EncodeBacklen(Len(Encoded(val)))

-----------------------------------------------------------------------------
(* Walking.                                                                *)

NewListPack == [bytes |-> <<Eof>>, num |-> 0]

TotalBytes(lp) == kListPackHeaderSize + Len(lp.bytes)
Size(lp) == lp.num
At(lp, idx) == lp.bytes[idx - kListPackHeaderSize + 1]

IsString(lp, idx) == At(lp, idx).n \in k6BitString..k13BitInteger - 1

(* The length of an entry without its backlen, from the encoding byte n.   *)
EncodedLength(n) ==
    CASE n < k6BitString -> 1
      [] n \in k6BitString..k13BitInteger - 1 -> 1 + n - k6BitString
      [] n \in k13BitInteger..k13BitInteger + 31 -> 2
      [] n = k16BitInteger -> 3
      [] OTHER -> 4

Backlen(lp, idx) == EncodedLength(At(lp, idx).n)

Signed(u, bits) == IF u >= 2 ^ (bits - 1) THEN u - 2 ^ bits ELSE u

DecodeInteger(b) ==
    CASE Len(b) = 1 -> b[1]
      [] Len(b) = 2 -> Signed((b[1] - k13BitInteger) * 256 + b[2], 13)
      [] Len(b) = 3 -> Signed(b[2] * 256 + b[3], 16)
      [] OTHER -> Signed(b[2] * 2^16 + b[3] * 256 + b[4], 24)

IntegerAt(lp, idx) ==
    DecodeInteger(<<>> \o [i \in 1..Backlen(lp, idx) |-> At(lp, idx + i - 1).n])

(* The string of an integer; one that no token stands for is an error.     *)
Int64ToString(v) ==
    IF \E val \in DOMAIN AsInt : AsInt[val] = v
    THEN CHOOSE val \in DOMAIN AsInt : AsInt[val] = v ELSE "another integer"

Get(lp, idx) ==
    IF IsString(lp, idx) THEN At(lp, idx).val ELSE Int64ToString(IntegerAt(lp, idx))

Skip(lp, idx) ==
    IF At(lp, idx) = Eof THEN idx ELSE idx + EntryBytes(Backlen(lp, idx))

UnlessEof(lp, idx) == IF At(lp, idx) = Eof THEN NoIndex ELSE idx
Next(lp, idx) == UnlessEof(lp, Skip(lp, idx))

RECURSIVE DecodeBacklen(_, _, _)
DecodeBacklen(lp, idx, backlen) ==
    LET byte == At(lp, idx).n
        read == (backlen * kBacklenRadix) + (byte % kBacklenRadix)
    IN  IF byte < kBacklenRadix THEN read ELSE DecodeBacklen(lp, idx - 1, read)

Prev(lp, idx) ==
    IF idx = kListPackHeaderSize THEN NoIndex
    ELSE idx - EntryBytes(DecodeBacklen(lp, idx - 1, 0))

First(lp) == IF lp.bytes = <<Eof>> THEN NoIndex ELSE kListPackHeaderSize
Last_(lp) == IF lp.bytes = <<Eof>> THEN NoIndex ELSE Prev(lp, TotalBytes(lp) - 1)

RECURSIVE NextFrom(_, _), PrevFrom(_, _)
NextFrom(lp, idx) ==
    IF idx = NoIndex THEN <<>> ELSE <<idx>> \o NextFrom(lp, Next(lp, idx))
PrevFrom(lp, idx) ==
    IF idx = NoIndex THEN <<>> ELSE <<idx>> \o PrevFrom(lp, Prev(lp, idx))

(* The offsets a walk from the front and a walk from the back visit.       *)
Indices(lp) == NextFrom(lp, First(lp))
IndicesBack(lp) == PrevFrom(lp, Last_(lp))

ValuesAt(lp, indices) == <<>> \o [i \in 1..Len(indices) |-> Get(lp, indices[i])]
Elements(lp) == ValuesAt(lp, Indices(lp))

IndexIn(indices, index) == IF index < Len(indices) THEN indices[index + 1] ELSE NoIndex
IndexAt(lp, index) == IndexIn(Indices(lp), index)

(* start <= stop < Size(): the callers clamp stop as ForEach does.         *)
ForEach(lp, start, stop) == SubSeq(Elements(lp), start + 1, stop + 1)
ForEachReverse(lp, start, stop) ==
    LET back == ValuesAt(lp, PrevFrom(lp, IndexAt(lp, stop)))
    IN  SubSeq(back, 1, stop - start + 1)

(* The first match among every (skip + 1)th element.                       *)
Every(indices, step) ==
    [i \in 1..(Len(indices) + step - 1) \div step |-> indices[(i - 1) * step + 1]]

FindAndSkip(lp, val, skip) ==
    IndexIn(SelectSeq(Every(Indices(lp), skip + 1), LAMBDA idx : Get(lp, idx) = val), 0)

Find(lp, val) == FindAndSkip(lp, val, 0)

-----------------------------------------------------------------------------
(* Changing: memmove of the tail, then the entry.                          *)

Before(lp, idx) == SubSeq(lp.bytes, 1, idx - kListPackHeaderSize)
From(lp, idx) == SubSeq(lp.bytes, idx - kListPackHeaderSize + 1, Len(lp.bytes))

Insert(lp, idx, val) ==
    [bytes |-> Before(lp, idx) \o Entry(val) \o From(lp, idx), num |-> lp.num + 1]

Replace(lp, idx, val) ==
    [lp EXCEPT !.bytes = Before(lp, idx) \o Entry(val) \o From(lp, Skip(lp, idx))]

Append_(lp, val) == Insert(lp, TotalBytes(lp) - 1, val)
Prepend(lp, val) == Insert(lp, kListPackHeaderSize, val)

(* BatchAppend of vals, and the loops that append one by one.              *)
AppendAll(lp, vals) == FoldLeft(Append_, lp, vals)

SkipTimes(lp, idx, count) == FoldLeft(LAMBDA i, k : Skip(lp, i), idx, [k \in 1..count |-> k])

DeleteEntries(lp, idx, count) ==
    [bytes |-> Before(lp, idx) \o From(lp, SkipTimes(lp, idx, count)),
     num |-> lp.num - count]

DeleteRange(lp, idx, count) ==
    IF At(lp, idx) = Eof THEN lp
    ELSE DeleteEntries(lp, idx, Least(count, Len(NextFrom(lp, idx))))

Delete(lp, idx) == DeleteRange(lp, idx, 1)

(* From the last match to the first, so that no offset is stale.           *)
DeleteMatches(lp, matches) ==
    FoldLeft(LAMBDA l, idx : Delete(l, idx), lp, Reverse(matches))

Clip(seq, limit) == SubSeq(seq, 1, Least(limit, Len(seq)))

(* The offsets, in ascending order, of the first or last limit entries     *)
(* that hold val; 0 is no limit.                                           *)
Matches(lp, val, limit, from_tail) ==
    LET Is(idx) == Get(lp, idx) = val
    IN  IF limit = 0 THEN SelectSeq(Indices(lp), Is)
        ELSE IF from_tail THEN Reverse(Clip(SelectSeq(IndicesBack(lp), Is), limit))
        ELSE Clip(SelectSeq(Indices(lp), Is), limit)

Deletion(lp, matches) == [lp |-> DeleteMatches(lp, matches), count |-> Len(matches)]

DeleteMatching(lp, val, limit, from_tail) ==
    Deletion(lp, Matches(lp, val, limit, from_tail))

(* The block is well formed: a walk from the back visits what a walk from  *)
(* the front visits, and the header counts it.                             *)
WellFormed(lp) ==
    /\ Reverse(IndicesBack(lp)) = Indices(lp)
    /\ Len(Indices(lp)) = lp.num
    /\ Last(lp.bytes) = Eof
===============================================================================
