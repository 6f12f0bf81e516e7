-------------------------------- MODULE IntSet --------------------------------
(***************************************************************************)
(* memory/intset: a sorted array of integers of one width, the smallest    *)
(* that holds every integer ever added.  An is is a record of the width    *)
(* and of the array; a write keeps the low bits of the width.              *)
(***************************************************************************)
EXTENDS Integers, Sequences, SequencesExt

CONSTANTS kInt16, kInt32, kInt64   \* bits of the widths: 16, 32 and 64

NoInteger == "out of range"

NewIntSet == [contents |-> <<>>, encoding |-> kInt16]

Fits(value, bits) == -(2 ^ (bits - 1)) <= value /\ value < 2 ^ (bits - 1)

ValueEncoding_Unsigned(value) ==
    CASE value < 2 ^ kInt16 -> kInt16 [] value < 2 ^ kInt32 -> kInt32 [] OTHER -> kInt64

ValueEncoding(value) ==
    CASE Fits(value, kInt16) -> kInt16
      [] Fits(value, kInt32) -> kInt32
      [] OTHER -> kInt64

(* static_cast to the width, and back.                                     *)
Stored(value, bits) ==
    LET u == value % 2 ^ bits IN IF u < 2 ^ (bits - 1) THEN u ELSE u - 2 ^ bits

Size(is) == Len(is.contents)

(* EncodedValue throws std::out_of_range past the end; Max() and Min() of  *)
(* an empty IntSet do.                                                     *)
Throws(is) == Size(is) = 0

(* The binary search: the index of value, or where it would go.            *)
RECURSIVE Bisect(_, _, _, _)
Bisect(is, value, min_idx, max_idx) ==
    LET mid == min_idx + (max_idx - min_idx) \div 2
        val == is.contents[mid + 1]
    IN  IF min_idx >= max_idx THEN [found |-> FALSE, index |-> min_idx]
        ELSE IF val = value THEN [found |-> TRUE, index |-> mid]
        ELSE IF val < value THEN Bisect(is, value, mid + 1, max_idx)
        ELSE Bisect(is, value, min_idx, mid)

Search(is, value) ==
    IF Size(is) > 0 /\ value < Head(is.contents) THEN [found |-> FALSE, index |-> 0]
    ELSE IF Size(is) > 0 /\ value > Last(is.contents)
    THEN [found |-> FALSE, index |-> Size(is)]
    ELSE Bisect(is, value, 0, Size(is))

(* A value wider than all the others is below or above them all.           *)
UpgradeAndAdd(is, value) ==
    LET bits == ValueEncoding(value)
        stored == Stored(value, bits)
    IN  [contents |-> IF value < 0 THEN <<stored>> \o is.contents
                      ELSE Append(is.contents, stored),
         encoding |-> bits]

Add(is, value) ==
    LET search == Search(is, value)
    IN  IF ValueEncoding(value) > is.encoding
        THEN [is |-> UpgradeAndAdd(is, value), added |-> TRUE]
        ELSE IF search.found THEN [is |-> is, added |-> FALSE]
        ELSE [is |-> [is EXCEPT !.contents =
                         InsertAt(@, search.index + 1, Stored(value, is.encoding))],
              added |-> TRUE]

Find(is, value) == ValueEncoding(value) <= is.encoding /\ Search(is, value).found

Remove_(is, value) ==
    LET search == Search(is, value)
    IN  IF ~search.found THEN [is |-> is, removed |-> FALSE]
        ELSE [is |-> [is EXCEPT !.contents = RemoveAt(@, search.index + 1)],
              removed |-> TRUE]
===============================================================================
