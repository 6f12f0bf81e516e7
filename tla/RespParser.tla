------------------------------ MODULE RespParser ------------------------------
(***************************************************************************)
(* cli/resp_parser: one reply, as the command line client reads it.  The   *)
(* result carries the rendered values; the values of an aggregate are      *)
(* followed by a line of its own.  Doubles are left out.                   *)
(***************************************************************************)
EXTENDS Reply, FiniteSetsExt

Result(status, consumed, values) ==
    [status |-> status, consumed |-> consumed, values |-> values]

Incomplete == Result("incomplete", 0, <<>>)
Invalid == Result("invalid", 0, <<>>)
Complete(consumed, values) == Result("complete", consumed, values)

kNilReply == <<"(nil)">>

(* The line ends at the first \r, which must be followed by \n.            *)
FindLineEnd(resp, start) ==
    LET ends == {i \in start..Len(resp) - 1 : At(resp, i) = "\r"}
    IN  IF ends = {} \/ Min(ends) + 1 >= Len(resp) THEN Incomplete
        ELSE IF At(resp, Min(ends) + 1) # "\n" THEN Invalid
        ELSE Complete(Min(ends), <<>>)

LineText(resp, start, line) == Slice(resp, start + 1, line.consumed)

LineSize(start, line) == line.consumed - start + 2

ParseLine(resp, start, line) ==
    Complete(LineSize(start, line), <<LineText(resp, start, line)>>)

ParseInteger(resp, start, line) ==
    LET text == LineText(resp, start, line)
        digits == IF text # <<>> /\ text[1] \in {"+", "-"} THEN Tail(text) ELSE text
    IN  IF ~IsDigits(digits) \/ (Len(digits) > 1 /\ digits[1] = "0") THEN Invalid
        ELSE Complete(LineSize(start, line),
                      <<IF text[1] = "+" \/ Decimal(digits) = 0 THEN digits ELSE text>>)

ParseNull(start, line) ==
    IF line.consumed # start + 1 THEN Invalid ELSE Complete(3, <<kNilReply>>)

ParseBulkString(resp, start, line) ==
    LET text == LineText(resp, start, line)
        content == line.consumed + 2
        end == content + Decimal(text) + 2
    IN  IF text = <<"-", "1">> THEN Complete(LineSize(start, line), <<kNilReply>>)
        ELSE IF ~IsDigits(text) THEN Invalid
        ELSE IF end > Len(resp) THEN Incomplete
        ELSE IF Slice(resp, end - 2, end) # kCrlf THEN Invalid
        ELSE Complete(end - start, <<Slice(resp, content, end - 2)>>)

RECURSIVE ParseAt(_, _)

ParseElement(resp, start, before) ==
    IF before.status # "complete" THEN before
    ELSE LET element == ParseAt(resp, start + before.consumed)
         IN  IF element.status # "complete" THEN element
             ELSE Complete(before.consumed + element.consumed,
                           before.values \o element.values)

ParseAggregate(resp, start, line, multiplier) ==
    LET length == LineText(resp, start, line)
        elements == FoldLeft(LAMBDA parsed, i : ParseElement(resp, start, parsed),
                             Complete(LineSize(start, line), <<>>),
                             [i \in 1..multiplier * Decimal(length) |-> i])
    IN  IF ~IsDigits(length) THEN Invalid
        ELSE IF elements.status # "complete" THEN elements
        ELSE Complete(elements.consumed, elements.values \o << <<"\n">> >>)

ParseAt(resp, start) ==
    IF start >= Len(resp) THEN Incomplete
    ELSE LET prefix == At(resp, start)
             line == FindLineEnd(resp, start + 1)
         IN  IF prefix \notin {"+", "-", "$", ":", "*", "%", "~", "_"} THEN Invalid
             ELSE IF line.status # "complete" THEN line
             ELSE CASE prefix \in {"+", "-"} -> ParseLine(resp, start, line)
                    [] prefix = "$" -> ParseBulkString(resp, start, line)
                    [] prefix = ":" -> ParseInteger(resp, start, line)
                    [] prefix \in {"*", "~"} -> ParseAggregate(resp, start, line, 1)
                    [] prefix = "%" -> ParseAggregate(resp, start, line, 2)
                    [] prefix = "_" -> ParseNull(start, line)

Parse(resp) == ParseAt(resp, 0)
=============================================================================
