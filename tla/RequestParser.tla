---------------------------- MODULE RequestParser ----------------------------
(***************************************************************************)
(* server/request_parser: one request, a RESP array of bulk strings or an  *)
(* inline command.  The arguments are views: a start and a size in the     *)
(* input.                                                                  *)
(***************************************************************************)
EXTENDS Reply, FiniteSetsExt

CONSTANT kMaxCommandElements

Incomplete == [status |-> "incomplete", consumed |-> 0, args |-> <<>>]

Invalid == [status |-> "invalid", consumed |-> 0, args |-> <<>>]

Complete(consumed, args) ==
    [status |-> "complete", consumed |-> consumed, args |-> args]

ViewOf(start, end) == [start |-> start, size |-> end - start]

Crlfs(input, start) ==
    {i \in start..Len(input) - 2 : Slice(input, i, i + 2) = kCrlf}

(* The string at start once its header ends at the given position.         *)
BulkStringAfter(input, start, header) ==
    LET content == header + 2
        end == content + Decimal(Slice(input, start + 1, header))
    IN  IF ~IsDigits(Slice(input, start + 1, header)) THEN Invalid
        ELSE IF end + 2 > Len(input) THEN Incomplete
        ELSE IF Slice(input, end, end + 2) # kCrlf THEN Invalid
        ELSE Complete(end + 2 - start, <<ViewOf(content, end)>>)

ParseBulkString(input, start) ==
    IF start >= Len(input) THEN Incomplete
    ELSE IF At(input, start) # "$" THEN Invalid
    ELSE IF Crlfs(input, start + 1) = {} THEN Incomplete
    ELSE BulkStringAfter(input, start, Min(Crlfs(input, start + 1)))

ParseElement(input, before) ==
    IF before.status # "complete" THEN before
    ELSE LET element == ParseBulkString(input, before.consumed)
         IN  IF element.status # "complete" THEN element
             ELSE Complete(before.consumed + element.consumed,
                           before.args \o element.args)

RespAfter(input, header) ==
    LET count == Slice(input, 1, header)
    IN  IF ~IsDigits(count) \/ Decimal(count) \notin 1..kMaxCommandElements
        THEN Invalid
        ELSE FoldLeft(LAMBDA parsed, i : ParseElement(input, parsed),
                      Complete(header + 2, <<>>),
                      [i \in 1..Decimal(count) |-> i])

ParseResp(input) ==
    IF Crlfs(input, 1) = {} THEN Incomplete
    ELSE RespAfter(input, Min(Crlfs(input, 1)))

(* The words of the line, which ends before the position end.              *)
Words(input, end) ==
    LET spaces == {i \in 0..end - 1 : At(input, i) = " "} \cup {end}
        starts == {i \in (0..end) \ spaces : i = 0 \/ i - 1 \in spaces}
    IN  [k \in 1..Cardinality(starts) |->
            LET start == SetToSortSeq(starts, <)[k]
            IN  ViewOf(start, Min({i \in spaces : i > start}))]

ParseInline(input) ==
    LET newlines == {i \in 0..Len(input) - 1 : At(input, i) = "\n"}
        newline == Min(newlines)
        end == IF newline > 0 /\ At(input, newline - 1) = "\r"
               THEN newline - 1 ELSE newline
    IN  IF newlines = {} THEN Incomplete
        ELSE Complete(newline + 1, Words(input, end))

Parse(input) ==
    IF input = <<>> THEN Incomplete
    ELSE IF At(input, 0) = "*" THEN ParseResp(input) ELSE ParseInline(input)
=============================================================================
