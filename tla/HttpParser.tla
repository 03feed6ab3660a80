------------------------------ MODULE HttpParser -----------------------------
(***************************************************************************)
(* HTTP/1.1 requests (ners-proto-http/src/parser.rs): clients write one    *)
(* request after the other, the bytes arrive one by one in the read buffer *)
(* of the connection, and HttpParser::parse may be called at any moment.   *)
(* It is a function of the buffer and changes nothing.                     *)
(*                                                                         *)
(* A byte is a string.  The words of the protocol have one letter: "c" is  *)
(* content-length.  A character of two bytes is "lead" and "cont".         *)
(***************************************************************************)
EXTENDS Integers, SequencesExt, Selection

CONSTANTS
    Requests,        \* [words, fields, body]: words of the request line, fields <<key, value>>
    UsizeMax,        \* the largest usize
    MaxRequests      \* bound: requests in a row

VARIABLES
    asked,           \* the requests that were written
    coming,          \* bytes on their way
    read_buf         \* bytes that have arrived

parserVars == <<asked, coming, read_buf>>

CRLF == <<"CR", "LF">>
Blank == {" ", "CR", "LF"}
Numerals == <<"0", "1", "2", "3", "4", "5", "6", "7", "8", "9">>
Digits == [d \in ToSet(Numerals) |-> (CHOOSE n \in DOMAIN Numerals : Numerals[n] = d) - 1]
Lowered(word) ==
    [i \in DOMAIN word |-> CASE word[i] = "C" -> "c" [] word[i] = "H" -> "h"
                             [] OTHER -> word[i]]

\* Sequences one after the other.
Joined(parts) ==
    LET upto[n \in 0 .. Len(parts)] == IF n = 0 THEN <<>> ELSE upto[n - 1] \o parts[n]
    IN  upto[Len(parts)]

\* What a client writes for a request.
RequestLine(words) ==
    Joined([i \in DOMAIN words |-> IF i = 1 THEN words[i] ELSE <<" ">> \o words[i]])
FieldLine(field) == field[1] \o <<":", " ">> \o field[2]
FieldLines(fields) == Joined([i \in DOMAIN fields |-> FieldLine(fields[i]) \o CRLF])

Text(r) == RequestLine(r.words) \o CRLF \o FieldLines(r.fields) \o CRLF \o r.body

-----------------------------------------------------------------------------
(* What parse does with text. *)

\* str::from_utf8: every character is whole.
Utf8(s) ==
    \A i \in DOMAIN s :
      /\ s[i] = "lead" => i < Len(s) /\ s[i + 1] = "cont"
      /\ s[i] = "cont" => i > 1 /\ s[i - 1] = "lead"

\* str::find: where the pattern is in the text.
Occurrences(pattern, s) ==
    {i \in 1 .. Len(s) - Len(pattern) + 1 : SubSeq(s, i, i + Len(pattern) - 1) = pattern}

\* The pieces of a text between bytes of a set.
Split(s, separators) ==
    LET cut[n \in 0 .. Len(s)] ==
          IF n = 0 THEN << <<>> >>
          ELSE IF s[n] \in separators THEN Append(cut[n - 1], <<>>)
          ELSE Append(Front(cut[n - 1]), Append(Last(cut[n - 1]), s[n]))
    IN  cut[Len(s)]

SplitWhitespace(s) == Members(Split(s, Blank), ToSet(Split(s, Blank)) \ {<<>>})

Trimmed(s) ==
    LET solid == {i \in DOMAIN s : s[i] \notin Blank}
    IN  IF solid = {} THEN <<>> ELSE SubSeq(s, Min(solid), Max(solid))

\* A header field is put into the map; a line without a colon is not one.
Colon(l) == Min({i \in DOMAIN l : l[i] = ":"})
Inserted(headers, l) ==
    LET name == Lowered(Trimmed(SubSeq(l, 1, Colon(l) - 1)))
    IN  IF ":" \notin ToSet(l) THEN headers
        ELSE [key \in DOMAIN headers \cup {name} |->
                IF key = name THEN Trimmed(SubSeq(l, Colon(l) + 1, Len(l))) ELSE headers[key]]

\* The map of the fields on some lines: of a key the last value.
HeadersOn(lines) ==
    LET upto[n \in 0 .. Len(lines)] ==
          IF n = 0 THEN [key \in {} |-> <<>>] ELSE Inserted(upto[n - 1], lines[n])
    IN  upto[Len(lines)]

HeadersIn(s) == HeadersOn(Split(s, {"LF"}))

Decimal(s) ==
    LET upto[n \in 0 .. Len(s)] == IF n = 0 THEN 0 ELSE 10 * upto[n - 1] + Digits[s[n]]
    IN  upto[Len(s)]

\* No field, or one that is no number, or none of a usize, is 0; a plus sign is allowed.
ContentLength(headers) ==
    LET value == headers[<<"c">>]
        digits == IF value # <<>> /\ Head(value) = "+" THEN Tail(value) ELSE value
    IN  IF /\ <<"c">> \in DOMAIN headers
           /\ digits # <<>> /\ ToSet(digits) \subseteq DOMAIN Digits
           /\ Decimal(digits) <= UsizeMax
        THEN Decimal(digits) ELSE 0

Incomplete == [kind |-> "Incomplete"]
Invalid == [kind |-> "Invalid"]

\* Mutant of Body: the body is what has arrived of it.
BodySoFar(b, start, length) ==
    [body |-> SubSeq(b, start, Min({Len(b), start + length - 1})),
     consumed |-> start + length - 1]

\* The body and the bytes consumed, once the body is complete.
Body(b, start, length) ==
    IF Len(b) < start + length - 1 THEN Incomplete
    ELSE [body |-> SubSeq(b, start, start + length - 1), consumed |-> start + length - 1]

\* Mutant of Parse: it looks for the last end of headers.
ParseLast(b) ==
    LET ends == Occurrences(CRLF \o CRLF, b)
        data == SubSeq(b, 1, Max(ends) - 1)
        eol == Min(Occurrences(CRLF, data))
        parts == SplitWhitespace(SubSeq(data, 1, eol - 1))
        headers == HeadersIn(SubSeq(data, eol + 2, Len(data)))
        body == Body(b, Max(ends) + 4, ContentLength(headers))
    IN  IF ~Utf8(b) THEN Invalid
        ELSE IF ends = {} \/ Occurrences(CRLF, data) = {} THEN Incomplete
        ELSE IF Len(parts) < 3 THEN Invalid
        ELSE IF body = Incomplete THEN Incomplete
        ELSE [kind |-> "Ok", words |-> SubSeq(parts, 1, 3), headers |-> headers,
              body |-> body.body, consumed |-> body.consumed]

Parse(b) ==
    LET ends == Occurrences(CRLF \o CRLF, b)
        data == SubSeq(b, 1, Min(ends) - 1)
        eol == Min(Occurrences(CRLF, data))
        parts == SplitWhitespace(SubSeq(data, 1, eol - 1))
        headers == HeadersIn(SubSeq(data, eol + 2, Len(data)))
        body == Body(b, Min(ends) + 4, ContentLength(headers))
    IN  IF ~Utf8(b) THEN Invalid
        ELSE IF ends = {} \/ Occurrences(CRLF, data) = {} THEN Incomplete
        ELSE IF Len(parts) < 3 THEN Invalid
        ELSE IF body = Incomplete THEN Incomplete
        ELSE [kind |-> "Ok", words |-> SubSeq(parts, 1, 3), headers |-> headers,
              body |-> body.body, consumed |-> body.consumed]

-----------------------------------------------------------------------------
(* What clients write: no word, key or value has the bytes that end it, a value begins *)
(* and ends as it will be trimmed, the body is as long as the fields say, all of it is *)
(* UTF-8, and a usize can count it, so that the sum of lines 84-85 does not overflow.  *)

\* The map that is meant: of every key the last value.
Key(field) == Lowered(Trimmed(field[1]))
Fields(fields) ==
    [key \in {Key(fields[i]) : i \in DOMAIN fields} |->
       fields[Max({i \in DOMAIN fields : Key(fields[i]) = key})][2]]

Lacking(bytes) == {s \in Seq(STRING) : \A i \in DOMAIN s : s[i] \notin bytes}
Token == Lacking(Blank) \ {<<>>}
Value ==
    {s \in Lacking({"CR", "LF"}) : s = <<>> \/ (Head(s) \notin Blank /\ Last(s) \notin Blank)}

WellWritten(r) ==
    /\ r.words \in Seq(Token)
    /\ r.fields \in Seq(Lacking({":", "CR", "LF"}) \X Value)
    /\ r.body \in Seq(STRING)
    /\ Utf8(Text(r))
    /\ ContentLength(Fields(r.fields)) = Len(r.body)
    /\ Len(Text(r)) <= UsizeMax

ASSUME ParserAssumption ==
    /\ UsizeMax \in Nat /\ MaxRequests \in Nat
    /\ \A r \in Requests : WellWritten(r)

-----------------------------------------------------------------------------
ParserInit == asked = <<>> /\ coming = <<>> /\ read_buf = <<>>

WriteRequest(r) ==
    /\ Len(asked) < MaxRequests
    /\ asked' = Append(asked, r)
    /\ coming' = coming \o Text(r)
    /\ UNCHANGED read_buf

Receive ==
    /\ coming # <<>>
    /\ read_buf' = Append(read_buf, Head(coming))
    /\ coming' = Tail(coming)
    /\ UNCHANGED asked

ParserNext == (\E r \in Requests : WriteRequest(r)) \/ Receive

ParserSpec == ParserInit /\ [][ParserNext]_parserVars

-----------------------------------------------------------------------------
\* What parse is to return for a request that has arrived: the request line as it was
\* written, of every key the last value, the body, and the length of the request.
Meant(r) ==
    IF Len(r.words) < 3 THEN Invalid
    ELSE [kind |-> "Ok", words |-> SubSeq(r.words, 1, 3), headers |-> Fields(r.fields),
          body |-> r.body, consumed |-> Len(Text(r))]

HeadLength(r) == Len(Text(r)) - Len(r.body)

\* The first request of a connection is parsed as soon as all of it is there and not
\* before, it is parsed to what the client wrote, and what arrives after it changes
\* neither it nor the count of its bytes; a request line of too few words is found out at
\* the end of the headers.  Only a buffer that ends within a character is Invalid for
\* the time being, also when the first request is complete.  The requests are UTF-8 from
\* end to end: one whose body is not is Invalid for ever, as line 49 looks at the whole
\* buffer.  Those without header fields are left out: they are Incomplete for ever, as
\* line 56 looks for a line end that line 53 has cut off.  (parser.rs lines 48-108)
RequestsArrive ==
    asked # <<>> /\ Head(asked).fields # <<>> =>
      Parse(read_buf) =
        IF read_buf # <<>> /\ Last(read_buf) = "lead" THEN Invalid
        ELSE IF Len(read_buf) < HeadLength(Head(asked)) THEN Incomplete
        ELSE IF Len(read_buf) < Len(Text(Head(asked))) /\ Meant(Head(asked)) # Invalid
             THEN Incomplete
        ELSE Meant(Head(asked))
=============================================================================
