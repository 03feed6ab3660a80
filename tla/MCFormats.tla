------------------------------ MODULE MCFormats ------------------------------
(***************************************************************************)
(* What is written to a connection and read from it: Hpack, Frames and     *)
(* HttpParser.  The three share no state; a behaviour is one of one of     *)
(* them, chosen at the start.  Hpack has two parts: in one all strings are  *)
(* legible, in the other a block has one field, the client writes strings   *)
(* as it likes, and there is a value that is not UTF-8.                    *)
(***************************************************************************)
EXTENDS Hpack, Frames, HttpParser

\* Names, values, their Huffman codes, a value that is not UTF-8, and what some of these
\* are read as.
Names == {"method", "referer", "custom"}
Values == {"GET", "POST", "a", "long"}
Code(string) == string \o "*"
Codes == {Code(string) : string \in Names \cup Values}
MCStrings == Names \cup Values \cup Codes \cup {"", "octets", "replaced"}
MCOctets ==
    [s \in MCStrings |-> CASE s \in Names -> 968
                           [] s \in {"GET", "POST", "octets"} -> 1000
                           [] s = "a" -> 127
                           [] s \in {"long", "replaced"} -> 2000
                           [] s \in Codes -> 700
                           [] s = "" -> 0]
MCHuffman == [s \in MCStrings |-> IF s \in Names \cup Values THEN Code(s) ELSE s]
MCLossy ==
    [s \in MCStrings |-> IF s \in {"octets", Code("long")} THEN "replaced" ELSE s]

\* Fields that the static table has, has under another value, has as a name only, and
\* does not have.
MCTextHeaders == {<<"method", "GET">>, <<"method", "POST">>, <<"referer", "a">>,
                  <<"custom", "long">>}

\* One of them with a value that is not UTF-8.
MCOctetHeaders == {<<"method", "GET">>, <<"referer", "octets">>, <<"custom", "long">>}

MCHeaders == MCTextHeaders \cup MCOctetHeaders
\* Frames of every type: flags on and off, numbers of 31 and 32 bits, payloads that are
\* empty, and one longer than 255.
Id(n) == <<0, 0, 1, n>>
Max31 == <<127, 255, 255, 255>>
MCFrames ==
    {[type |-> "DATA", flags |-> {"END_STREAM"}, stream_id |-> Max31,
      data |-> [i \in 1 .. 259 |-> i % 256]],
     [type |-> "DATA", flags |-> {}, stream_id |-> Id(1), data |-> <<>>],
     [type |-> "HEADERS", flags |-> {"END_STREAM", "END_HEADERS"}, stream_id |-> Id(3),
      data |-> <<0, 0, 1>>],
     [type |-> "CONTINUATION", flags |-> {"END_HEADERS"}, stream_id |-> Id(3), data |-> <<7>>],
     [type |-> "SETTINGS", flags |-> {"ACK"}, settings |-> <<>>],
     [type |-> "SETTINGS", flags |-> {},
      settings |-> << <<0, 4, 0, 0, 255, 255>>, <<0, 1, 0, 0, 0, 0>> >>],
     [type |-> "WINDOW_UPDATE", flags |-> {}, stream_id |-> Zero, increment |-> Max31],
     [type |-> "PING", flags |-> {"ACK"}, data |-> <<1, 2, 3, 4, 5, 6, 7, 8>>],
     [type |-> "GOAWAY", flags |-> {}, last_stream_id |-> Id(5),
      error_code |-> <<255, 0, 0, 2>>, data |-> <<9>>],
     [type |-> "RST_STREAM", flags |-> {}, stream_id |-> Id(1), error_code |-> <<255, 0, 0, 8>>],
     [type |-> "PRIORITY", flags |-> {}, stream_id |-> Id(5), exclusive |-> TRUE,
      dependency |-> Id(3), weight |-> 255],
     [type |-> "PRIORITY", flags |-> {}, stream_id |-> Id(5), exclusive |-> FALSE,
      dependency |-> Max31, weight |-> 0],
     [type |-> "PUSH_PROMISE", flags |-> {}, stream_id |-> Id(1),
      promised_stream_id |-> Id(2), data |-> <<3>>]}

\* An unknown type, a payload that is too short, and reserved bits that are set.
MCRaw ==
    {[type |-> 10, flags |-> 0, stream_id |-> Zero, payload |-> <<>>,
      means |-> InvalidFrameType],
     [type |-> 8, flags |-> 0, stream_id |-> Id(1), payload |-> <<0, 0, 1>>,
      means |-> FrameTooShort],
     [type |-> 0, flags |-> 71, stream_id |-> <<128, 0, 0, 1>>, payload |-> <<5>>,
      means |-> [type |-> "DATA", flags |-> {"END_STREAM"}, stream_id |-> <<0, 0, 0, 1>>,
                 data |-> <<5>>]]}

Request(words, fields, body) == [words |-> words, fields |-> fields, body |-> body]
Words == << <<"G">>, <<"/">>, <<"V">> >>
Host == << <<"H">>, <<"x">> >>

\* Bodies that look like the end of headers or have a character of two bytes, lengths
\* that are given twice, have a sign, a zero in front or two digits, are no number or
\* none of a usize, request lines that are too long or too short, and no header fields.
MCRequests ==
    {Request(Words, <<Host>>, <<>>),
     Request(Words, <<Host, << <<"C">>, <<"+", "2">> >> >>, CRLF),
     Request(Words,
             << << <<"c">>, <<"1">> >>, << <<"C">>, <<"0", "3">> >>,
                << <<"h">>, <<"lead", "cont", ":", "x">> >> >>, <<"lead", "cont", "x">>),
     Request(Words, << << <<"c", " ">>, <<"0">> >>, Host>>, <<>>),
     Request(Words, << << <<"c">>, <<"x">> >>, << <<"x">>, <<>> >> >>, <<>>),
     Request(Words, << << <<"c">>, <<"2", "5", "6">> >> >>, <<>>),
     Request(Words, << << <<"c">>, <<"1", "2">> >> >>, CRLF \o CRLF \o [i \in 1 .. 8 |-> "x"]),
     Request(Words \o << <<"y">> >>, << << <<"c">>, <<"1">> >> >>, <<"x">>),
     Request(Tail(Words), <<Host, << <<"c">>, <<"2">> >> >>, <<"x", "y">>),
     Request(Words, <<>>, <<>>)}

VARIABLE part    \* the part whose behaviour this is

allVars == <<vars, framesVars, parserVars, part>>

MCInit ==
    /\ part \in {"hpack", "coded", "frames", "parser"}
    /\ Init /\ FramesInit /\ ParserInit
    /\ part # "hpack" => encoder = EmptyTable(DecoderSize) /\ ~library

InPart ==
    IF part = "hpack" THEN legible
    ELSE block.fields = <<>> \/ block.fields \in [1 .. 1 -> MCOctetHeaders]

MCNext ==
    /\ UNCHANGED part
    /\ \/ /\ part \in {"hpack", "coded"}
          /\ Next /\ InPart'
          /\ UNCHANGED <<framesVars, parserVars>>
       \/ part = "frames" /\ FramesNext /\ UNCHANGED <<vars, parserVars>>
       \/ part = "parser" /\ ParserNext /\ UNCHANGED <<vars, framesVars>>

MCSpec == MCInit /\ [][MCNext]_allVars
=============================================================================
