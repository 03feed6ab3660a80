-------------------------------- MODULE Frames -------------------------------
(***************************************************************************)
(* The HTTP/2 frame layer (ners-proto-http/src/h2/frame.rs): frames are    *)
(* serialized to bytes, the bytes arrive one after the other, and          *)
(* Frame::parse, called whenever the reader likes, takes the frames off    *)
(* the buffer.                                                             *)
(*                                                                         *)
(* A byte is a number, a u32 the sequence of its four bytes.  A frame has  *)
(* the fields of its variant: type and stream_id (absent in SETTINGS, PING *)
(* and GOAWAY), the flags that are set, and of the rest what it carries.   *)
(***************************************************************************)
EXTENDS Integers, SequencesExt

CONSTANTS
    FramesSent,      \* the frames that are serialized
    RawSent,         \* bytes that serialize does not write: a header, a payload, and
                     \* what the frame means: [type, flags, stream_id, payload, means]
    MaxFrames        \* bound: frames in a row

VARIABLES
    sent,            \* the frames that were sent, with their sizes
    line,            \* bytes on their way
    buf,             \* bytes that have arrived and were not parsed
    parsed           \* what parse has returned, None apart

framesVars == <<sent, line, buf, parsed>>

Types == <<"DATA", "HEADERS", "PRIORITY", "RST_STREAM", "SETTINGS", "PUSH_PROMISE",
           "PING", "GOAWAY", "WINDOW_UPDATE", "CONTINUATION">>
TypeByte(type) == (CHOOSE i \in DOMAIN Types : Types[i] = type) - 1

HeaderSize == 9
Zero == <<0, 0, 0, 0>>

\* u & 0x7fffffff, and what it takes away.
Masked(u) == [u EXCEPT ![1] = @ % 128]
TopBit(u) == u[1] >= 128

\* END_STREAM and ACK are the same bit.
FlagBits == [END_STREAM |-> 1, ACK |-> 1, END_HEADERS |-> 4]
FlagByte(flags) ==
    (IF {"END_STREAM", "ACK"} \cap flags # {} THEN 1 ELSE 0)
      + (IF "END_HEADERS" \in flags THEN 4 ELSE 0)
FlagsIn(byte, known) == {f \in known : (byte \div FlagBits[f]) % 2 = 1}

\* The flags that each type has.  PADDED and PRIORITY are not among them: the padding of
\* a DATA frame stays in its data, and the five bytes of a priority in front of the header
\* block.
Known(type) ==
    CASE type = "DATA" -> {"END_STREAM"}
      [] type = "HEADERS" -> {"END_STREAM", "END_HEADERS"}
      [] type \in {"SETTINGS", "PING"} -> {"ACK"}
      [] type = "CONTINUATION" -> {"END_HEADERS"}
      [] OTHER -> {}

-----------------------------------------------------------------------------
(* The frames there are.  Only 31 bits of a stream id and of an increment are sent; *)
(* a setting is six bytes, its id and its value.                                *)

Byte == 0 .. 255
Number == [1 .. 4 -> Byte]
Number31 == {u \in Number : ~TopBit(u)}

Frame ==
    [type : {"DATA"}, flags : SUBSET {"END_STREAM"}, stream_id : Number31, data : Seq(Byte)]
    \cup [type : {"HEADERS"}, flags : SUBSET {"END_STREAM", "END_HEADERS"},
          stream_id : Number31, data : Seq(Byte)]
    \cup [type : {"CONTINUATION"}, flags : SUBSET {"END_HEADERS"},
          stream_id : Number31, data : Seq(Byte)]
    \cup [type : {"SETTINGS"}, flags : SUBSET {"ACK"}, settings : Seq([1 .. 6 -> Byte])]
    \cup [type : {"WINDOW_UPDATE"}, flags : {{}}, stream_id : Number31, increment : Number31]
    \cup [type : {"PING"}, flags : SUBSET {"ACK"}, data : [1 .. 8 -> Byte]]
    \cup [type : {"GOAWAY"}, flags : {{}}, last_stream_id : Number31,
          error_code : Number, data : Seq(Byte)]
    \cup [type : {"RST_STREAM"}, flags : {{}}, stream_id : Number31, error_code : Number]
    \cup [type : {"PRIORITY"}, flags : {{}}, stream_id : Number31, exclusive : BOOLEAN,
          dependency : Number31, weight : Byte]
    \cup [type : {"PUSH_PROMISE"}, flags : {{}}, stream_id : Number31,
          promised_stream_id : Number31, data : Seq(Byte)]

-----------------------------------------------------------------------------
(* Frame::serialize. *)

Payload(f) ==
    CASE f.type \in {"DATA", "HEADERS", "CONTINUATION"} -> f.data
      [] f.type = "SETTINGS" -> [i \in 1 .. 6 * Len(f.settings) |->
                                 f.settings[1 + (i - 1) \div 6][1 + ((i - 1) % 6)]]
      [] f.type = "WINDOW_UPDATE" -> Masked(f.increment)
      [] f.type = "PING" -> f.data
      [] f.type = "GOAWAY" -> Masked(f.last_stream_id) \o f.error_code \o f.data
      [] f.type = "RST_STREAM" -> f.error_code
      [] f.type = "PRIORITY" ->
           (IF f.exclusive THEN [f.dependency EXCEPT ![1] = (@ % 128) + 128]
                           ELSE f.dependency) \o <<f.weight>>
      [] f.type = "PUSH_PROMISE" -> Masked(f.promised_stream_id) \o f.data

Bytes(type, flags, stream_id, payload) ==
    LET n == Len(payload)
    IN  <<(n \div 65536) % 256, (n \div 256) % 256, n % 256, type, flags>> \o stream_id \o payload

Serialized(f) ==
    Bytes(TypeByte(f.type), FlagByte(f.flags),
          IF f.type \in {"SETTINGS", "PING", "GOAWAY"} THEN Zero ELSE f.stream_id,
          Payload(f))

-----------------------------------------------------------------------------
(* Frame::parse. *)

\* The shortest payload of each type.
Least(type) ==
    CASE type \in {"WINDOW_UPDATE", "RST_STREAM", "PUSH_PROMISE"} -> 4
      [] type = "PRIORITY" -> 5
      [] type \in {"PING", "GOAWAY"} -> 8
      [] OTHER -> 0

Word(p, i) == SubSeq(p, i, i + 3)
From(p, i) == SubSeq(p, i, Len(p))

\* The frame of a payload that is long enough; what is too long for a type without
\* variable part, and a rest of SETTINGS shorter than a setting, are left out.
FrameOf(type, byte, stream_id, p) ==
    LET flags == FlagsIn(byte, Known(type))
    IN  CASE type \in {"DATA", "HEADERS", "CONTINUATION"} ->
               [type |-> type, flags |-> flags, stream_id |-> stream_id, data |-> p]
          [] type = "SETTINGS" ->
               [type |-> type, flags |-> flags,
                settings |-> [i \in 1 .. Len(p) \div 6 |-> SubSeq(p, 6 * i - 5, 6 * i)]]
          [] type = "WINDOW_UPDATE" ->
               [type |-> type, flags |-> flags, stream_id |-> stream_id,
                increment |-> Masked(Word(p, 1))]
          [] type = "PING" -> [type |-> type, flags |-> flags, data |-> SubSeq(p, 1, 8)]
          [] type = "GOAWAY" ->
               [type |-> type, flags |-> flags, last_stream_id |-> Masked(Word(p, 1)),
                error_code |-> Word(p, 5), data |-> From(p, 9)]
          [] type = "RST_STREAM" ->
               [type |-> type, flags |-> flags, stream_id |-> stream_id,
                error_code |-> Word(p, 1)]
          [] type = "PRIORITY" ->
               [type |-> type, flags |-> flags, stream_id |-> stream_id,
                exclusive |-> TopBit(Word(p, 1)), dependency |-> Masked(Word(p, 1)),
                weight |-> p[5]]
          [] type = "PUSH_PROMISE" ->
               [type |-> type, flags |-> flags, stream_id |-> stream_id,
                promised_stream_id |-> Masked(Word(p, 1)), data |-> From(p, 5)]

\* Mutant of Length: the bytes of the length in the wrong order.
LengthLittleEndian(b) == b[1] + 256 * b[2] + 65536 * b[3]
Length(b) == 65536 * b[1] + 256 * b[2] + b[3]

HasHeader(b) == Len(b) >= HeaderSize
IsKnown(b) == b[4] < Len(Types)
HasFrame(b) == Len(b) >= HeaderSize + Length(b)

InvalidFrameType == [error |-> "InvalidFrameType"]
FrameTooShort == [error |-> "FrameTooShort"]

\* What the fields of a header and a payload mean.
FrameMeant(type, byte, stream_id, p) ==
    IF Len(p) < Least(type) THEN FrameTooShort
    ELSE FrameOf(type, byte, Masked(stream_id), p)

\* The frame at the head of the buffer, which parse takes off also if it is too short.
FrameIn(b) ==
    FrameMeant(Types[b[4] + 1], b[5], Word(b, 6),
          SubSeq(b, HeaderSize + 1, HeaderSize + Length(b)))

\* An unknown type is an error that leaves the buffer alone, so that every further
\* call returns it again; the first time is recorded.
ParseUnknown ==
    /\ HasHeader(buf) /\ ~IsKnown(buf)
    /\ parsed # <<>> => Last(parsed) # InvalidFrameType
    /\ parsed' = Append(parsed, InvalidFrameType)
    /\ UNCHANGED <<sent, line, buf>>

\* Mutant of ParseFrame: a payload that is too short is reported before it is taken.
ParseFrameInPlace ==
    /\ HasHeader(buf) /\ IsKnown(buf) /\ HasFrame(buf)
    /\ parsed' = Append(parsed, FrameIn(buf))
    /\ buf' = IF FrameIn(buf) = FrameTooShort THEN buf
              ELSE From(buf, HeaderSize + Length(buf) + 1)
    /\ UNCHANGED <<sent, line>>

\* With less than a frame parse returns None and changes nothing.
ParseFrame ==
    /\ HasHeader(buf) /\ IsKnown(buf) /\ HasFrame(buf)
    /\ parsed' = Append(parsed, FrameIn(buf))
    /\ buf' = From(buf, HeaderSize + Length(buf) + 1)
    /\ UNCHANGED <<sent, line>>

-----------------------------------------------------------------------------
(* What is sent: frames that fit into the 24 bits of a length, and other bytes with *)
(* what the format says of them.                                               *)

MaxLength == 16777215

ASSUME FramesAssumption ==
    /\ MaxFrames \in Nat
    /\ FramesSent \subseteq Frame
    /\ \A f \in FramesSent : Len(Payload(f)) <= MaxLength
    /\ \A f \in RawSent :
         /\ f.type \in Byte /\ f.flags \in Byte
         /\ f.stream_id \in Number /\ f.payload \in Seq(Byte) /\ Len(f.payload) <= MaxLength
         /\ f.means = IF f.type >= Len(Types) THEN InvalidFrameType
                      ELSE FrameMeant(Types[f.type + 1], f.flags, f.stream_id, f.payload)

FramesInit ==
    /\ sent = <<>> /\ line = <<>> /\ buf = <<>> /\ parsed = <<>>

Send(meaning, bytes) ==
    /\ Len(sent) < MaxFrames
    /\ sent' = Append(sent, [means |-> meaning, size |-> Len(bytes)])
    /\ line' = line \o bytes
    /\ UNCHANGED <<buf, parsed>>

SendFrame(f) == Send(f, Serialized(f))

SendRaw(f) == Send(f.means, Bytes(f.type, f.flags, f.stream_id, f.payload))

Arrive ==
    /\ line # <<>>
    /\ buf' = Append(buf, Head(line))
    /\ line' = Tail(line)
    /\ UNCHANGED <<sent, parsed>>

FramesNext ==
    \/ \E f \in FramesSent : SendFrame(f)
    \/ \E f \in RawSent : SendRaw(f)
    \/ Arrive
    \/ ParseUnknown
    \/ ParseFrame

FramesSpec == FramesInit /\ [][FramesNext]_framesVars

-----------------------------------------------------------------------------
\* The frames before the first of an unknown type, and that one.
Readable ==
    {i \in DOMAIN sent : \A j \in 1 .. i - 1 : sent[j].means # InvalidFrameType}

\* However the bytes arrive, parse returns the frames that were sent, each once, in
\* order and with all of their fields, as soon as all of their bytes are there;
\* a payload that is too short is reported and the frames after it are found; an unknown
\* type is reported and nothing after it is (frame.rs lines 153-299 against 302-374).
FramesArrive ==
    LET n == Len(parsed)
    IN  /\ DOMAIN parsed \subseteq Readable
        /\ \A i \in 1 .. n : parsed[i] = sent[i].means
        /\ n + 1 \in Readable /\ Len(buf) >= sent[n + 1].size =>
             HasHeader(buf) /\ (IsKnown(buf) => HasFrame(buf))
=============================================================================
