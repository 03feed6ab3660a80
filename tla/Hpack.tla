-------------------------------- MODULE Hpack --------------------------------
(***************************************************************************)
(* Header compression (ners-proto-http/src/h2/hpack.rs) in one direction of *)
(* a connection: an encoder, the blocks on their way, and the decoder.      *)
(*                                                                         *)
(* The encoder is either the library's, which writes into its dynamic table *)
(* and never reads it, or that of a conforming client, which may use every  *)
(* representation that the format has.  The library's table and the one at  *)
(* the other end may have different sizes: H2Connection gives the encoder   *)
(* its own header_table_size and never looks at the client's (connection.rs *)
(* lines 75 and 130).                                                      *)
(*                                                                         *)
(* A name or a value is a string of octets.  Written into a block it has a  *)
(* flag, its length and its octets, or those of its Huffman code: the client *)
(* chooses for every string.  The library's encoder writes no Huffman codes, *)
(* and its decoder takes them for text.  The octets themselves stay         *)
(* abstract; lengths, indices and sizes are coded to bytes as the format has *)
(* it.  A block comes in one frame.                                         *)
(***************************************************************************)
EXTENDS Integers, SequencesExt

CONSTANTS
    Strings,         \* strings of octets
    Octets,          \* their lengths
    Huffman,         \* the octets of a string's Huffman code
    Lossy,           \* the text that String::from_utf8_lossy reads in a string of octets
    Headers,         \* the fields that are sent
    Codings,         \* what the client's encoder uses of "raw" and "huffman"
    DecoderSize,     \* the decoder's max_size at the start
    EncoderSizes,    \* max_size of the library's encoder, one of these
    PeerSizes,       \* table sizes that the client's encoder may change to
    MaxFields,       \* bound: fields in a block
    MaxQueue         \* bound: blocks on their way before the next one is begun

\* A field has a name and a value.
HeaderFields == Strings \X Strings

\* Three of the 61 fields of the static table, two of which share their name.
Static ==
    [i \in {2, 3, 51} |-> CASE i = 2 -> <<"method", "GET">>
                            [] i = 3 -> <<"method", "POST">>
                            [] i = 51 -> <<"referer", "">>]
StaticSize == 61

ASSUME HpackAssumption ==
    /\ Octets \in [Strings -> Nat]
    /\ Huffman \in [Strings -> Strings] /\ Lossy \in [Strings -> Strings]
    /\ Headers \subseteq HeaderFields /\ {Static[i] : i \in DOMAIN Static} \subseteq HeaderFields
    /\ Codings \subseteq {"raw", "huffman"}
    /\ DecoderSize \in Nat
    /\ EncoderSizes \subseteq Nat /\ PeerSizes \subseteq Nat
    /\ MaxFields \in Nat \ {0} /\ MaxQueue \in Nat \ {0}

VARIABLES
    library,         \* is the encoder the library's?
    encoder,         \* its dynamic table
    block,           \* the client's block that is not yet sent
    wire,            \* blocks on their way
    decoder,         \* the decoder's dynamic table
    legible,         \* was every string that was written raw, and UTF-8?
    intact           \* did the last block decode to the fields that were sent?

vars == <<library, encoder, block, wire, decoder, legible, intact>>

-----------------------------------------------------------------------------
(* Dynamic tables: entries from the newest to the oldest. *)

EmptyTable(max) == [entries |-> <<>>, max_size |-> max, current_size |-> 0]

Size(field) == 32 + Octets[field[1]] + Octets[field[2]]
SizeOf(entries) == SumFunction([i \in DOMAIN entries |-> Size(entries[i])])

\* The table after evicting from its end until what is left takes at most room.
Evicted(table, room) ==
    LET n == Len(table.entries)
        SizeWithout(k) == table.current_size - SizeOf(SubSeq(table.entries, n - k + 1, n))
        k == CHOOSE k \in 0 .. n :
               /\ k = n \/ SizeWithout(k) <= room
               /\ \A j \in 0 .. k - 1 : SizeWithout(j) > room
    IN  [table EXCEPT !.entries = SubSeq(@, 1, n - k),
                      !.current_size = SizeWithout(k)]

\* Mutant of AddEntry: an entry that does not fit leaves the others alone.
AddEntryIfFits(table, field) ==
    IF Size(field) > table.max_size THEN table
    ELSE LET rest == Evicted(table, table.max_size - Size(field))
         IN  [rest EXCEPT !.entries = <<field>> \o @,
                          !.current_size = @ + Size(field)]

\* add_entry of encoder and decoder.
AddEntry(table, field) ==
    LET rest == Evicted(table, table.max_size - Size(field))
    IN  IF Size(field) > table.max_size THEN rest
        ELSE [rest EXCEPT !.entries = <<field>> \o @,
                          !.current_size = @ + Size(field)]

\* Mutant of Resize: the entries are evicted and still counted.
ResizeCounts(table, size) ==
    [Evicted(table, size) EXCEPT !.max_size = size, !.current_size = table.current_size]

Resize(table, size) == [Evicted(table, size) EXCEPT !.max_size = size]

Indices(table) ==
    DOMAIN Static \cup (StaticSize + 1 .. StaticSize + Len(table.entries))

\* get_indexed
Indexed(table, index) ==
    IF index <= StaticSize THEN Static[index] ELSE table.entries[index - StaticSize]

\* The table that the format prescribes: of the newest entries as many as fit.
Prescribed(entries, max) ==
    LET n == CHOOSE n \in 0 .. Len(entries) :
               /\ SizeOf(SubSeq(entries, 1, n)) <= max
               /\ n < Len(entries) => SizeOf(SubSeq(entries, 1, n + 1)) > max
    IN  [entries |-> SubSeq(entries, 1, n), max_size |-> max,
         current_size |-> SizeOf(SubSeq(entries, 1, n))]

-----------------------------------------------------------------------------
(* Integers, as bytes.  max is what their bits in the first byte hold at most;   *)
(* the high bit of a byte after the first says that another one follows.        *)

\* The bytes after the first one.
Continued[n \in Nat] ==
    IF n < 128 THEN <<n>> ELSE <<128 + (n % 128)>> \o Continued[n \div 128]

\* Mutant of EncodeInteger: the value that fills the prefix goes into one byte.
EncodeIntegerPastMax(value, max) ==
    IF value <= max THEN <<value>> ELSE <<max>> \o Continued[value - max]

EncodeInteger(value, max) ==
    IF value < max THEN <<value>> ELSE <<max>> \o Continued[value - max]

\* The value and the number of bytes taken; <<>> if the bytes end too early.  (The
\* code shifts by 7 bits per byte without a bound; lengths are not that large.)
\* later[k] is read from the last k bytes.
DecodeInteger(bytes, max) ==
    LET n == Len(bytes)
        later[k \in 0 .. n] ==
          IF k = 0 THEN <<>>
          ELSE IF bytes[n - k + 1] < 128 THEN <<bytes[n - k + 1], 1>>
          ELSE IF later[k - 1] = <<>> THEN <<>>
          ELSE <<bytes[n - k + 1] - 128 + 128 * later[k - 1][1], 1 + later[k - 1][2]>>
    IN  IF bytes = <<>> THEN <<>>
        ELSE IF bytes[1] < max THEN <<bytes[1], 1>>
        ELSE IF later[n - 1] = <<>> THEN <<>>
        ELSE <<max + later[n - 1][1], 1 + later[n - 1][2]>>

-----------------------------------------------------------------------------
(* Strings in a block. *)

AsString(coding, string) ==
    LET octets == IF coding = "huffman" THEN Huffman[string] ELSE string
    IN  [huffman |-> coding = "huffman", length |-> EncodeInteger(Octets[octets], 127),
         octets |-> octets]

\* A length that is not that of the octets has the decoder read on at another place.
LengthFits(string) ==
    DecodeInteger(string.length, 127) = <<Octets[string.octets], Len(string.length)>>

\* decode_string: the flag is looked at and makes no difference, and octets that are not
\* UTF-8 are replaced.
DecodeString(string) == Lossy[string.octets]

\* What arrives as it was meant.
Legible(string) == ~string.huffman /\ Lossy[string.octets] = string.octets

-----------------------------------------------------------------------------
(* Representations of a field.  A name is sent as the index of an entry that has *)
(* it, or as itself with index 0.                                              *)

\* What the 7, 6, 5 and 4 bits that an integer has in the first byte hold.
Prefix == [indexed |-> 127, incremental |-> 63, resize |-> 31, plain |-> 15]

Part(op, integer, strings) ==
    [op |-> op, integer |-> EncodeInteger(integer, Prefix[op]), strings |-> strings]

AsIndex(index) == Part("indexed", index, <<>>)
AsSize(size) == Part("resize", size, <<>>)
AsLiteral(op, index, field, codings) ==
    Part(op, index,
         IF index = 0 THEN <<AsString(codings[1], field[1]), AsString(codings[2], field[2])>>
         ELSE <<AsString(codings[2], field[2])>>)

-----------------------------------------------------------------------------
(* The library's encoder. *)

Named(field) == {i \in DOMAIN Static : Static[i][1] = field[1]}

\* Mutant of HasValue: the first field with the name will do.
HasValueIfNamed(field) == Named(field) # {}

\* find_static looks no further than the first field with the name.
HasValue(field) == Named(field) # {} /\ Static[Min(Named(field))] = field

Represented(field) ==
    IF HasValue(field) THEN AsIndex(Min(Named(field)))
    ELSE AsLiteral("incremental", IF Named(field) = {} THEN 0 ELSE Min(Named(field)), field,
                   <<"raw", "raw">>)

\* The encoder's table after some fields.
Encoded(table, fields) ==
    LET after[i \in 0 .. Len(fields)] ==
          IF i = 0 THEN table
          ELSE IF HasValue(fields[i]) THEN after[i - 1]
          ELSE AddEntry(after[i - 1], fields[i])
    IN  after[Len(fields)]

\* The library's names and values are Strings.
TextHeaders ==
    {field \in Headers : Lossy[field[1]] = field[1] /\ Lossy[field[2]] = field[2]}

Encode(fields) ==
    /\ library
    /\ Len(wire) < MaxQueue
    /\ wire' = Append(wire, [fields |-> fields,
                             parts |-> [i \in DOMAIN fields |-> Represented(fields[i])]])
    /\ encoder' = Encoded(encoder, fields)
    /\ UNCHANGED <<library, block, decoder, legible, intact>>

-----------------------------------------------------------------------------
(* A client's encoder: it adds one field after the other to its block. *)

PeerAdds(field, part, table) ==
    /\ ~library
    /\ Len(wire) < MaxQueue /\ Len(block.fields) < MaxFields
    /\ block' = [fields |-> Append(block.fields, field),
                 parts |-> Append(block.parts, part)]
    /\ encoder' = table
    /\ legible' = (legible /\ \A i \in DOMAIN part.strings : Legible(part.strings[i]))
    /\ UNCHANGED <<library, wire, decoder, intact>>

PeerIndexes(field, index) ==
    /\ index # 0 /\ Indexed(encoder, index) = field
    /\ PeerAdds(field, AsIndex(index), encoder)

PeerSpells(op, field, index, codings) ==
    /\ index # 0 => Indexed(encoder, index)[1] = field[1]
    /\ PeerAdds(field, AsLiteral(op, index, field, codings),
                IF op = "incremental"
                THEN Prescribed(<<field>> \o encoder.entries, encoder.max_size)
                ELSE encoder)

\* A size update may come only at the beginning of a block.
PeerResizes(size) ==
    /\ ~library
    /\ Len(wire) < MaxQueue /\ block.parts = <<>>
    /\ block' = [block EXCEPT !.parts = <<AsSize(size)>>]
    /\ encoder' = Prescribed(encoder.entries, size)
    /\ UNCHANGED <<library, wire, decoder, legible, intact>>

PeerSends ==
    /\ block.parts # <<>>
    /\ wire' = Append(wire, block)
    /\ block' = [fields |-> <<>>, parts |-> <<>>]
    /\ UNCHANGED <<library, encoder, decoder, legible, intact>>

Peer ==
    \/ \E field \in Headers, index \in Indices(encoder) \cup {0} :
         \/ PeerIndexes(field, index)
         \/ \E op \in {"incremental", "plain"}, codings \in Codings \X Codings :
              PeerSpells(op, field, index, codings)
    \/ \E size \in PeerSizes : PeerResizes(size)
    \/ PeerSends

-----------------------------------------------------------------------------
(* The decoder. *)

\* The field that a representation with the given index means.
FieldOf(table, part, index) ==
    IF part.op = "indexed" THEN Indexed(table, index)
    ELSE <<IF index = 0 THEN DecodeString(part.strings[1]) ELSE Indexed(table, index)[1],
           DecodeString(Last(part.strings))>>

\* The number of strings that follow the integer.
Spelled(op, index) ==
    IF op \in {"indexed", "resize"} THEN 0 ELSE IF index = 0 THEN 2 ELSE 1

\* One representation.  An integer or a string that ends too early or leaves bytes over,
\* or an index that does not exist, ends the block, and what was done before stays done.
DecodePart(s, part) ==
    LET decoded == DecodeInteger(part.integer, Prefix[part.op])
        n == decoded[1]
        field == FieldOf(s.table, part, n)
    IN  IF ~s.ok THEN s
        ELSE IF \/ decoded = <<>> \/ decoded[2] # Len(part.integer)
                \/ Len(part.strings) # Spelled(part.op, n)
                \/ \E i \in DOMAIN part.strings : ~LengthFits(part.strings[i])
             THEN [s EXCEPT !.ok = FALSE]
        ELSE IF part.op = "resize" THEN [s EXCEPT !.table = Resize(@, n)]
        ELSE IF n \notin Indices(s.table) /\ ~(n = 0 /\ part.op # "indexed")
             THEN [s EXCEPT !.ok = FALSE]
        ELSE [s EXCEPT !.fields = Append(@, field),
                       !.table = IF part.op = "incremental" THEN AddEntry(@, field) ELSE @]

\* What a block makes of the table.
Decoded(table, parts) ==
    LET after[i \in 0 .. Len(parts)] ==
          IF i = 0 THEN [table |-> table, fields |-> <<>>, ok |-> TRUE]
          ELSE DecodePart(after[i - 1], parts[i])
    IN  after[Len(parts)]

Decode ==
    /\ wire # <<>>
    /\ LET result == Decoded(decoder, Head(wire).parts)
       IN  /\ decoder' = result.table
           /\ intact' = (result.ok /\ result.fields = Head(wire).fields)
    /\ wire' = Tail(wire)
    /\ UNCHANGED <<library, encoder, block, legible>>

-----------------------------------------------------------------------------
Init ==
    /\ library \in BOOLEAN
    /\ encoder \in {EmptyTable(max) : max \in IF library THEN EncoderSizes ELSE {DecoderSize}}
    /\ block = [fields |-> <<>>, parts |-> <<>>]
    /\ wire = <<>>
    /\ decoder = EmptyTable(DecoderSize)
    /\ legible = TRUE /\ intact = TRUE

Next ==
    \/ \E n \in 1 .. MaxFields : \E fields \in [1 .. n -> TextHeaders] : Encode(fields)
    \/ Peer
    \/ Decode

Spec == Init /\ [][Next]_vars

-----------------------------------------------------------------------------
\* As long as all strings are written raw and are UTF-8, every block decodes, to the
\* fields that were sent, in order: with a client's encoder, whatever it refers to and
\* resizes, and with the library's encoder even if the two tables have different sizes
\* (hpack.rs lines 106-140 and 296-321).
HeadersArrive == legible => intact

\* Under the same condition the decoder's table is the client's, entry for entry, when
\* all blocks have arrived.  And whatever the client writes, the size that is counted in
\* a table is that of its entries and within its maximum, after every eviction, resize or
\* entry that is too large (hpack.rs lines 245-269).
TablesAgree ==
    /\ \A table \in {encoder, decoder} :
         table.current_size = SizeOf(table.entries) /\ table.current_size <= table.max_size
    /\ ~library /\ legible /\ wire = <<>> /\ block.parts = <<>> => decoder = encoder

=============================================================================
