---------------------------- MODULE FormatProofs ----------------------------
(***************************************************************************)
(* What is encoded arrives: theorems about Hpack, Frames and HttpParser.   *)
(*                                                                         *)
(* Hpack.  What holds of every table, block and number of fields rests on  *)
(* four lemmas, each about one layer of the format: an integer decodes to  *)
(* itself (IntegerDecodes); add_entry and resize, evicting from the end,   *)
(* make the table that the format prescribes (AddEntryPrescribed,          *)
(* ResizePrescribed); a representation decodes to its field                *)
(* (IndexDecodes, LiteralDecodes, SizeDecodes); a block decodes part by    *)
(* part (DecodedAppend).  The invariant HpackInv then says, of the blocks  *)
(* on their way, by which tables they will decode.                         *)
(*                                                                         *)
(* Frames.  SerializedIsFrame: the bytes of a frame are a header and a     *)
(* payload of the length it says, and mean that frame, for each of the ten *)
(* types.  The invariant FramesInv says that the bytes that have arrived,  *)
(* followed by those on their way, are the frames that were not yet parsed *)
(* (Lays), whose ends are where parse will look for them.                  *)
(*                                                                         *)
(* HttpParser.  What split, split_whitespace, join and the map of the      *)
(* headers compute is recursive: each is proved to be the value of a       *)
(* function that exists (RecursionExists), and from that to go on element  *)
(* by element.  So the words of a request line and its fields are read     *)
(* back (WordsAreRead, HeadersAreRead), no empty line is within the head   *)
(* of a request (LinesOfRequest), and parse finds what was written         *)
(* (ParseFinds).  The invariant ArrivingInOrder says that what has arrived *)
(* and what is coming begin with the first request.                        *)
(***************************************************************************)
EXTENDS Hpack, Frames, HttpParser, DataFacts
-----------------------------------------------------------------------------
(* Integers as bytes. *)

\* Division by 128.
LEMMA SevenBits ==
  ASSUME NEW n \in Nat
  PROVE  /\ n \div 128 \in Nat /\ n % 128 \in 0 .. 127
         /\ n = 128 * (n \div 128) + (n % 128)
         /\ n >= 128 => n \div 128 < n
OBVIOUS

\* c is what Continued is, up to m.
Continues(c, m) ==
    \A n \in 0 .. m :
        c[n] = IF n < 128 THEN <<n>> ELSE <<128 + (n % 128)>> \o c[n \div 128]

\* Two of them agree as far as both go.
LEMMA ContinuesAgree ==
  ASSUME NEW c, NEW d, NEW m \in Nat, Continues(c, m), Continues(d, m)
  PROVE  \A n \in 0 .. m : c[n] = d[n]
<1> DEFINE S == {k \in Nat : \A n \in 0 .. k : n <= m => c[n] = d[n]}
<1>1. 0 \in S
  <2>1. 0 \in 0 .. m /\ 0 < 128
    OBVIOUS
  <2>2. c[0] = <<0>> /\ d[0] = <<0>>
    BY <2>1, ZenonT(40) DEF Continues
  <2> QED BY <2>2
<1>2. ASSUME NEW k \in Nat, k \in S PROVE k + 1 \in S
  <2> SUFFICES ASSUME k + 1 <= m PROVE c[k + 1] = d[k + 1]
    BY <1>2
  <2>1. PICK n : n = k + 1
    OBVIOUS
  <2>2. n \in Nat /\ n \in 0 .. m
    BY <2>1
  <2>3. CASE n < 128
    <3>1. c[n] = <<n>> /\ d[n] = <<n>>
      BY <2>2, <2>3, ZenonT(40) DEF Continues
    <3> QED BY <2>1, <3>1
  <2>4. CASE ~(n < 128)
    <3>1. PICK h : h = n \div 128
      OBVIOUS
    <3>2. h \in 0 .. k /\ h <= m
      BY <2>1, <2>2, <2>4, <3>1, SevenBits
    <3>3. c[h] = d[h]
      BY <1>2, <3>2
    <3>4. c[n] = <<128 + (n % 128)>> \o c[h] /\ d[n] = <<128 + (n % 128)>> \o d[h]
      BY <2>2, <2>4, <3>1, ZenonT(40) DEF Continues
    <3> QED BY <2>1, <3>3, <3>4
  <2> QED BY <2>3, <2>4
<1>3. Nat \subseteq S
  <2> HIDE DEF S
  <2> QED BY <1>1, <1>2, Induction
<1> QED BY <1>3

\* There is one up to every number.
LEMMA ContinuesExist == \A m \in Nat : \E c : Continues(c, m)
<1> DEFINE S == {m \in Nat : \E c : Continues(c, m)}
<1>1. 0 \in S
  <2> DEFINE c == [n \in {0} |-> <<0>>]
  <2>1. Continues(c, 0)
    BY DEF Continues
  <2> QED BY <2>1
<1>2. ASSUME NEW m \in Nat, m \in S PROVE m + 1 \in S
  <2>1. PICK c : Continues(c, m)
    BY <1>2
  <2> DEFINE k == m + 1
             d == [n \in 0 .. k |->
                     IF n <= m THEN c[n]
                     ELSE IF n < 128 THEN <<n>> ELSE <<128 + (n % 128)>> \o c[n \div 128]]
  <2>2. ASSUME NEW n \in 0 .. k
        PROVE  d[n] = IF n < 128 THEN <<n>> ELSE <<128 + (n % 128)>> \o d[n \div 128]
    <3>1. n >= 128 => n \div 128 \in 0 .. m /\ d[n \div 128] = c[n \div 128]
      BY <2>2, SevenBits
    <3>2. CASE n <= m
      <4>1. d[n] = c[n] /\ n \in 0 .. m
        BY <3>2
      <4> HIDE DEF d
      <4> QED BY <2>1, <3>1, <4>1 DEF Continues
    <3>3. CASE ~(n <= m)
      <4>1. d[n] = IF n < 128 THEN <<n>> ELSE <<128 + (n % 128)>> \o c[n \div 128]
        BY <3>3
      <4> HIDE DEF d
      <4> QED BY <3>1, <4>1
    <3> QED BY <3>2, <3>3
  <2>3. Continues(d, k)
    <3> HIDE DEF d
    <3> QED BY <2>2 DEF Continues
  <2> QED BY <2>3
<1>3. Nat \subseteq S
  <2> HIDE DEF S
  <2> QED BY <1>1, <1>2, Induction
<1> QED BY <1>3

\* Continued satisfies its definition.
LEMMA ContinuedDef ==
  \A n \in Nat :
      Continued[n] = IF n < 128 THEN <<n>> ELSE <<128 + (n % 128)>> \o Continued[n \div 128]
<1> DEFINE Satisfies(f) ==
             f = [n \in Nat |-> IF n < 128 THEN <<n>>
                                ELSE <<128 + (n % 128)>> \o f[n \div 128]]
           Upto(m) == CHOOSE c : Continues(c, m)
           f == [n \in Nat |-> Upto(n)[n]]
<1>1. \A m \in Nat : Continues(Upto(m), m)
  BY ContinuesExist
<1> HIDE DEF Upto
<1>2. ASSUME NEW n \in Nat, n >= 128
      PROVE  Upto(n)[n \div 128] = f[n \div 128]
  <2> DEFINE k == n \div 128
  <2>1. k \in Nat /\ k <= n
    BY <1>2, SevenBits
  <2>2. Continues(Upto(n), k) /\ Continues(Upto(k), k)
    <3>1. \A i \in 0 .. k : i \in 0 .. n
      BY <2>1
    <3> HIDE DEF k
    <3> QED BY <1>1, <2>1, <3>1 DEF Continues
  <2>3. Upto(n)[k] = Upto(k)[k]
    <3>1. k \in 0 .. k
      BY <2>1
    <3> HIDE DEF k
    <3> QED BY <2>1, <2>2, <3>1, ContinuesAgree
  <2> QED BY <2>1, <2>3
<1>3. \A n \in Nat : f[n] = IF n < 128 THEN <<n>> ELSE <<128 + (n % 128)>> \o f[n \div 128]
  <2> TAKE n \in Nat
  <2>1. f[n] = Upto(n)[n] /\ n \in 0 .. n
    OBVIOUS
  <2> HIDE DEF f
  <2> QED BY <1>1, <1>2, <2>1 DEF Continues
<1>4. Satisfies(f)
  <2>1. f = [n \in Nat |-> f[n]]
    OBVIOUS
  <2> HIDE DEF f
  <2> QED BY <1>3, <2>1
<1>5. Continued = CHOOSE g : Satisfies(g)
  BY DEF Continued
<1>6. Satisfies(Continued)
  <2> HIDE DEF f, Satisfies
  <2> QED BY <1>4, <1>5
<1>7. Continued = [n \in Nat |-> IF n < 128 THEN <<n>>
                                 ELSE <<128 + (n % 128)>> \o Continued[n \div 128]]
  BY <1>6
<1> HIDE DEF f, Satisfies
<1> QED BY ONLY <1>7

\* What an encoder writes of a number.
Written(s) == s \in Seq(Nat) /\ s # <<>>

\* It gives bytes, at least one.
LEMMA ContinuedBytes == \A n \in Nat : Written(Continued[n])
<1> DEFINE S == {k \in Nat : \A n \in 0 .. k : Written(Continued[n])}
<1>1. 0 \in S
  <2>1. 0 \in Nat /\ 0 < 128
    OBVIOUS
  <2>2. Continued[0] = <<0>>
    BY <2>1, ContinuedDef
  <2>3. Written(<<0>>)
    BY DEF Written
  <2>4. Written(Continued[0])
    BY <2>2, <2>3
  <2> QED BY <2>4
<1>2. ASSUME NEW k \in Nat, k \in S PROVE k + 1 \in S
  <2>0. PICK n \in Nat : n = k + 1
    OBVIOUS
  <2>1. CASE n < 128
    <3>1. Continued[n] = <<n>>
      BY <2>1, ContinuedDef
    <3>2. Written(<<n>>)
      BY DEF Written
    <3> QED BY <1>2, <2>0, <3>1, <3>2
  <2>2. CASE ~(n < 128)
    <3>1. PICK h, b : h = n \div 128 /\ b = 128 + (n % 128)
      OBVIOUS
    <3>2. h \in 0 .. k /\ b \in Nat
      BY <2>0, <2>2, <3>1, SevenBits
    <3>3. Continued[n] = <<b>> \o Continued[h]
      BY <2>2, <3>1, ContinuedDef
    <3>4. Written(Continued[h])
      BY <1>2, <3>2
    <3>5. ASSUME NEW rest, Written(rest) PROVE Written(<<b>> \o rest)
      BY <3>2, <3>5 DEF Written
    <3>6. Written(Continued[n])
      BY <3>3, <3>4, <3>5
    <3> QED BY <1>2, <2>0, <3>6
  <2> QED BY <2>1, <2>2
<1>3. Nat \subseteq S
  <2> HIDE DEF S
  <2> QED BY <1>1, <1>2, Induction
<1>4. ASSUME NEW n \in Nat PROVE Written(Continued[n])
  <2>1. n \in S /\ n \in 0 .. n
    BY <1>3
  <2> QED BY <2>1
<1> QED BY <1>4

-----------------------------------------------------------------------------
(* Reading what was written. *)

\* What DecodeInteger computes: l[k] is read from the last k bytes.
Reads(l, bytes, K) ==
    /\ l[0] = <<>>
    /\ \A k \in 1 .. K :
         LET b == bytes[Len(bytes) - k + 1]
         IN  l[k] = IF b < 128 THEN <<b, 1>>
                    ELSE IF l[k - 1] = <<>> THEN <<>>
                    ELSE <<b - 128 + 128 * l[k - 1][1], 1 + l[k - 1][2]>>

\* There is such an l for every sequence of bytes.
LEMMA ReadsExist ==
  ASSUME NEW bytes \in Seq(Nat)
  PROVE  \A K \in Nat : \E l : Reads(l, bytes, K)
<1> DEFINE S == {K \in Nat : \E l : Reads(l, bytes, K)}
<1>1. 0 \in S
  <2> DEFINE l == [k \in {0} |-> <<>>]
  <2>1. Reads(l, bytes, 0)
    BY DEF Reads
  <2> QED BY <2>1
<1>2. ASSUME NEW K \in Nat, K \in S PROVE K + 1 \in S
  <2>1. PICK l : Reads(l, bytes, K)
    BY <1>2
  <2>2. PICK b : b = bytes[Len(bytes) - (K + 1) + 1]
    OBVIOUS
  <2> DEFINE new == IF b < 128 THEN <<b, 1>>
                    ELSE IF l[K] = <<>> THEN <<>>
                    ELSE <<b - 128 + 128 * l[K][1], 1 + l[K][2]>>
             d == [k \in 0 .. K + 1 |-> IF k = K + 1 THEN new ELSE l[k]]
  <2>3. d[0] = <<>>
    BY <2>1 DEF Reads
  <2>4. ASSUME NEW k \in 1 .. K + 1
        PROVE  LET c == bytes[Len(bytes) - k + 1]
               IN  d[k] = IF c < 128 THEN <<c, 1>>
                          ELSE IF d[k - 1] = <<>> THEN <<>>
                          ELSE <<c - 128 + 128 * d[k - 1][1], 1 + d[k - 1][2]>>
    <3>1. d[k - 1] = l[k - 1]
      OBVIOUS
    <3>2. CASE k = K + 1
      <4>1. d[k] = new /\ k - 1 = K
        BY <3>2, SMTT(40)
      <4> HIDE DEF d
      <4> QED BY <2>2, <3>1, <3>2, <4>1
    <3>3. CASE k # K + 1
      <4>1. d[k] = l[k] /\ k \in 1 .. K
        BY <3>3
      <4> HIDE DEF d
      <4> QED BY <2>1, <3>1, <4>1 DEF Reads
    <3> QED BY <3>2, <3>3
  <2>5. Reads(d, bytes, K + 1)
    <3> HIDE DEF d
    <3> QED BY <2>3, <2>4 DEF Reads
  <2> QED BY <2>5
<1>3. Nat \subseteq S
  <2> HIDE DEF S
  <2> QED BY <1>1, <1>2, Induction
<1> QED BY <1>3

\* DecodeInteger by such an l.
LEMMA DecodeIntegerDef ==
  ASSUME NEW bytes \in Seq(Nat), NEW max
  PROVE  \E l : /\ Reads(l, bytes, Len(bytes))
                /\ DecodeInteger(bytes, max) =
                     IF bytes = <<>> THEN <<>>
                     ELSE IF bytes[1] < max THEN <<bytes[1], 1>>
                     ELSE IF l[Len(bytes) - 1] = <<>> THEN <<>>
                     ELSE <<max + l[Len(bytes) - 1][1], 1 + l[Len(bytes) - 1][2]>>
<1> DEFINE n == Len(bytes)
           Satisfies(f) ==
             f = [k \in 0 .. n |->
                    IF k = 0 THEN <<>>
                    ELSE IF bytes[n - k + 1] < 128 THEN <<bytes[n - k + 1], 1>>
                    ELSE IF f[k - 1] = <<>> THEN <<>>
                    ELSE <<bytes[n - k + 1] - 128 + 128 * f[k - 1][1], 1 + f[k - 1][2]>>]
           later == CHOOSE f : Satisfies(f)
<1>1. PICK l : Reads(l, bytes, n)
  BY ReadsExist
<1> DEFINE f == [k \in 0 .. n |-> l[k]]
<1>2. n \in Nat
  OBVIOUS
<1>3. ASSUME NEW k \in 0 .. n
      PROVE  f[k] = IF k = 0 THEN <<>>
                    ELSE IF bytes[n - k + 1] < 128 THEN <<bytes[n - k + 1], 1>>
                    ELSE IF f[k - 1] = <<>> THEN <<>>
                    ELSE <<bytes[n - k + 1] - 128 + 128 * f[k - 1][1], 1 + f[k - 1][2]>>
  <2>1. f[k] = l[k] /\ (k # 0 => f[k - 1] = l[k - 1] /\ k \in 1 .. n)
    BY <1>2
  <2> HIDE DEF f
  <2> QED BY <1>1, <1>2, <2>1, ZenonT(40) DEF Reads
<1>4. Satisfies(f)
  <2>1. f = [k \in 0 .. n |-> f[k]]
    OBVIOUS
  <2> HIDE DEF f
  <2> QED BY <1>3, <2>1
<1>5. Satisfies(later)
  <2> HIDE DEF f, Satisfies
  <2> QED BY <1>4
<1>6. Reads(later, bytes, n)
  <2> HIDE DEF later
  <2>1. \A k \in 0 .. n :
          later[k] = IF k = 0 THEN <<>>
                     ELSE IF bytes[n - k + 1] < 128 THEN <<bytes[n - k + 1], 1>>
                     ELSE IF later[k - 1] = <<>> THEN <<>>
                     ELSE <<bytes[n - k + 1] - 128 + 128 * later[k - 1][1], 1 + later[k - 1][2]>>
    BY <1>5
  <2>2. 0 \in 0 .. n /\ \A k \in 1 .. n : k \in 0 .. n /\ k # 0
    BY <1>2
  <2> HIDE DEF Satisfies, n
  <2> QED BY <2>1, <2>2 DEF Reads, n
<1>7. DecodeInteger(bytes, max) =
        IF bytes = <<>> THEN <<>>
        ELSE IF bytes[1] < max THEN <<bytes[1], 1>>
        ELSE IF later[n - 1] = <<>> THEN <<>>
        ELSE <<max + later[n - 1][1], 1 + later[n - 1][2]>>
  BY DEF DecodeInteger
<1> HIDE DEF later
<1> QED BY <1>6, <1>7

\* From the end of the bytes a number is read as it was written.
LEMMA ReadContinued ==
  ASSUME NEW bytes \in Seq(Nat), NEW l, Reads(l, bytes, Len(bytes))
  PROVE  \A v \in Nat : \A m \in 1 .. Len(bytes) :
             m = Len(Continued[v])
               /\ (\A i \in 1 .. m : bytes[Len(bytes) - m + i] = Continued[v][i])
             => l[m] = <<v, m>>
<1> DEFINE P(v) == \A m \in 1 .. Len(bytes) :
                     m = Len(Continued[v])
                       /\ (\A i \in 1 .. m : bytes[Len(bytes) - m + i] = Continued[v][i])
                     => l[m] = <<v, m>>
           S == {n \in Nat : \A v \in 0 .. n : P(v)}
<1>0. Len(bytes) \in Nat
  OBVIOUS
<1>1. ASSUME NEW v \in Nat, \A h \in Nat : h < v => P(h) PROVE P(v)
  <2> SUFFICES ASSUME NEW m \in 1 .. Len(bytes), m = Len(Continued[v]),
                      \A i \in 1 .. m : bytes[Len(bytes) - m + i] = Continued[v][i]
               PROVE  l[m] = <<v, m>>
    OBVIOUS
  <2>1. PICK b : b = bytes[Len(bytes) - m + 1]
    OBVIOUS
  <2>2. b = Continued[v][1]
    <3>1. 1 \in 1 .. m
      BY <1>0
    <3> QED BY <2>1, <3>1
  <2>3. l[m] = IF b < 128 THEN <<b, 1>>
               ELSE IF l[m - 1] = <<>> THEN <<>>
               ELSE <<b - 128 + 128 * l[m - 1][1], 1 + l[m - 1][2]>>
    BY <2>1 DEF Reads
  <2>4. CASE v < 128
    <3>1. Continued[v] = <<v>>
      BY <2>4, ContinuedDef
    <3>2. b = v /\ m = 1
      BY <2>2, <3>1
    <3> QED BY <2>3, <2>4, <3>2
  <2>5. CASE ~(v < 128)
    <3>1. PICK h, r : h = v \div 128 /\ r = v % 128
      OBVIOUS
    <3>2. h \in Nat /\ h < v /\ r \in 0 .. 127 /\ v = 128 * h + r
      BY <2>5, <3>1, SevenBits
    <3>3. PICK rest : rest = Continued[h]
      OBVIOUS
    <3>4. Continued[v] = <<128 + r>> \o rest
      BY <2>5, <3>1, <3>3, ContinuedDef
    <3>5. rest \in Seq(Nat) /\ rest # <<>>
      BY <3>2, <3>3, ContinuedBytes DEF Written
    <3>6. PICK tail : tail = <<128 + r>> \o rest
      OBVIOUS
    <3>7. /\ Len(tail) = 1 + Len(rest) /\ Len(rest) \in Nat \ {0}
          /\ tail[1] = 128 + r
          /\ \A i \in 1 .. Len(rest) : tail[i + 1] = rest[i]
      BY <3>2, <3>5, <3>6, SMTT(40)
    <3>8. Continued[v] = tail
      BY <3>4, <3>6
    <3>9. m - 1 = Len(rest) /\ m - 1 \in 1 .. Len(bytes) /\ b = 128 + r
      BY <2>2, <3>7, <3>8
    <3>10. ASSUME NEW i \in 1 .. m - 1
           PROVE  bytes[Len(bytes) - (m - 1) + i] = rest[i]
      <4>1. i + 1 \in 1 .. m /\ Len(bytes) - m + (i + 1) = Len(bytes) - (m - 1) + i
        BY <1>0
      <4>2. bytes[Len(bytes) - m + (i + 1)] = tail[i + 1]
        BY <3>8, <4>1
      <4> QED BY <3>7, <3>9, <4>1, <4>2
    <3>11. P(h)
      BY <1>1, <3>2
    <3>12. l[m - 1] = <<h, m - 1>>
      BY <3>3, <3>9, <3>10, <3>11
    <3>13. l[m - 1] # <<>> /\ l[m - 1][1] = h /\ l[m - 1][2] = m - 1
      BY <3>12
    <3>14. l[m] = <<b - 128 + 128 * h, 1 + (m - 1)>>
      <4>1. ~(b < 128)
        BY <3>2, <3>9
      <4>2. l[m] = <<b - 128 + 128 * l[m - 1][1], 1 + l[m - 1][2]>>
        BY <2>3, <3>13, <4>1
      <4> QED BY <3>13, <4>2
    <3>15. b - 128 + 128 * h = v /\ 1 + (m - 1) = m
      BY <3>2, <3>9
    <3> QED BY <3>14, <3>15
  <2> QED BY <2>4, <2>5
<1> HIDE DEF P
<1>2. 0 \in S
  <2>1. P(0)
    BY <1>1
  <2> QED BY <2>1
<1>3. ASSUME NEW n \in Nat, n \in S PROVE n + 1 \in S
  <2>1. P(n + 1)
    BY <1>1, <1>3
  <2> QED BY <1>3, <2>1
<1>4. Nat \subseteq S
  <2> HIDE DEF S
  <2> QED BY <1>2, <1>3, Induction
<1>5. ASSUME NEW v \in Nat PROVE P(v)
  <2>1. v \in S /\ v \in 0 .. v
    BY <1>4
  <2> QED BY <2>1
<1> QED BY <1>5 DEF P

\* An integer decodes to itself, and takes all of its bytes.
LEMMA IntegerDecodes ==
  ASSUME NEW v \in Nat, NEW max \in Nat
  PROVE  /\ Written(EncodeInteger(v, max))
         /\ DecodeInteger(EncodeInteger(v, max), max) = <<v, Len(EncodeInteger(v, max))>>
<1>1. PICK bytes : bytes = EncodeInteger(v, max)
  OBVIOUS
<1>2. CASE v < max
  <2>1. bytes = <<v>>
    BY <1>1, <1>2 DEF EncodeInteger
  <2>2. bytes \in Seq(Nat) /\ bytes # <<>> /\ bytes[1] = v /\ Len(bytes) = 1
    BY <2>1
  <2>3. DecodeInteger(bytes, max) = <<v, 1>>
    BY <1>2, <2>2, DecodeIntegerDef
  <2> QED BY <1>1, <2>2, <2>3 DEF Written
<1>3. CASE ~(v < max)
  <2>1. PICK w \in Nat : w = v - max
    BY <1>3
  <2>2. PICK rest : rest = Continued[w]
    OBVIOUS
  <2>3. rest \in Seq(Nat) /\ rest # <<>>
    BY <2>2, ContinuedBytes DEF Written
  <2>4. bytes = <<max>> \o rest
    BY <1>1, <1>3, <2>1, <2>2 DEF EncodeInteger
  <2>5. /\ bytes \in Seq(Nat) /\ bytes # <<>> /\ bytes[1] = max
        /\ Len(bytes) = 1 + Len(rest) /\ Len(rest) \in Nat \ {0}
        /\ \A i \in 1 .. Len(rest) : bytes[i + 1] = rest[i]
    BY <2>3, <2>4
  <2>6. PICK m : m = Len(rest)
    OBVIOUS
  <2>7. \A i \in 1 .. m : bytes[Len(bytes) - m + i] = rest[i]
    <3>1. \A i \in 1 .. m : Len(bytes) - m + i = i + 1
      BY <2>5, <2>6
    <3> QED BY <2>5, <2>6, <3>1
  <2>8. PICK l : /\ Reads(l, bytes, Len(bytes))
                 /\ DecodeInteger(bytes, max) =
                      IF bytes = <<>> THEN <<>>
                      ELSE IF bytes[1] < max THEN <<bytes[1], 1>>
                      ELSE IF l[Len(bytes) - 1] = <<>> THEN <<>>
                      ELSE <<max + l[Len(bytes) - 1][1], 1 + l[Len(bytes) - 1][2]>>
    BY <2>5, DecodeIntegerDef
  <2>9. l[m] = <<w, m>>
    <3>1. m \in 1 .. Len(bytes) /\ m = Len(Continued[w])
      BY <2>2, <2>5, <2>6
    <3>2. \A i \in 1 .. m : bytes[Len(bytes) - m + i] = Continued[w][i]
      BY <2>2, <2>7
    <3>3. bytes \in Seq(Nat) /\ Reads(l, bytes, Len(bytes))
      BY <2>5, <2>8
    <3> HIDE <2>8
    <3> QED BY ONLY <3>1, <3>2, <3>3, w \in Nat, ReadContinued
  <2>10. Len(bytes) - 1 = m /\ l[m] # <<>> /\ l[m][1] = w /\ l[m][2] = m
    BY <2>5, <2>6, <2>9
  <2>11. DecodeInteger(bytes, max) = <<max + w, 1 + m>>
    BY <2>5, <2>8, <2>10
  <2>12. max + w = v /\ 1 + m = Len(bytes)
    BY <2>1, <2>5, <2>6
  <2> QED BY <1>1, <2>5, <2>11, <2>12 DEF Written
<1> QED BY <1>2, <1>3

-----------------------------------------------------------------------------
(* A block, part by part. *)

\* A block that has decoded to fields so far, and what it has made of the table
\* (hpack.rs lines 106-140).
Arrived(table, fields) == [table |-> table, fields |-> fields, ok |-> TRUE]

\* run[i] is what the first i parts make of the table.
Runs(run, table, parts) ==
    /\ run[0] = Arrived(table, <<>>)
    /\ \A i \in 1 .. Len(parts) : run[i] = DecodePart(run[i - 1], parts[i])

\* There is one for every block.
LEMMA RunsExist ==
  ASSUME NEW X, NEW table
  PROVE  \A parts \in Seq(X) : \E run : Runs(run, table, parts)
<1> DEFINE Such == {parts \in Seq(X) : \E run : Runs(run, table, parts)}
<1>1. <<>> \in Such
  <2> DEFINE run == [i \in {0} |-> Arrived(table, <<>>)]
  <2>1. Runs(run, table, <<>>)
    BY DEF Runs
  <2> QED BY <2>1
<1>2. ASSUME NEW parts \in Seq(X), NEW part \in X, parts \in Such
      PROVE  Append(parts, part) \in Such
  <2>1. PICK run : Runs(run, table, parts)
    BY <1>2
  <2>2. PICK n \in Nat : n = Len(parts)
    OBVIOUS
  <2>3. PICK more \in Seq(X) : more = Append(parts, part)
    BY AppendProperties
  <2>4. Len(more) = n + 1 /\ more[n + 1] = part /\ \A i \in 1 .. n : more[i] = parts[i]
    BY <2>2, <2>3
  <2> DEFINE new == DecodePart(run[n], part)
             next == [i \in 0 .. n + 1 |-> IF i = n + 1 THEN new ELSE run[i]]
  <2>5. /\ next[0] = run[0] /\ next[n + 1] = new
        /\ \A i \in 1 .. n : next[i] = run[i] /\ next[i - 1] = run[i - 1]
        /\ next[n] = run[n]
    OBVIOUS
  <2> HIDE DEF next
  <2>6. ASSUME NEW i \in 1 .. n + 1 PROVE next[i] = DecodePart(next[i - 1], more[i])
    <3>1. CASE i = n + 1
      <4>1. i - 1 = n
        BY <3>1
      <4> QED BY <2>4, <2>5, <3>1, <4>1
    <3>2. CASE i # n + 1
      <4>1. i \in 1 .. n
        BY <3>2
      <4>2. run[i] = DecodePart(run[i - 1], parts[i])
        BY <2>1, <2>2, <4>1 DEF Runs
      <4> QED BY <2>4, <2>5, <4>1, <4>2
    <3> QED BY <3>1, <3>2
  <2>7. next[0] = Arrived(table, <<>>)
    BY <2>1, <2>5 DEF Runs
  <2>8. Runs(next, table, more)
    BY <2>4, <2>6, <2>7 DEF Runs
  <2> QED BY <2>3, <2>8
<1> HIDE DEF Such
<1>3. Seq(X) \subseteq Such
  BY <1>1, <1>2, SeqInduction
<1> QED BY <1>3 DEF Such

\* Two of them agree as far as both go.
LEMMA RunsAgree ==
  ASSUME NEW X, NEW parts \in Seq(X), NEW more \in Seq(X), NEW table, NEW r, NEW s,
         Runs(r, table, parts), Runs(s, table, more), Len(parts) <= Len(more),
         \A i \in 1 .. Len(parts) : more[i] = parts[i]
  PROVE  s[Len(parts)] = r[Len(parts)]
<1>0. PICK n \in Nat : n = Len(parts)
  OBVIOUS
<1> DEFINE S == {k \in Nat : k <= n => s[k] = r[k]}
<1>1. 0 \in S
  BY DEF Runs
<1>2. ASSUME NEW k \in Nat, k \in S PROVE k + 1 \in S
  <2> SUFFICES ASSUME k + 1 <= n PROVE s[k + 1] = r[k + 1]
    OBVIOUS
  <2>1. PICK j : j = k + 1
    OBVIOUS
  <2>2. j \in 1 .. Len(parts) /\ j \in 1 .. Len(more) /\ j - 1 = k
    BY <1>0, <2>1
  <2>3. s[j] = DecodePart(s[j - 1], more[j]) /\ r[j] = DecodePart(r[j - 1], parts[j])
    BY <2>2 DEF Runs
  <2>4. s[k] = r[k] /\ more[j] = parts[j]
    BY <1>2, <2>2
  <2> QED BY <2>1, <2>2, <2>3, <2>4
<1>3. Nat \subseteq S
  <2> HIDE DEF S
  <2> QED BY <1>1, <1>2, Induction
<1>4. n \in S
  BY <1>3
<1> QED BY <1>0, <1>4

\* Decoded is the end of one.
LEMMA DecodedIsRun ==
  ASSUME NEW X, NEW parts \in Seq(X), NEW table
  PROVE  \E run : Runs(run, table, parts) /\ Decoded(table, parts) = run[Len(parts)]
<1>0. PICK n \in Nat : n = Len(parts)
  OBVIOUS
<1> DEFINE Satisfies(f) ==
             f = [i \in 0 .. n |-> IF i = 0 THEN Arrived(table, <<>>)
                                   ELSE DecodePart(f[i - 1], parts[i])]
           after == CHOOSE f : Satisfies(f)
<1>1. PICK run : Runs(run, table, parts)
  BY RunsExist
<1> DEFINE f == [i \in 0 .. n |-> run[i]]
<1>2. ASSUME NEW i \in 0 .. n
      PROVE  f[i] = IF i = 0 THEN Arrived(table, <<>>) ELSE DecodePart(f[i - 1], parts[i])
  <2>1. f[i] = run[i] /\ (i # 0 => f[i - 1] = run[i - 1] /\ i \in 1 .. n)
    OBVIOUS
  <2> HIDE DEF f
  <2> QED BY <1>0, <1>1, <2>1 DEF Runs
<1>3. Satisfies(f)
  <2>1. f = [i \in 0 .. n |-> f[i]]
    OBVIOUS
  <2> HIDE DEF f
  <2> QED BY <1>2, <2>1
<1>4. Satisfies(after)
  <2> HIDE DEF f, Satisfies
  <2> QED BY <1>3
<1>5. Decoded(table, parts) = after[n]
  BY <1>0 DEF Decoded, Arrived
<1> HIDE DEF after
<1>6. \A i \in 0 .. n :
        after[i] = IF i = 0 THEN Arrived(table, <<>>) ELSE DecodePart(after[i - 1], parts[i])
  BY <1>4
<1> HIDE DEF Satisfies
<1>7. Runs(after, table, parts)
  <2>1. 0 \in 0 .. n /\ \A i \in 1 .. n : i \in 0 .. n /\ i # 0
    OBVIOUS
  <2> QED BY <1>0, <1>6, <2>1 DEF Runs
<1> QED BY <1>0, <1>5, <1>7

\* A block without parts leaves the table as it is.
LEMMA DecodedEmpty ==
  ASSUME NEW table PROVE Decoded(table, <<>>) = Arrived(table, <<>>)
<1>1. <<>> \in Seq({}) /\ Len(<<>>) = 0
  OBVIOUS
<1>2. PICK run : Runs(run, table, <<>>) /\ Decoded(table, <<>>) = run[Len(<<>>)]
  BY <1>1, DecodedIsRun
<1> QED BY <1>1, <1>2 DEF Runs

\* The last part comes after the others.
LEMMA DecodedAppend ==
  ASSUME NEW X, NEW parts \in Seq(X), NEW part \in X, NEW table
  PROVE  Decoded(table, Append(parts, part)) = DecodePart(Decoded(table, parts), part)
<1>1. PICK n \in Nat : n = Len(parts)
  OBVIOUS
<1>2. PICK more \in Seq(X) : more = Append(parts, part)
  BY AppendProperties
<1>3. Len(more) = n + 1 /\ more[n + 1] = part /\ \A i \in 1 .. n : more[i] = parts[i]
  BY <1>1, <1>2
<1>4. PICK r : Runs(r, table, parts) /\ Decoded(table, parts) = r[n]
  BY <1>1, DecodedIsRun
<1>5. PICK s : Runs(s, table, more) /\ Decoded(table, more) = s[n + 1]
  BY <1>3, DecodedIsRun
<1>6. s[n] = r[n]
  BY <1>1, <1>3, <1>4, <1>5, RunsAgree
<1>7. s[n + 1] = DecodePart(s[n], part)
  <2>1. PICK j : j = n + 1
    OBVIOUS
  <2>2. j \in 1 .. Len(more) /\ j - 1 = n
    BY <1>3, <2>1
  <2>3. s[j] = DecodePart(s[j - 1], more[j])
    BY <1>5, <2>2 DEF Runs
  <2> QED BY <1>3, <2>1, <2>2, <2>3
<1> QED BY <1>2, <1>4, <1>5, <1>6, <1>7

\* What one field does to the table of the library's encoder.
EncodedField(table, field) == IF HasValue(field) THEN table ELSE AddEntry(table, field)

\* What every field keeps is kept by all of them.
LEMMA EncodedKeeps ==
  ASSUME NEW X, NEW fields \in Seq(X), NEW Such, NEW table \in Such,
         \A t \in Such, field \in X : EncodedField(t, field) \in Such
  PROVE  Encoded(table, fields) \in Such
<1>0. PICK n \in Nat : n = Len(fields)
  OBVIOUS
<1> DEFINE Satisfies(f) ==
             f = [i \in 0 .. n |-> IF i = 0 THEN table
                                   ELSE EncodedField(f[i - 1], fields[i])]
           after == CHOOSE f : Satisfies(f)
           Exists(k) == \E g : /\ g[0] = table
                               /\ \A i \in 1 .. k : g[i] = EncodedField(g[i - 1], fields[i])
           T == {k \in Nat : Exists(k)}
<1>1. 0 \in T
  <2> DEFINE g == [i \in {0} |-> table]
  <2>1. g[0] = table /\ \A i \in 1 .. 0 : g[i] = EncodedField(g[i - 1], fields[i])
    OBVIOUS
  <2> HIDE DEF g
  <2> QED BY <2>1
<1>2. ASSUME NEW k \in Nat, k \in T PROVE k + 1 \in T
  <2>1. PICK g : /\ g[0] = table
                 /\ \A i \in 1 .. k : g[i] = EncodedField(g[i - 1], fields[i])
    BY <1>2
  <2> DEFINE new == EncodedField(g[k], fields[k + 1])
             h == [i \in 0 .. k + 1 |-> IF i = k + 1 THEN new ELSE g[i]]
  <2>2. /\ h[0] = g[0] /\ h[k + 1] = new /\ h[k] = g[k]
        /\ \A i \in 1 .. k : h[i] = g[i] /\ h[i - 1] = g[i - 1]
    OBVIOUS
  <2> HIDE DEF h
  <2>3. ASSUME NEW i \in 1 .. k + 1 PROVE h[i] = EncodedField(h[i - 1], fields[i])
    <3>1. CASE i = k + 1
      <4>1. i - 1 = k
        BY <3>1
      <4> QED BY <2>2, <3>1, <4>1
    <3>2. CASE i # k + 1
      <4>1. i \in 1 .. k
        BY <3>2
      <4> QED BY <2>1, <2>2, <4>1
    <3> QED BY <3>1, <3>2
  <2>4. Exists(k + 1)
    BY <2>1, <2>2, <2>3
  <2> QED BY <2>4
<1>3. Exists(n)
  <2>1. Nat \subseteq T
    <3> HIDE DEF T
    <3> QED BY <1>1, <1>2, Induction
  <2> QED BY <2>1
<1>4. PICK g : /\ g[0] = table
               /\ \A i \in 1 .. n : g[i] = EncodedField(g[i - 1], fields[i])
  BY <1>3
<1> DEFINE f == [i \in 0 .. n |-> g[i]]
<1>5. ASSUME NEW i \in 0 .. n
      PROVE  f[i] = IF i = 0 THEN table ELSE EncodedField(f[i - 1], fields[i])
  <2>1. f[i] = g[i] /\ (i # 0 => f[i - 1] = g[i - 1] /\ i \in 1 .. n)
    OBVIOUS
  <2> HIDE DEF f
  <2> QED BY <1>4, <2>1
<1>6. Satisfies(f)
  <2>1. f = [i \in 0 .. n |-> f[i]]
    OBVIOUS
  <2> HIDE DEF f
  <2> QED BY <1>5, <2>1
<1>7. Satisfies(after)
  <2> HIDE DEF f, Satisfies
  <2> QED BY <1>6
<1>8. Encoded(table, fields) = after[n]
  BY <1>0 DEF Encoded, EncodedField
<1> HIDE DEF after, f
<1>9. \A i \in 0 .. n :
        after[i] = IF i = 0 THEN table ELSE EncodedField(after[i - 1], fields[i])
  BY <1>7
<1> HIDE DEF Satisfies
<1> DEFINE S == {k \in Nat : k <= n => after[k] \in Such}
<1>10. 0 \in S
  BY <1>9
<1>11. ASSUME NEW k \in Nat, k \in S PROVE k + 1 \in S
  <2> SUFFICES ASSUME k + 1 <= n PROVE after[k + 1] \in Such
    OBVIOUS
  <2>1. PICK j : j = k + 1
    OBVIOUS
  <2>2. j \in 0 .. n /\ j # 0 /\ j - 1 = k /\ j \in 1 .. Len(fields)
    BY <1>0, <2>1
  <2>3. after[j] = EncodedField(after[j - 1], fields[j]) /\ fields[j] \in X
    BY <1>9, <2>2
  <2>4. after[k] \in Such
    BY <1>11
  <2> QED BY <2>1, <2>2, <2>3, <2>4
<1>12. n \in S
  <2>1. Nat \subseteq S
    <3> HIDE DEF S
    <3> QED BY <1>10, <1>11, Induction
  <2> QED BY <2>1
<1> QED BY <1>8, <1>12

-----------------------------------------------------------------------------
(* The sizes of tables. *)

\* The sizes of the entries.
Sizes(entries) == [i \in DOMAIN entries |-> Size(entries[i])]

\* No entry is without a size.
LEMMA SizeBounds == ASSUME NEW field \in HeaderFields PROVE Size(field) \in Nat \ {0}
<1>1. Octets[field[1]] \in Nat /\ Octets[field[2]] \in Nat
  BY HpackAssumption DEF HeaderFields
<1> QED BY <1>1 DEF Size

\* They are a sequence of numbers.
LEMMA SizesSeq ==
  ASSUME NEW entries \in Seq(HeaderFields)
  PROVE  Sizes(entries) \in Seq(Nat) /\ Len(Sizes(entries)) = Len(entries)
<1>1. PICK n \in Nat : n = Len(entries)
  OBVIOUS
<1>2. DOMAIN entries = 1 .. n
  BY <1>1
<1>3. Sizes(entries) = [i \in 1 .. n |-> Size(entries[i])]
  BY <1>2 DEF Sizes
<1>4. \A i \in 1 .. n : Size(entries[i]) \in Nat
  <2>1. \A i \in 1 .. n : entries[i] \in HeaderFields
    BY <1>1
  <2> QED BY <2>1, SizeBounds
<1>5. Sizes(entries) \in [1 .. n -> Nat]
  BY <1>3, <1>4
<1> QED BY <1>1, <1>5

\* So their sum is a number.
LEMMA SizeOfSeq ==
  ASSUME NEW entries \in Seq(HeaderFields)
  PROVE  SizeOf(entries) \in Nat /\ (entries = <<>> => SizeOf(entries) = 0)
<1>1. SizeOf(entries) = SumFunction(Sizes(entries))
  BY DEF SizeOf, Sizes
<1>2. Sizes(entries) \in Seq(Nat) /\ Len(Sizes(entries)) = Len(entries)
  BY SizesSeq
<1>3. SumFunction(Sizes(entries)) \in Nat
  BY <1>2, SumOfNatSeq
<1>4. entries = <<>> => Sizes(entries) = <<>>
  BY <1>2
<1>5. Sizes(entries) = <<>> => SumFunction(Sizes(entries)) = 0
  <2>1. Sizes(entries) \in Seq(Int)
    BY <1>2
  <2> QED BY <2>1, SumOfSeq
<1> QED BY <1>1, <1>3, <1>4, <1>5

\* One more entry adds its size.
LEMMA SizeOfAppend ==
  ASSUME NEW entries \in Seq(HeaderFields), NEW field \in HeaderFields
  PROVE  SizeOf(Append(entries, field)) = SizeOf(entries) + Size(field)
<1>1. PICK n \in Nat : n = Len(entries)
  OBVIOUS
<1>2. PICK more \in Seq(HeaderFields) : more = Append(entries, field)
  BY AppendProperties
<1>3. Len(more) = n + 1 /\ more[n + 1] = field /\ \A i \in 1 .. n : more[i] = entries[i]
  BY <1>1, <1>2
<1>4. PICK s, t : s = Sizes(entries) /\ t = Sizes(more)
  OBVIOUS
<1>5. /\ s \in Seq(Nat) /\ t \in Seq(Nat) /\ Len(s) = n /\ Len(t) = n + 1
      /\ Size(field) \in Nat
  BY <1>1, <1>3, <1>4, SizesSeq, SizeBounds
<1>6. \A i \in 1 .. n : s[i] = Size(entries[i])
  BY <1>1, <1>4 DEF Sizes
<1>7. \A i \in 1 .. n + 1 : t[i] = Size(more[i])
  BY <1>3, <1>4 DEF Sizes
<1>8. t = Append(s, Size(field))
  <2>1. PICK u : u = Append(s, Size(field))
    OBVIOUS
  <2>2. /\ u \in Seq(Nat) /\ Len(u) = n + 1 /\ u[n + 1] = Size(field)
        /\ \A i \in 1 .. n : u[i] = s[i]
    BY <1>5, <2>1
  <2>3. \A i \in 1 .. n + 1 : t[i] = u[i]
    BY <1>3, <1>6, <1>7, <2>2
  <2>4. t = u
    BY <1>5, <2>2, <2>3
  <2> QED BY <2>1, <2>4
<1>9. SumFunction(t) = SumFunction(s) + Size(field)
  <2>1. s \in Seq(Int) /\ Size(field) \in Int
    BY <1>5
  <2> QED BY <1>8, <2>1, SumAppend
<1> QED BY <1>2, <1>4, <1>9 DEF SizeOf, Sizes

\* The sizes of two parts of a table add up.
LEMMA SizeOfConcat ==
  ASSUME NEW X, NEW front \in Seq(HeaderFields)
  PROVE  \A back \in Seq(HeaderFields) : SizeOf(front \o back) = SizeOf(front) + SizeOf(back)
<1> DEFINE Such == {back \in Seq(HeaderFields) : SizeOf(front \o back) = SizeOf(front) + SizeOf(back)}
<1>1. <<>> \in Such
  <2>1. front \o <<>> = front /\ <<>> \in Seq(HeaderFields)
    OBVIOUS
  <2>2. SizeOf(front) \in Nat /\ SizeOf(<<>>) = 0
    BY <2>1, SizeOfSeq
  <2> QED BY <2>1, <2>2
<1>2. ASSUME NEW back \in Seq(HeaderFields), NEW field \in HeaderFields, back \in Such
      PROVE  Append(back, field) \in Such
  <2>1. front \o Append(back, field) = Append(front \o back, field)
    OBVIOUS
  <2>2. front \o back \in Seq(HeaderFields) /\ Append(back, field) \in Seq(HeaderFields)
    BY AppendProperties
  <2>3. /\ SizeOf(front) \in Nat /\ SizeOf(back) \in Nat /\ Size(field) \in Nat
        /\ SizeOf(front \o back) = SizeOf(front) + SizeOf(back)
    BY <1>2, SizeOfSeq, SizeBounds
  <2>4. SizeOf(Append(front \o back, field)) = SizeOf(front \o back) + Size(field)
    BY <2>2, SizeOfAppend
  <2>5. SizeOf(Append(back, field)) = SizeOf(back) + Size(field)
    BY SizeOfAppend
  <2>6. SizeOf(front \o Append(back, field)) = SizeOf(front) + SizeOf(Append(back, field))
    BY <2>1, <2>3, <2>4, <2>5
  <2> QED BY <2>2, <2>6
<1> HIDE DEF Such
<1>3. Seq(HeaderFields) \subseteq Such
  BY <1>1, <1>2, SeqInduction
<1> QED BY <1>3 DEF Such

\* What the first n entries take.
First(entries, n) == SizeOf(SubSeq(entries, 1, n))

\* It grows with every entry, from 0 to the size of all of them.
LEMMA FirstGrows ==
  ASSUME NEW entries \in Seq(HeaderFields)
  PROVE  /\ \A n \in 0 .. Len(entries) : First(entries, n) \in Nat
         /\ First(entries, 0) = 0 /\ First(entries, Len(entries)) = SizeOf(entries)
         /\ \A n \in 0 .. Len(entries) - 1 :
              First(entries, n + 1) = First(entries, n) + Size(entries[n + 1])
         /\ \A m, n \in 0 .. Len(entries) : m < n => First(entries, m) < First(entries, n)
<1>0. Len(entries) \in Nat
  OBVIOUS
<1>1. ASSUME NEW n \in 0 .. Len(entries) PROVE First(entries, n) \in Nat
  <2>1. SubSeq(entries, 1, n) \in Seq(HeaderFields)
    BY <1>0
  <2> QED BY <2>1, SizeOfSeq DEF First
<1>2. First(entries, 0) = 0 /\ First(entries, Len(entries)) = SizeOf(entries)
  <2>1. SubSeq(entries, 1, 0) = <<>> /\ <<>> \in Seq(HeaderFields) /\ SubSeq(entries, 1, Len(entries)) = entries
    OBVIOUS
  <2> QED BY <2>1, SizeOfSeq DEF First
<1>3. ASSUME NEW n \in 0 .. Len(entries) - 1
      PROVE  First(entries, n + 1) = First(entries, n) + Size(entries[n + 1])
  <2>1. /\ SubSeq(entries, 1, n) \in Seq(HeaderFields) /\ entries[n + 1] \in HeaderFields
        /\ SubSeq(entries, 1, n + 1) = Append(SubSeq(entries, 1, n), entries[n + 1])
    BY <1>0
  <2> QED BY <2>1, SizeOfAppend DEF First
<1>4. ASSUME NEW m \in 0 .. Len(entries)
      PROVE  \A n \in 0 .. Len(entries) : m < n => First(entries, m) < First(entries, n)
  <2> DEFINE S == {n \in Nat : n <= Len(entries) /\ m < n => First(entries, m) < First(entries, n)}
  <2>1. 0 \in S
    OBVIOUS
  <2>2. ASSUME NEW n \in Nat, n \in S PROVE n + 1 \in S
    <3> SUFFICES ASSUME n + 1 <= Len(entries), m < n + 1
                 PROVE  First(entries, m) < First(entries, n + 1)
      OBVIOUS
    <3>1. n \in 0 .. Len(entries) - 1 /\ n \in 0 .. Len(entries) /\ n + 1 \in 0 .. Len(entries)
      BY <1>0
    <3>2. First(entries, n + 1) = First(entries, n) + Size(entries[n + 1])
      BY <1>3, <3>1
    <3>3. First(entries, n) \in Nat /\ First(entries, m) \in Nat /\ Size(entries[n + 1]) \in Nat \ {0}
      BY <1>1, <3>1, SizeBounds
    <3>4. First(entries, m) <= First(entries, n)
      <4>1. m = n \/ m < n
        BY <1>0
      <4> QED BY <2>2, <3>1, <3>3, <4>1
    <3> QED BY <3>2, <3>3, <3>4
  <2>3. Nat \subseteq S
    <3> HIDE DEF S
    <3> QED BY <2>1, <2>2, Induction
  <2> QED BY <1>0, <2>3
<1> QED BY <1>1, <1>2, <1>3, <1>4

\* The size of the entries from one on.
LEMMA SizeOfLast ==
  ASSUME NEW entries \in Seq(HeaderFields), NEW n \in 0 .. Len(entries)
  PROVE  SizeOf(entries) - SizeOf(SubSeq(entries, n + 1, Len(entries))) = First(entries, n)
<1>1. PICK a, b : a = SubSeq(entries, 1, n) /\ b = SubSeq(entries, n + 1, Len(entries))
  OBVIOUS
<1>2. a \in Seq(HeaderFields) /\ b \in Seq(HeaderFields) /\ entries = a \o b
  <2>1. PICK len \in Nat : len = Len(entries)
    OBVIOUS
  <2>2. a \in Seq(HeaderFields) /\ Len(a) = n /\ \A i \in 1 .. n : a[i] = entries[i]
    BY <1>1
  <2>3. /\ b \in Seq(HeaderFields) /\ Len(b) = len - n
        /\ \A i \in 1 .. len - n : b[i] = entries[n + i]
    BY <1>1, <2>1
  <2>4. PICK c : c = a \o b
    OBVIOUS
  <2>5. /\ c \in Seq(HeaderFields) /\ Len(c) = len
        /\ \A i \in 1 .. n : c[i] = a[i]
        /\ \A i \in n + 1 .. len : c[i] = b[i - n]
    BY <2>1, <2>2, <2>3, <2>4
  <2>6. ASSUME NEW i \in 1 .. len PROVE c[i] = entries[i]
    <3>1. CASE i \in 1 .. n
      BY <2>2, <2>5, <3>1
    <3>2. CASE i \in n + 1 .. len
      <4>1. i - n \in 1 .. len - n /\ n + (i - n) = i
        BY <3>2
      <4> QED BY <2>3, <2>5, <3>2, <4>1
    <3> QED BY <3>1, <3>2
  <2>7. c = entries
    BY <2>1, <2>5, <2>6
  <2> QED BY <2>2, <2>3, <2>4, <2>7
<1>3. SizeOf(entries) = SizeOf(a) + SizeOf(b) /\ SizeOf(a) \in Nat /\ SizeOf(b) \in Nat
  BY <1>2, SizeOfConcat, SizeOfSeq
<1>4. SizeOf(entries) - SizeOf(b) = SizeOf(a)
  BY <1>3
<1> QED BY <1>1, <1>4 DEF First

-----------------------------------------------------------------------------
(* As many entries as fit. *)

\* n is the largest number of entries, from the newest on, that fit into room.
Fits(entries, room, n) ==
    /\ First(entries, n) <= room
    /\ n < Len(entries) => First(entries, n + 1) > room

\* There is at most one such number.
LEMMA FitsUnique ==
  ASSUME NEW entries \in Seq(HeaderFields), NEW room \in Int,
         NEW m \in 0 .. Len(entries), NEW n \in 0 .. Len(entries),
         Fits(entries, room, m), Fits(entries, room, n)
  PROVE  m = n
<1>1. ASSUME NEW a \in 0 .. Len(entries), NEW b \in 0 .. Len(entries),
             Fits(entries, room, a), Fits(entries, room, b), a < b
      PROVE  FALSE
  <2>1. /\ Len(entries) \in Nat /\ a < Len(entries) /\ a + 1 \in 0 .. Len(entries)
        /\ a + 1 = b \/ a + 1 < b
    BY <1>1
  <2>2. First(entries, a + 1) > room /\ First(entries, b) <= room
    BY <1>1, <2>1 DEF Fits
  <2>3. First(entries, a + 1) \in Nat /\ First(entries, b) \in Nat
    BY <2>1, FirstGrows
  <2>4. a + 1 < b => First(entries, a + 1) < First(entries, b)
    BY <2>1, FirstGrows
  <2> QED BY <2>1, <2>2, <2>3, <2>4
<1> QED BY <1>1

\* Some number of entries fits.
LEMMA FitsExists ==
  ASSUME NEW entries \in Seq(HeaderFields), NEW room \in Nat
  PROVE  \E n \in 0 .. Len(entries) : Fits(entries, room, n)
<1>0. PICK len \in Nat : len = Len(entries)
  OBVIOUS
<1> DEFINE S == {k \in 0 .. len : First(entries, len - k) <= room}
<1>1. len \in S
  <2>1. len \in 0 .. len /\ len - len = 0 /\ First(entries, 0) = 0
    BY FirstGrows
  <2> QED BY <2>1
<1>2. PICK k \in S : \A j \in S : k <= j
  <2>1. S \in SUBSET Nat
    OBVIOUS
  <2> HIDE DEF S
  <2> QED BY <1>1, <2>1, LeastOf
<1>3. PICK n \in 0 .. len : n = len - k
  OBVIOUS
<1>4. First(entries, n) <= room
  BY <1>3
<1>5. ASSUME n < len PROVE First(entries, n + 1) > room
  <2>1. k - 1 \in 0 .. len /\ len - (k - 1) = n + 1 /\ ~(k <= k - 1)
    BY <1>3, <1>5
  <2>2. k - 1 \notin S
    BY <1>2, <2>1
  <2>3. ~(First(entries, n + 1) <= room)
    BY <2>1, <2>2
  <2>4. First(entries, n + 1) \in Nat
    <3>1. n + 1 \in 0 .. Len(entries)
      BY <1>0, <1>5
    <3> QED BY <3>1, FirstGrows
  <2> QED BY <2>3, <2>4
<1> QED BY <1>0, <1>4, <1>5 DEF Fits

\* The table that is prescribed has that many.
LEMMA PrescribedFits ==
  ASSUME NEW entries \in Seq(HeaderFields), NEW max \in Nat,
         NEW n \in 0 .. Len(entries), Fits(entries, max, n)
  PROVE  Prescribed(entries, max) =
           [entries |-> SubSeq(entries, 1, n), max_size |-> max,
            current_size |-> First(entries, n)]
<1> DEFINE m == CHOOSE m \in 0 .. Len(entries) :
                  /\ SizeOf(SubSeq(entries, 1, m)) <= max
                  /\ m < Len(entries) => SizeOf(SubSeq(entries, 1, m + 1)) > max
<1>1. m \in 0 .. Len(entries) /\ Fits(entries, max, m)
  BY DEF Fits, First
<1>2. Prescribed(entries, max) =
        [entries |-> SubSeq(entries, 1, m), max_size |-> max,
         current_size |-> SizeOf(SubSeq(entries, 1, m))]
  BY DEF Prescribed
<1> HIDE DEF m
<1>3. m = n
  <2>1. max \in Int
    OBVIOUS
  <2> QED BY <1>1, <2>1, FitsUnique
<1> QED BY <1>2, <1>3 DEF First

-----------------------------------------------------------------------------
(* Well-formed tables. *)

\* A table whose size is counted right and within the maximum.
WellFormed(table) ==
    /\ table \in [entries : Seq(HeaderFields), max_size : Nat, current_size : Nat]
    /\ table.current_size = SizeOf(table.entries)
    /\ table.current_size <= table.max_size

\* What is left of a table when it is to take at most room.
LEMMA EvictedFits ==
  ASSUME NEW table, WellFormed(table), NEW room \in Int
  PROVE  \E n \in 0 .. Len(table.entries) :
           /\ Evicted(table, room) =
                [entries |-> SubSeq(table.entries, 1, n), max_size |-> table.max_size,
                 current_size |-> First(table.entries, n)]
           /\ room >= 0 => Fits(table.entries, room, n)
           /\ room < 0 => n = 0
<1>0. PICK entries \in Seq(HeaderFields) : entries = table.entries
  BY DEF WellFormed
<1>1. PICK len \in Nat : len = Len(entries)
  OBVIOUS
<1> DEFINE SizeWithout(k) == table.current_size - SizeOf(SubSeq(entries, len - k + 1, len))
           Stops(k) == /\ k = len \/ SizeWithout(k) <= room
                       /\ \A j \in 0 .. k - 1 : SizeWithout(j) > room
           k == CHOOSE k \in 0 .. len : Stops(k)
<1>2. ASSUME NEW j \in 0 .. len
      PROVE  /\ SizeWithout(j) = First(entries, len - j)
             /\ First(entries, len - j) \in Nat /\ len - j \in 0 .. len
  <2>1. len - j \in 0 .. Len(entries)
    BY <1>1
  <2>2. SizeOf(entries) - SizeOf(SubSeq(entries, (len - j) + 1, Len(entries)))
          = First(entries, len - j)
    BY <2>1, SizeOfLast
  <2>3. First(entries, len - j) \in Nat
    BY <2>1, FirstGrows
  <2>4. table.current_size = SizeOf(entries)
    BY <1>0 DEF WellFormed
  <2> QED BY <1>1, <2>1, <2>2, <2>3, <2>4
<1> HIDE DEF SizeWithout
<1>3. \E j \in 0 .. len : Stops(j)
  <2> DEFINE S == {j \in 0 .. len : j = len \/ SizeWithout(j) <= room}
  <2>1. len \in S /\ S \in SUBSET Nat
    OBVIOUS
  <2>2. PICK j \in S : \A i \in S : j <= i
    <3> HIDE DEF S
    <3> QED BY <2>1, LeastOf
  <2>3. ASSUME NEW i \in 0 .. j - 1 PROVE SizeWithout(i) > room
    <3>1. i \in 0 .. len /\ ~(j <= i)
      BY <2>2
    <3>2. ~(SizeWithout(i) <= room)
      BY <2>2, <3>1
    <3>3. SizeWithout(i) \in Nat
      BY <1>2, <3>1
    <3> QED BY <3>2, <3>3
  <2> QED BY <2>2, <2>3
<1>4. k \in 0 .. len /\ Stops(k)
  <2> HIDE DEF Stops
  <2> QED BY <1>3
<1>5. Evicted(table, room) = [table EXCEPT !.entries = SubSeq(@, 1, len - k),
                                           !.current_size = SizeWithout(k)]
  BY <1>0, <1>1 DEF Evicted, SizeWithout
<1> HIDE DEF k
<1>6. PICK n : n = len - k
  OBVIOUS
<1>7. n \in 0 .. len /\ SizeWithout(k) = First(entries, n) /\ First(entries, n) \in Nat
  BY <1>2, <1>4, <1>6
<1>8. Evicted(table, room) =
        [entries |-> SubSeq(entries, 1, n), max_size |-> table.max_size,
         current_size |-> First(entries, n)]
  BY <1>0, <1>5, <1>6, <1>7 DEF WellFormed
<1>9. ASSUME n < len PROVE First(entries, n + 1) > room
  <2>1. k - 1 \in 0 .. k - 1 /\ k - 1 \in 0 .. len /\ len - (k - 1) = n + 1
    BY <1>4, <1>6, <1>9
  <2>2. SizeWithout(k - 1) > room
    BY <1>4, <2>1
  <2>3. SizeWithout(k - 1) = First(entries, len - (k - 1))
    BY <1>2, <2>1
  <2> QED BY <2>1, <2>2, <2>3
<1>10. n = 0 \/ First(entries, n) <= room
  <2>1. k = len \/ SizeWithout(k) <= room
    BY <1>4
  <2> QED BY <1>4, <1>6, <1>7, <2>1
<1>11. First(entries, 0) = 0
  BY FirstGrows
<1>12. room >= 0 => Fits(entries, room, n)
  BY <1>1, <1>9, <1>10, <1>11 DEF Fits
<1>13. room < 0 => n = 0
  BY <1>7, <1>10
<1> QED BY <1>0, <1>1, <1>7, <1>8, <1>12, <1>13

\* The table that is prescribed is well-formed.
LEMMA PrescribedWellFormed ==
  ASSUME NEW entries \in Seq(HeaderFields), NEW max \in Nat
  PROVE  WellFormed(Prescribed(entries, max))
<1>1. PICK n \in 0 .. Len(entries) : Fits(entries, max, n)
  BY FitsExists
<1>2. PICK t : t = Prescribed(entries, max)
  OBVIOUS
<1>3. t = [entries |-> SubSeq(entries, 1, n), max_size |-> max,
           current_size |-> First(entries, n)]
  BY <1>1, <1>2, PrescribedFits
<1>4. SubSeq(entries, 1, n) \in Seq(HeaderFields)
  <2>1. Len(entries) \in Nat
    OBVIOUS
  <2> QED BY <2>1
<1>5. First(entries, n) \in Nat /\ First(entries, n) <= max
  BY <1>1, FirstGrows DEF Fits
<1>6. First(entries, n) = SizeOf(SubSeq(entries, 1, n))
  BY DEF First
<1> QED BY <1>2, <1>3, <1>4, <1>5, <1>6 DEF WellFormed

\* Resize makes the table that is prescribed.
LEMMA ResizePrescribed ==
  ASSUME NEW table, WellFormed(table), NEW size \in Nat
  PROVE  Resize(table, size) = Prescribed(table.entries, size)
<1>1. size \in Int /\ size >= 0 /\ table.entries \in Seq(HeaderFields)
  BY DEF WellFormed
<1>2. PICK n \in 0 .. Len(table.entries) :
        /\ Evicted(table, size) =
             [entries |-> SubSeq(table.entries, 1, n), max_size |-> table.max_size,
              current_size |-> First(table.entries, n)]
        /\ Fits(table.entries, size, n)
  BY <1>1, EvictedFits
<1>3. Prescribed(table.entries, size) =
        [entries |-> SubSeq(table.entries, 1, n), max_size |-> size,
         current_size |-> First(table.entries, n)]
  BY <1>1, <1>2, PrescribedFits
<1>4. PICK e, c : e = SubSeq(table.entries, 1, n) /\ c = First(table.entries, n)
  OBVIOUS
<1>5. Evicted(table, size) = [entries |-> e, max_size |-> table.max_size, current_size |-> c]
  BY <1>2, <1>4
<1>6. Resize(table, size) = [entries |-> e, max_size |-> size, current_size |-> c]
  BY <1>5 DEF Resize
<1> QED BY <1>3, <1>4, <1>6

\* The first entries of a sequence with a new one in front.
LEMMA FirstOfLonger ==
  ASSUME NEW entries \in Seq(HeaderFields), NEW field \in HeaderFields, NEW n \in 0 .. Len(entries)
  PROVE  /\ <<field>> \o entries \in Seq(HeaderFields) /\ Len(<<field>> \o entries) = Len(entries) + 1
         /\ SubSeq(<<field>> \o entries, 1, n + 1) = <<field>> \o SubSeq(entries, 1, n)
         /\ First(<<field>> \o entries, n + 1) = Size(field) + First(entries, n)
<1>0. Len(entries) \in Nat /\ <<field>> \in Seq(HeaderFields) /\ Len(<<field>>) = 1
  OBVIOUS
<1>1. PICK longer : longer = <<field>> \o entries
  OBVIOUS
<1>2. /\ longer \in Seq(HeaderFields) /\ Len(longer) = Len(entries) + 1 /\ longer[1] = field
      /\ \A i \in 1 .. Len(entries) : longer[i + 1] = entries[i]
  BY <1>0, <1>1
<1>3. PICK part : part = SubSeq(entries, 1, n)
  OBVIOUS
<1>4. part \in Seq(HeaderFields) /\ Len(part) = n /\ \A i \in 1 .. n : part[i] = entries[i]
  BY <1>0, <1>3
<1>5. SubSeq(longer, 1, n + 1) = <<field>> \o part
  <2>1. PICK a, b : a = SubSeq(longer, 1, n + 1) /\ b = <<field>> \o part
    OBVIOUS
  <2>2. a \in Seq(HeaderFields) /\ Len(a) = n + 1 /\ \A i \in 1 .. n + 1 : a[i] = longer[i]
    BY <1>0, <1>2, <2>1
  <2>3. b \in Seq(HeaderFields) /\ Len(b) = n + 1 /\ b[1] = field /\ \A i \in 1 .. n : b[i + 1] = part[i]
    BY <1>0, <1>4, <2>1
  <2>4. ASSUME NEW i \in 1 .. n + 1 PROVE a[i] = b[i]
    <3>1. CASE i = 1
      BY <1>2, <2>2, <2>3, <3>1
    <3>2. CASE i # 1
      <4>1. PICK j \in 1 .. n : i = j + 1
        <5>1. i - 1 \in 1 .. n /\ i = (i - 1) + 1
          BY <3>2
        <5> QED BY <5>1
      <4>2. j \in 1 .. Len(entries)
        BY <1>0
      <4>3. longer[j + 1] = entries[j] /\ part[j] = entries[j] /\ b[j + 1] = part[j]
        BY <1>2, <1>4, <2>3, <4>2
      <4> QED BY <2>2, <4>1, <4>3
    <3> QED BY <3>1, <3>2
  <2>5. a = b
    BY <2>2, <2>3, <2>4
  <2> QED BY <2>1, <2>5
<1>6. SizeOf(<<field>> \o part) = SizeOf(<<field>>) + SizeOf(part)
  BY <1>0, <1>4, SizeOfConcat
<1>7. SizeOf(<<field>>) = Size(field)
  <2>1. <<field>> = Append(<<>>, field) /\ <<>> \in Seq(HeaderFields)
    OBVIOUS
  <2>2. SizeOf(Append(<<>>, field)) = SizeOf(<<>>) + Size(field) /\ SizeOf(<<>>) = 0
    BY <2>1, SizeOfAppend, SizeOfSeq
  <2> QED BY <2>1, <2>2, SizeBounds
<1> QED BY <1>1, <1>2, <1>3, <1>5, <1>6, <1>7 DEF First

\* add_entry makes the table that is prescribed.
LEMMA AddEntryPrescribed ==
  ASSUME NEW table, WellFormed(table), NEW field \in HeaderFields
  PROVE  AddEntry(table, field) = Prescribed(<<field>> \o table.entries, table.max_size)
<1>0. PICK entries \in Seq(HeaderFields), max \in Nat : entries = table.entries /\ max = table.max_size
  BY DEF WellFormed
<1>1. PICK s \in Nat \ {0} : s = Size(field)
  BY SizeBounds
<1>2. max - s \in Int
  OBVIOUS
<1>3. PICK n \in 0 .. Len(entries) :
        /\ Evicted(table, max - s) =
             [entries |-> SubSeq(entries, 1, n), max_size |-> max,
              current_size |-> First(entries, n)]
        /\ max - s >= 0 => Fits(entries, max - s, n)
        /\ max - s < 0 => n = 0
  BY <1>0, <1>2, EvictedFits
<1>4. PICK longer : longer = <<field>> \o entries
  OBVIOUS
<1>5. longer \in Seq(HeaderFields) /\ Len(longer) = Len(entries) + 1 /\ Len(entries) \in Nat
  BY <1>4, FirstOfLonger
<1>6. \A i \in 0 .. Len(entries) :
        First(longer, i + 1) = s + First(entries, i) /\ First(entries, i) \in Nat
  BY <1>1, <1>4, FirstOfLonger, FirstGrows
<1>7. CASE s > max
  <2>1. n = 0 /\ 0 \in 0 .. Len(entries) /\ 0 \in 0 .. Len(longer) /\ 0 < Len(longer)
    BY <1>3, <1>5, <1>7
  <2>2. First(longer, 0) = 0 /\ First(entries, 0) = 0
    BY <1>5, FirstGrows
  <2>3. First(longer, 0 + 1) > max
    BY <1>6, <1>7, <2>1
  <2>4. Fits(longer, max, 0)
    BY <2>2, <2>3 DEF Fits
  <2>5. Prescribed(longer, max) = [entries |-> SubSeq(longer, 1, 0), max_size |-> max,
                                   current_size |-> First(longer, 0)]
    BY <1>5, <2>1, <2>4, PrescribedFits
  <2>6. SubSeq(longer, 1, 0) = SubSeq(entries, 1, 0)
    BY <1>5
  <2>7. AddEntry(table, field) = Evicted(table, max - s)
    BY <1>0, <1>1, <1>7 DEF AddEntry
  <2> QED BY <1>0, <1>3, <1>4, <2>1, <2>2, <2>5, <2>6, <2>7
<1>8. CASE ~(s > max)
  <2>1. Fits(entries, max - s, n)
    BY <1>3, <1>8
  <2>2. n + 1 \in 0 .. Len(longer)
    BY <1>5
  <2>3. First(longer, n + 1) <= max
    BY <1>6, <2>1 DEF Fits
  <2>4. ASSUME n + 1 < Len(longer) PROVE First(longer, (n + 1) + 1) > max
    <3>1. n < Len(entries) /\ n + 1 \in 0 .. Len(entries)
      BY <1>5, <2>4
    <3>2. First(entries, n + 1) > max - s
      BY <2>1, <3>1 DEF Fits
    <3> QED BY <1>6, <3>1, <3>2
  <2>5. Fits(longer, max, n + 1)
    BY <2>3, <2>4 DEF Fits
  <2>6. Prescribed(longer, max) = [entries |-> SubSeq(longer, 1, n + 1), max_size |-> max,
                                   current_size |-> First(longer, n + 1)]
    BY <1>5, <2>2, <2>5, PrescribedFits
  <2>7. PICK rest : rest = Evicted(table, max - s)
    OBVIOUS
  <2>8. AddEntry(table, field) =
          [rest EXCEPT !.entries = <<field>> \o @, !.current_size = @ + s]
    BY <1>0, <1>1, <1>8, <2>7 DEF AddEntry
  <2>9. AddEntry(table, field) =
          [entries |-> <<field>> \o SubSeq(entries, 1, n), max_size |-> max,
           current_size |-> First(entries, n) + s]
    <3>1. PICK e, c : e = SubSeq(entries, 1, n) /\ c = First(entries, n)
      OBVIOUS
    <3>2. rest = [entries |-> e, max_size |-> max, current_size |-> c]
      BY <1>3, <2>7, <3>1
    <3>3. AddEntry(table, field) =
            [entries |-> <<field>> \o e, max_size |-> max, current_size |-> c + s]
      BY <2>8, <3>2
    <3> QED BY <3>1, <3>3
  <2>10. SubSeq(longer, 1, n + 1) = <<field>> \o SubSeq(entries, 1, n)
    BY <1>4, FirstOfLonger
  <2>11. First(longer, n + 1) = First(entries, n) + s
    BY <1>6
  <2> QED BY <1>0, <1>4, <2>6, <2>9, <2>10, <2>11
<1> QED BY <1>7, <1>8

\* So both keep a table well-formed.
LEMMA TablesKept ==
  ASSUME NEW table, WellFormed(table)
  PROVE  /\ \A field \in HeaderFields : WellFormed(AddEntry(table, field))
         /\ \A size \in Nat : WellFormed(Resize(table, size))
<1>1. table.entries \in Seq(HeaderFields) /\ table.max_size \in Nat
  BY DEF WellFormed
<1>2. ASSUME NEW field \in HeaderFields PROVE WellFormed(AddEntry(table, field))
  <2>1. <<field>> \o table.entries \in Seq(HeaderFields)
    BY <1>1
  <2> QED BY <1>1, <2>1, AddEntryPrescribed, PrescribedWellFormed
<1>3. ASSUME NEW size \in Nat PROVE WellFormed(Resize(table, size))
  BY <1>1, ResizePrescribed, PrescribedWellFormed
<1> QED BY <1>2, <1>3

\* A new table is well-formed.
LEMMA EmptyWellFormed ==
  ASSUME NEW max \in Nat PROVE WellFormed(EmptyTable(max))
<1>1. <<>> \in Seq(HeaderFields) /\ SizeOf(<<>>) = 0
  <2>1. <<>> \in Seq(HeaderFields)
    OBVIOUS
  <2> QED BY <2>1, SizeOfSeq
<1>2. EmptyTable(max) = [entries |-> <<>>, max_size |-> max, current_size |-> 0]
  BY DEF EmptyTable
<1> QED BY <1>1, <1>2 DEF WellFormed

-----------------------------------------------------------------------------
(* What the decoder makes of a representation. *)

\* The representations.
Ops == {"indexed", "incremental", "resize", "plain"}

\* Their integers have some bits in the first byte.
LEMMA PrefixBounds == \A op \in Ops : Prefix[op] \in Nat
BY DEF Prefix, Ops

\* The strings that a block may have.
Literals == {AsString(coding, string) : coding \in {"raw", "huffman"}, string \in Strings}

\* Their lengths arrive, and the decoder makes strings of them.
LEMMA LiteralFits ==
  ASSUME NEW literal \in Literals
  PROVE  LengthFits(literal) /\ DecodeString(literal) \in Strings
<1>1. PICK coding \in {"raw", "huffman"}, string \in Strings : literal = AsString(coding, string)
  BY DEF Literals
<1>2. PICK octets \in Strings : octets = IF coding = "huffman" THEN Huffman[string] ELSE string
  BY HpackAssumption
<1>3. PICK n \in Nat : n = Octets[octets]
  BY HpackAssumption
<1>4. PICK max \in Nat : max = 127
  OBVIOUS
<1>5. PICK bytes : bytes = EncodeInteger(n, max)
  OBVIOUS
<1>6. literal.length = bytes /\ literal.octets = octets
  BY <1>1, <1>2, <1>3, <1>4, <1>5 DEF AsString
<1>7. DecodeInteger(bytes, max) = <<n, Len(bytes)>>
  BY <1>5, IntegerDecodes
<1>8. LengthFits(literal)
  BY <1>3, <1>4, <1>6, <1>7 DEF LengthFits
<1>9. Lossy[octets] \in Strings
  BY HpackAssumption
<1> QED BY <1>6, <1>8, <1>9 DEF DecodeString

\* A string that is legible is read as itself.
LEMMA LegibleRead ==
  ASSUME NEW coding, NEW string, Legible(AsString(coding, string))
  PROVE  DecodeString(AsString(coding, string)) = string
<1>1. coding # "huffman"
  BY DEF Legible, AsString
<1>2. AsString(coding, string).octets = string
  BY <1>1 DEF AsString
<1> QED BY <1>2 DEF Legible, DecodeString

\* What a block may be made of.
Parts == {Part(op, n, strings) : op \in Ops, n \in Nat, strings \in Seq(Literals)}

\* The integer of a representation arrives.
LEMMA PartDecodes ==
  ASSUME NEW op \in Ops, NEW n \in Nat, NEW strings
  PROVE  /\ Part(op, n, strings).op = op
         /\ Part(op, n, strings).strings = strings
         /\ DecodeInteger(Part(op, n, strings).integer, Prefix[Part(op, n, strings).op])
              = <<n, Len(Part(op, n, strings).integer)>>
<1>0. PICK max \in Nat : max = Prefix[op]
  BY PrefixBounds
<1>1. PICK bytes : bytes = EncodeInteger(n, max)
  OBVIOUS
<1>2. Part(op, n, strings) = [op |-> op, integer |-> bytes, strings |-> strings]
  BY <1>0, <1>1 DEF Part
<1>3. DecodeInteger(bytes, max) = <<n, Len(bytes)>>
  BY <1>1, IntegerDecodes
<1> QED BY <1>0, <1>2, <1>3

\* A representation of a field, whose index exists.
LEMMA FieldDecodes ==
  ASSUME NEW table, NEW fields, NEW op \in Ops, op # "resize",
         NEW n \in Nat, n \in Indices(table) \/ (n = 0 /\ op # "indexed"),
         NEW strings \in Seq(Literals), Len(strings) = Spelled(op, n),
         NEW part, part = Part(op, n, strings),
         NEW field, field = FieldOf(table, part, n)
  PROVE  DecodePart(Arrived(table, fields), part) =
           Arrived(IF op = "incremental" THEN AddEntry(table, field) ELSE table,
                Append(fields, field))
<1>1. PICK s : s = Arrived(table, fields)
  OBVIOUS
<1>2. PICK decoded : decoded = DecodeInteger(part.integer, Prefix[part.op])
  OBVIOUS
<1>3. part.op = op /\ part.strings = strings /\ decoded = <<n, Len(part.integer)>>
  BY <1>2, PartDecodes
<1>4. decoded # <<>> /\ decoded[1] = n /\ decoded[2] = Len(part.integer)
  BY <1>3
<1>5. s.ok = TRUE /\ s.table = table /\ s.fields = fields
  BY <1>1 DEF Arrived
<1>6. \A i \in DOMAIN part.strings : LengthFits(part.strings[i])
  BY <1>3, LiteralFits
<1>7. DecodePart(s, part) =
        [s EXCEPT !.fields = Append(@, field),
                  !.table = IF part.op = "incremental" THEN AddEntry(@, field) ELSE @]
  BY <1>2, <1>3, <1>4, <1>5, <1>6 DEF DecodePart
<1>8. PICK t, fs : /\ t = IF op = "incremental" THEN AddEntry(table, field) ELSE table
                   /\ fs = Append(fields, field)
  OBVIOUS
<1>9. DecodePart(s, part) = [s EXCEPT !.fields = fs, !.table = t]
  BY <1>3, <1>5, <1>7, <1>8
<1> QED BY <1>1, <1>8, <1>9 DEF Arrived

\* Indices are numbers, and none of them is 0, which stands for no index.
LEMMA IndicesNat ==
  ASSUME NEW table, WellFormed(table)
  PROVE  Indices(table) \subseteq Nat /\ 0 \notin Indices(table)
<1>1. DOMAIN Static = {2, 3, 51}
  BY DEF Static
<1>2. Len(table.entries) \in Nat
  BY DEF WellFormed
<1> QED BY <1>1, <1>2 DEF Indices, StaticSize

\* They mean fields.
LEMMA IndexedField ==
  ASSUME NEW table, WellFormed(table), NEW index \in Indices(table)
  PROVE  Indexed(table, index) \in HeaderFields
<1>1. DOMAIN Static = {2, 3, 51}
  BY DEF Static
<1>2. table.entries \in Seq(HeaderFields) /\ Len(table.entries) \in Nat
  BY DEF WellFormed
<1>3. CASE index \in DOMAIN Static
  <2>1. Static[index] \in HeaderFields
    BY <1>3, HpackAssumption
  <2> QED BY <1>1, <1>3, <2>1 DEF Indexed, StaticSize
<1>4. CASE index \notin DOMAIN Static
  <2>1. index \in 61 + 1 .. 61 + Len(table.entries)
    BY <1>4 DEF Indices, StaticSize
  <2>2. index - 61 \in 1 .. Len(table.entries) /\ ~(index <= 61)
    BY <1>2, <2>1
  <2>3. table.entries[index - 61] \in HeaderFields
    BY <1>2, <2>2
  <2> QED BY <2>2, <2>3 DEF Indexed, StaticSize
<1> QED BY <1>3, <1>4

\* The decoder's state in a block, whether it is in order or not.
Decoding(s) ==
    \E table, fields, ok : /\ s = [table |-> table, fields |-> fields, ok |-> ok]
                           /\ WellFormed(table) /\ ok \in BOOLEAN

\* Whatever the strings are read as, the table stays well-formed.
LEMMA DecodePartKeeps ==
  ASSUME NEW s, Decoding(s), NEW part \in Parts
  PROVE  Decoding(DecodePart(s, part))
<1>1. PICK op \in Ops, n \in Nat, strings \in Seq(Literals) : part = Part(op, n, strings)
  BY DEF Parts
<1>2. PICK table, fields, ok : /\ s = [table |-> table, fields |-> fields, ok |-> ok]
                               /\ WellFormed(table) /\ ok \in BOOLEAN
  BY DEF Decoding
<1>3. PICK decoded : decoded = DecodeInteger(part.integer, Prefix[part.op])
  OBVIOUS
<1>4. part.op = op /\ part.strings = strings /\ decoded = <<n, Len(part.integer)>>
  BY <1>1, <1>3, PartDecodes
<1>5. decoded # <<>> /\ decoded[1] = n /\ decoded[2] = Len(part.integer)
  BY <1>4
<1>6. \A i \in DOMAIN part.strings : LengthFits(part.strings[i])
  BY <1>4, LiteralFits
<1>7. PICK field : field = FieldOf(table, part, n)
  OBVIOUS
<1>8. DecodePart(s, part) =
        IF ~ok THEN s
        ELSE IF Len(strings) # Spelled(op, n) THEN [s EXCEPT !.ok = FALSE]
        ELSE IF op = "resize" THEN [s EXCEPT !.table = Resize(@, n)]
        ELSE IF n \notin Indices(table) /\ ~(n = 0 /\ op # "indexed")
             THEN [s EXCEPT !.ok = FALSE]
        ELSE [s EXCEPT !.fields = Append(@, field),
                       !.table = IF op = "incremental" THEN AddEntry(@, field) ELSE @]
  BY <1>2, <1>3, <1>4, <1>5, <1>6, <1>7 DEF DecodePart
<1>9. CASE ~ok
  BY <1>8, <1>9
<1>10. CASE DecodePart(s, part) = [s EXCEPT !.ok = FALSE]
  <2>1. DecodePart(s, part) = [table |-> table, fields |-> fields, ok |-> FALSE]
    BY <1>2, <1>10
  <2> QED BY <1>2, <2>1 DEF Decoding
<1>11. CASE op = "resize" /\ DecodePart(s, part) = [s EXCEPT !.table = Resize(@, n)]
  <2>1. DecodePart(s, part) = [table |-> Resize(table, n), fields |-> fields, ok |-> ok]
    BY <1>2, <1>11
  <2>2. WellFormed(Resize(table, n))
    BY <1>2, TablesKept
  <2> QED BY <1>2, <2>1, <2>2 DEF Decoding
<1>12. CASE /\ ok /\ op # "resize" /\ Len(strings) = Spelled(op, n)
            /\ n \in Indices(table) \/ (n = 0 /\ op # "indexed")
  <2>1. PICK t : t = IF op = "incremental" THEN AddEntry(table, field) ELSE table
    OBVIOUS
  <2>2. DecodePart(s, part) = [table |-> t, fields |-> Append(fields, field), ok |-> ok]
    BY <1>2, <1>8, <1>12, <2>1
  <2>3. ASSUME op = "incremental" PROVE field \in HeaderFields
    <3>1. Len(strings) = IF n = 0 THEN 2 ELSE 1
      BY <1>12, <2>3 DEF Spelled
    <3>2. strings[1] \in Literals /\ Last(strings) \in Literals
      BY <3>1 DEF Last
    <3>3. DecodeString(strings[1]) \in Strings /\ DecodeString(Last(strings)) \in Strings
      BY <3>2, LiteralFits
    <3>4. n # 0 => Indexed(table, n)[1] \in Strings
      BY <1>2, <1>12, IndexedField DEF HeaderFields
    <3>5. field = <<IF n = 0 THEN DecodeString(strings[1]) ELSE Indexed(table, n)[1],
                    DecodeString(Last(strings))>>
      BY <1>4, <1>7, <2>3 DEF FieldOf
    <3> QED BY <3>3, <3>4, <3>5 DEF HeaderFields
  <2>4. WellFormed(t)
    BY <1>2, <2>1, <2>3, TablesKept
  <2> QED BY <1>2, <2>2, <2>4 DEF Decoding
<1> QED BY <1>8, <1>9, <1>10, <1>11, <1>12

\* And so it does over a whole block.
LEMMA DecodedKeeps ==
  ASSUME NEW table, WellFormed(table)
  PROVE  \A parts \in Seq(Parts) : WellFormed(Decoded(table, parts).table)
<1> DEFINE Kept == {parts \in Seq(Parts) : Decoding(Decoded(table, parts))}
<1>1. <<>> \in Kept
  <2>1. Decoded(table, <<>>) = [table |-> table, fields |-> <<>>, ok |-> TRUE]
    BY DecodedEmpty DEF Arrived
  <2>2. Decoding(Decoded(table, <<>>))
    BY <2>1 DEF Decoding
  <2>3. <<>> \in Seq(Parts)
    OBVIOUS
  <2> QED BY <2>2, <2>3
<1>2. ASSUME NEW parts \in Seq(Parts), NEW part \in Parts, parts \in Kept
      PROVE  Append(parts, part) \in Kept
  <2>1. Decoding(DecodePart(Decoded(table, parts), part))
    BY <1>2, DecodePartKeeps
  <2>2. Decoded(table, Append(parts, part)) = DecodePart(Decoded(table, parts), part)
    BY DecodedAppend
  <2>3. Append(parts, part) \in Seq(Parts)
    BY AppendProperties
  <2> QED BY <2>1, <2>2, <2>3
<1>3. \A parts \in Kept : WellFormed(Decoded(table, parts).table)
  BY DEF Decoding
<1> HIDE DEF Kept
<1>4. Seq(Parts) \subseteq Kept
  BY <1>1, <1>2, SeqInduction
<1> QED BY <1>3, <1>4

\* The index of a field means the field.
LEMMA IndexDecodes ==
  ASSUME NEW table, WellFormed(table), NEW fields, NEW field,
         NEW index \in Indices(table), Indexed(table, index) = field
  PROVE  /\ AsIndex(index) \in Parts /\ AsIndex(index).strings = <<>>
         /\ DecodePart(Arrived(table, fields), AsIndex(index))
              = Arrived(table, Append(fields, field))
<1>0. PICK op : op = "indexed"
  OBVIOUS
<1>1. index \in Nat /\ op \in Ops /\ op # "resize" /\ op # "incremental"
  BY <1>0, IndicesNat DEF Ops
<1>2. PICK none \in Seq(Literals) : none = <<>>
  BY EmptySeq
<1>3. PICK part : part = Part(op, index, none)
  OBVIOUS
<1>4. AsIndex(index) = part /\ part.op = op /\ part.strings = none
  <2>1. AsIndex(index) = part
    BY <1>0, <1>2, <1>3, Zenon DEF AsIndex
  <2>2. part.op = op /\ part.strings = none
    BY <1>1, <1>3, PartDecodes
  <2> QED BY <2>1, <2>2
<1>5. FieldOf(table, part, index) = field
  BY <1>0, <1>4 DEF FieldOf
<1>6. Len(none) = Spelled(op, index)
  BY <1>0, <1>2 DEF Spelled
<1>7. DecodePart(Arrived(table, fields), part) =
        Arrived(IF op = "incremental" THEN AddEntry(table, field) ELSE table,
             Append(fields, field))
  BY <1>1, <1>3, <1>5, <1>6, FieldDecodes
<1>8. part \in Parts
  BY <1>1, <1>3 DEF Parts
<1> QED BY <1>1, <1>2, <1>4, <1>7, <1>8

\* One or two strings.
LEMMA TuplesInSeq ==
  ASSUME NEW X, NEW a \in X, NEW b \in X
  PROVE  <<a, b>> \in Seq(X) /\ <<b>> \in Seq(X)
OBVIOUS

\* Every pair of codings is written.
LEMMA LiteralPart ==
  ASSUME NEW field \in Headers, NEW op \in {"incremental", "plain"}, NEW index \in Nat,
         NEW codings \in {"raw", "huffman"} \X {"raw", "huffman"}
  PROVE  AsLiteral(op, index, field, codings) \in Parts
<1>1. field[1] \in Strings /\ field[2] \in Strings
  BY HpackAssumption DEF HeaderFields
<1>2. PICK a \in Literals, b \in Literals :
        a = AsString(codings[1], field[1]) /\ b = AsString(codings[2], field[2])
  BY <1>1 DEF Literals
<1>3. PICK strings \in Seq(Literals) : strings = IF index = 0 THEN <<a, b>> ELSE <<b>>
  <2>1. <<a, b>> \in Seq(Literals) /\ <<b>> \in Seq(Literals)
    BY TuplesInSeq
  <2> QED BY <2>1
<1>4. AsLiteral(op, index, field, codings) = Part(op, index, strings)
  BY <1>2, <1>3 DEF AsLiteral
<1>5. op \in Ops
  BY DEF Ops
<1> QED BY <1>4, <1>5 DEF Parts

\* A name, or the index of one, and a value mean the field that has both, if they are
\* legible.
LEMMA LiteralDecodes ==
  ASSUME NEW table, WellFormed(table), NEW fields, NEW field \in Headers,
         NEW op \in {"incremental", "plain"}, NEW index \in Indices(table) \cup {0},
         NEW codings \in {"raw", "huffman"} \X {"raw", "huffman"},
         index # 0 => Indexed(table, index)[1] = field[1],
         index = 0 => Legible(AsString(codings[1], field[1])),
         Legible(AsString(codings[2], field[2]))
  PROVE  DecodePart(Arrived(table, fields), AsLiteral(op, index, field, codings)) =
           Arrived(IF op = "incremental" THEN AddEntry(table, field) ELSE table,
                Append(fields, field))
<1>1. index \in Nat /\ op \in Ops /\ op # "resize" /\ op # "indexed"
  BY IndicesNat DEF Ops
<1>2. field[1] \in Strings /\ field[2] \in Strings /\ field = <<field[1], field[2]>>
  BY HpackAssumption DEF HeaderFields
<1>3. PICK a \in Literals, b \in Literals :
        a = AsString(codings[1], field[1]) /\ b = AsString(codings[2], field[2])
  BY <1>2 DEF Literals
<1>4. (index = 0 => DecodeString(a) = field[1]) /\ DecodeString(b) = field[2]
  BY <1>3, LegibleRead
<1>5. PICK strings \in Seq(Literals) : strings = IF index = 0 THEN <<a, b>> ELSE <<b>>
  <2>1. <<a, b>> \in Seq(Literals) /\ <<b>> \in Seq(Literals)
    BY TuplesInSeq
  <2> QED BY <2>1
<1>6. PICK part : part = Part(op, index, strings)
  OBVIOUS
<1>7. AsLiteral(op, index, field, codings) = part
  BY <1>3, <1>5, <1>6 DEF AsLiteral
<1>8. part.op = op /\ part.strings = strings
  BY <1>1, <1>6, PartDecodes
<1>9. (index = 0 => strings[1] = a) /\ Last(strings) = b /\ Len(strings) = Spelled(op, index)
  BY <1>1, <1>5 DEF Last, Spelled
<1>10. FieldOf(table, part, index) = <<field[1], field[2]>>
  BY <1>1, <1>4, <1>8, <1>9 DEF FieldOf
<1>11. DecodePart(Arrived(table, fields), part) =
        Arrived(IF op = "incremental" THEN AddEntry(table, field) ELSE table,
             Append(fields, field))
  <2>1. field = FieldOf(table, part, index)
    BY <1>2, <1>10
  <2>2. index \in Indices(table) \/ (index = 0 /\ op # "indexed")
    BY <1>1
  <2> QED BY <1>1, <1>6, <1>9, <2>1, <2>2, FieldDecodes
<1> QED BY <1>7, <1>11

\* A size update resizes.
LEMMA SizeDecodes ==
  ASSUME NEW table, NEW fields, NEW size \in Nat
  PROVE  /\ AsSize(size) \in Parts
         /\ DecodePart(Arrived(table, fields), AsSize(size)) = Arrived(Resize(table, size), fields)
<1>0. PICK op \in Ops, none \in Seq(Literals) : op = "resize" /\ none = <<>>
  <2>1. "resize" \in Ops
    BY DEF Ops
  <2> QED BY <2>1, EmptySeq
<1>1. PICK part, s : part = Part(op, size, none) /\ s = Arrived(table, fields)
  OBVIOUS
<1>2. PICK decoded : decoded = DecodeInteger(part.integer, Prefix[part.op])
  OBVIOUS
<1>3. part.op = op /\ part.strings = none /\ decoded = <<size, Len(part.integer)>>
  BY <1>1, <1>2, PartDecodes
<1>4. decoded # <<>> /\ decoded[1] = size /\ decoded[2] = Len(part.integer)
  BY <1>3
<1>5. s.ok = TRUE /\ s.table = table /\ s.fields = fields
  BY <1>1 DEF Arrived
<1>6. DecodePart(s, part) = [s EXCEPT !.table = Resize(@, size)]
  <2>1. part.strings = <<>> /\ Len(part.strings) = Spelled(part.op, size)
    BY <1>0, <1>3 DEF Spelled
  <2> QED BY <1>0, <1>2, <1>3, <1>4, <1>5, <2>1 DEF DecodePart
<1>7. PICK t : t = Resize(table, size)
  OBVIOUS
<1>8. DecodePart(s, part) = [s EXCEPT !.table = t]
  BY <1>5, <1>6, <1>7
<1>9. DecodePart(s, part) = Arrived(t, fields)
  BY <1>1, <1>8 DEF Arrived
<1>10. AsSize(size) = part
  BY <1>0, <1>1, Zenon DEF AsSize
<1>11. part \in Parts
  BY <1>1 DEF Parts
<1> QED BY <1>1, <1>7, <1>9, <1>10, <1>11

-----------------------------------------------------------------------------
(* The library's blocks. *)

\* The first field with the name, if there is one, is one of the static table's.
LEMMA NamedStatic ==
  ASSUME NEW field, Named(field) # {}
  PROVE  /\ Min(Named(field)) \in DOMAIN Static /\ Min(Named(field)) <= StaticSize
         /\ Static[Min(Named(field))][1] = field[1]
<1>1. DOMAIN Static = {2, 3, 51}
  BY DEF Static
<1>2. PICK S : S = Named(field)
  OBVIOUS
<1>3. S \in SUBSET {2, 3, 51} /\ S # {} /\ \A i \in S : Static[i][1] = field[1]
  BY <1>1, <1>2 DEF Named
<1>4. \E x \in S : \A y \in S : x <= y
  <2>1. S \in SUBSET Nat
    BY <1>3
  <2> QED BY <1>3, <2>1, LeastOf
<1>5. Min(S) \in S
  BY <1>4 DEF Min
<1> QED BY <1>1, <1>2, <1>3, <1>5 DEF StaticSize

\* What the library writes of a field means the field, whatever the table.
LEMMA RepresentedDecodes ==
  ASSUME NEW table, WellFormed(table), NEW fields, NEW field \in TextHeaders
  PROVE  \E t : /\ WellFormed(t)
                /\ DecodePart(Arrived(table, fields), Represented(field))
                     = Arrived(t, Append(fields, field))
<1> DEFINE raw == <<"raw", "raw">>
<1>a. /\ field \in Headers /\ field \in HeaderFields
      /\ raw \in {"raw", "huffman"} \X {"raw", "huffman"}
      /\ Legible(AsString(raw[1], field[1])) /\ Legible(AsString(raw[2], field[2]))
  BY HpackAssumption DEF TextHeaders, Legible, AsString
<1>0. PICK least : least = Min(Named(field))
  OBVIOUS
<1>1. Named(field) # {} =>
        least \in Indices(table) /\ Indexed(table, least) = Static[least]
          /\ Static[least][1] = field[1]
  BY <1>0, NamedStatic DEF Indices, Indexed
<1>2. CASE HasValue(field)
  <2>1. Named(field) # {} /\ Static[least] = field
    BY <1>0, <1>2 DEF HasValue
  <2>2. Represented(field) = AsIndex(least)
    BY <1>0, <1>2 DEF Represented
  <2>3. DecodePart(Arrived(table, fields), AsIndex(least)) = Arrived(table, Append(fields, field))
    BY <1>1, <2>1, IndexDecodes
  <2> QED BY <2>2, <2>3
<1>3. CASE ~HasValue(field)
  <2>1. PICK index : index = IF Named(field) = {} THEN 0 ELSE least
    OBVIOUS
  <2>2. Represented(field) = AsLiteral("incremental", index, field, raw)
    BY <1>0, <1>3, <2>1 DEF Represented
  <2>3. /\ index \in Indices(table) \cup {0}
        /\ index # 0 => Indexed(table, index)[1] = field[1]
    BY <1>1, <2>1
  <2>4. DecodePart(Arrived(table, fields), AsLiteral("incremental", index, field, raw))
          = Arrived(AddEntry(table, field), Append(fields, field))
    BY <1>a, <2>3, LiteralDecodes
  <2>5. WellFormed(AddEntry(table, field))
    BY <1>a, TablesKept
  <2> QED BY <2>2, <2>4, <2>5
<1> QED BY <1>2, <1>3

\* What the library makes of the fields of a block.
AllRepresented(fields) == [i \in DOMAIN fields |-> Represented(fields[i])]

\* One representation for every field.
LEMMA AllRepresentedSeq ==
  ASSUME NEW fields \in Seq(TextHeaders)
  PROVE  /\ AllRepresented(fields) \in Seq({Represented(field) : field \in TextHeaders})
         /\ \A field \in TextHeaders :
              AllRepresented(Append(fields, field))
                = Append(AllRepresented(fields), Represented(field))
<1> DEFINE X == {Represented(field) : field \in TextHeaders}
<1>1. ASSUME NEW fs \in Seq(TextHeaders)
      PROVE  /\ AllRepresented(fs) \in Seq(X) /\ Len(AllRepresented(fs)) = Len(fs)
             /\ \A i \in 1 .. Len(fs) : AllRepresented(fs)[i] = Represented(fs[i])
  <2>1. PICK n \in Nat : n = Len(fs)
    OBVIOUS
  <2>2. AllRepresented(fs) = [i \in 1 .. n |-> Represented(fs[i])]
    BY <2>1 DEF AllRepresented
  <2>3. \A i \in 1 .. n : Represented(fs[i]) \in X
    BY <2>1
  <2> HIDE DEF X
  <2>4. AllRepresented(fs) \in [1 .. n -> X]
    BY <2>2, <2>3
  <2> QED BY <2>1, <2>2, <2>4
<1>2. ASSUME NEW field \in TextHeaders
      PROVE  AllRepresented(Append(fields, field))
               = Append(AllRepresented(fields), Represented(field))
  <2>1. PICK n \in Nat : n = Len(fields)
    OBVIOUS
  <2>2. PICK more \in Seq(TextHeaders) : more = Append(fields, field)
    BY AppendProperties
  <2>3. Len(more) = n + 1 /\ more[n + 1] = field /\ \A i \in 1 .. n : more[i] = fields[i]
    BY <2>1, <2>2
  <2>4. PICK a, b, p : /\ a = AllRepresented(more) /\ b = AllRepresented(fields)
                       /\ p = Represented(field)
    OBVIOUS
  <2>5. p \in X
    BY <2>4
  <2> HIDE DEF X
  <2>6. a \in Seq(X) /\ b \in Seq(X) /\ Len(a) = n + 1 /\ Len(b) = n
    BY <1>1, <2>1, <2>3, <2>4
  <2>7. /\ \A i \in 1 .. n + 1 : a[i] = Represented(more[i])
        /\ \A i \in 1 .. n : b[i] = Represented(fields[i])
    BY <1>1, <2>1, <2>3, <2>4
  <2>8. PICK c : c = Append(b, p)
    OBVIOUS
  <2>9. c \in Seq(X) /\ Len(c) = n + 1 /\ c[n + 1] = p /\ \A i \in 1 .. n : c[i] = b[i]
    BY <2>5, <2>6, <2>8
  <2>10. \A i \in 1 .. n + 1 : a[i] = c[i]
    BY <2>3, <2>4, <2>7, <2>9
  <2>11. a = c
    BY <2>6, <2>9, <2>10
  <2> QED BY <2>2, <2>4, <2>8, <2>11
<1> QED BY <1>1, <1>2

\* What it writes is one of the representations.
LEMMA RepresentedPart ==
  ASSUME NEW field \in TextHeaders PROVE Represented(field) \in Parts
<1>1. WellFormed(EmptyTable(0)) /\ field \in Headers
  BY EmptyWellFormed DEF TextHeaders
<1>2. PICK least : least = Min(Named(field))
  OBVIOUS
<1>3. Named(field) # {} => least \in Indices(EmptyTable(0)) /\ least \in Nat
  BY <1>1, <1>2, NamedStatic, IndicesNat DEF Indices
<1>4. CASE HasValue(field)
  <2>1. Represented(field) = AsIndex(least) /\ Named(field) # {}
    BY <1>2, <1>4 DEF Represented, HasValue
  <2>2. PICK index \in Indices(EmptyTable(0)) : index = least
    BY <1>3, <2>1
  <2>3. AsIndex(index) \in Parts
    BY <1>1, IndexDecodes
  <2> QED BY <2>1, <2>2, <2>3
<1>5. CASE ~HasValue(field)
  <2>1. PICK index \in Nat : index = IF Named(field) = {} THEN 0 ELSE least
    BY <1>3
  <2>2. PICK raw \in {"raw", "huffman"} \X {"raw", "huffman"} : raw = <<"raw", "raw">>
    OBVIOUS
  <2>3. Represented(field) = AsLiteral("incremental", index, field, raw)
    BY <1>2, <1>5, <2>1, <2>2 DEF Represented
  <2> QED BY <1>1, <2>3, LiteralPart
<1> QED BY <1>4, <1>5

\* The library's blocks decode to their fields, whatever the decoder's table is: the
\* indices that it writes are those of the static table.
LEMMA LibraryDecodes ==
  ASSUME NEW table, WellFormed(table)
  PROVE  \A fields \in Seq(TextHeaders) :
           \E t : WellFormed(t) /\ Decoded(table, AllRepresented(fields)) = Arrived(t, fields)
<1> DEFINE Arriving == {fields \in Seq(TextHeaders) :
                \E t : WellFormed(t) /\ Decoded(table, AllRepresented(fields)) = Arrived(t, fields)}
<1>1. <<>> \in Arriving
  <2>1. <<>> \in Seq(TextHeaders) /\ AllRepresented(<<>>) = <<>>
    <3>0. PICK fs \in Seq(TextHeaders) : fs = <<>>
      BY EmptySeq
    <3>1. AllRepresented(fs) \in Seq({Represented(field) : field \in TextHeaders})
      BY AllRepresentedSeq
    <3>2. DOMAIN AllRepresented(fs) = {}
      BY <3>0 DEF AllRepresented
    <3> QED BY <3>0, <3>1, <3>2
  <2>2. Decoded(table, <<>>) = Arrived(table, <<>>)
    BY DecodedEmpty DEF Arrived
  <2> QED BY <2>1, <2>2
<1>2. ASSUME NEW fields \in Seq(TextHeaders), NEW field \in TextHeaders, fields \in Arriving
      PROVE  Append(fields, field) \in Arriving
  <2>1. PICK t : WellFormed(t) /\ Decoded(table, AllRepresented(fields)) = Arrived(t, fields)
    BY <1>2
  <2>2. PICK u : /\ WellFormed(u)
                 /\ DecodePart(Arrived(t, fields), Represented(field))
                      = Arrived(u, Append(fields, field))
    BY <2>1, RepresentedDecodes
  <2>3. PICK X : AllRepresented(fields) \in Seq(X) /\ Represented(field) \in X
    BY AllRepresentedSeq
  <2>4. Decoded(table, Append(AllRepresented(fields), Represented(field)))
          = Arrived(u, Append(fields, field))
    BY <2>1, <2>2, <2>3, DecodedAppend
  <2>5. Decoded(table, AllRepresented(Append(fields, field))) = Arrived(u, Append(fields, field))
    BY <2>4, AllRepresentedSeq
  <2>6. Append(fields, field) \in Seq(TextHeaders)
    BY AppendProperties
  <2> QED BY <2>2, <2>5, <2>6
<1> HIDE DEF Arriving
<1>3. Seq(TextHeaders) \subseteq Arriving
  BY <1>1, <1>2, SeqInduction
<1> QED BY <1>3 DEF Arriving

\* The library's own table stays well-formed.
LEMMA EncodedWellFormed ==
  ASSUME NEW table, WellFormed(table), NEW fields \in Seq(TextHeaders)
  PROVE  WellFormed(Encoded(table, fields))
<1> DEFINE Tables == {t \in [entries : Seq(HeaderFields), max_size : Nat, current_size : Nat] :
                        WellFormed(t)}
<1>1. \A t : t \in Tables <=> WellFormed(t)
  BY DEF WellFormed
<1> HIDE DEF Tables
<1>2. \A t \in Tables, field \in TextHeaders : EncodedField(t, field) \in Tables
  BY <1>1, TablesKept, HpackAssumption DEF EncodedField, TextHeaders
<1>3. table \in Tables
  BY <1>1
<1>4. Encoded(table, fields) \in Tables
  BY <1>2, <1>3, EncodedKeeps
<1> QED BY <1>1, <1>4

-----------------------------------------------------------------------------
(* The invariant. *)

\* A block, with the fields it is to mean.
Blocks == [fields : Seq(Headers), parts : Seq(Parts)]

\* The block of a client that has begun none.
NoBlock == [fields |-> <<>>, parts |-> <<>>]

\* t[i] is what the first i of the blocks make of table: every one of them decodes to
\* its fields, and what there is of the next one then makes end of the last table.
Follows(t, table, blocks, next, end) ==
    /\ t[0] = table
    /\ \A i \in 0 .. Len(blocks) : WellFormed(t[i])
    /\ \A i \in 1 .. Len(blocks) :
         Decoded(t[i - 1], blocks[i].parts) = Arrived(t[i], blocks[i].fields)
    /\ Decoded(t[Len(blocks)], next.parts) = Arrived(end, next.fields)

\* The library's blocks decode whatever the table; a client's, while they are legible, in
\* the order in which they were made, by the tables that the client had.
HpackInv ==
    /\ library \in BOOLEAN /\ legible \in BOOLEAN
    /\ WellFormed(encoder) /\ WellFormed(decoder)
    /\ block \in Blocks /\ wire \in Seq(Blocks)
    /\ library => /\ block = NoBlock /\ legible
                  /\ \A i \in 1 .. Len(wire) :
                       /\ wire[i].fields \in Seq(TextHeaders)
                       /\ wire[i].parts = AllRepresented(wire[i].fields)
    /\ ~library /\ legible => \E t : Follows(t, decoder, wire, block, encoder)
    /\ legible => intact

\* One more representation in the block that is being made.
LEMMA FollowsAdd ==
  ASSUME NEW t, NEW table, NEW blocks, NEW next \in Blocks, NEW end,
         Follows(t, table, blocks, next, end), NEW part \in Parts, NEW e, NEW fields,
         DecodePart(Arrived(end, next.fields), part) = Arrived(e, fields)
  PROVE  Follows(t, table, blocks, [fields |-> fields, parts |-> Append(next.parts, part)], e)
<1>1. next.parts \in Seq(Parts)
  BY DEF Blocks
<1>2. Decoded(t[Len(blocks)], Append(next.parts, part)) = Arrived(e, fields)
  BY <1>1, DecodedAppend DEF Follows
<1> QED BY <1>2 DEF Follows

\* That block is sent.
LEMMA FollowsSend ==
  ASSUME NEW t, NEW table, NEW blocks \in Seq(Blocks), NEW next \in Blocks, NEW end,
         WellFormed(end), Follows(t, table, blocks, next, end)
  PROVE  \E u : Follows(u, table, Append(blocks, next), NoBlock, end)
<1>1. PICK n \in Nat : n = Len(blocks)
  OBVIOUS
<1>2. PICK more \in Seq(Blocks) : more = Append(blocks, next)
  BY AppendProperties
<1>3. Len(more) = n + 1 /\ more[n + 1] = next /\ \A i \in 1 .. n : more[i] = blocks[i]
  BY <1>1, <1>2
<1> DEFINE u == [i \in 0 .. n + 1 |-> IF i = n + 1 THEN end ELSE t[i]]
<1>4. u[n + 1] = end /\ \A i \in 0 .. n : u[i] = t[i]
  OBVIOUS
<1> HIDE DEF u
<1>5. /\ t[0] = table
      /\ \A i \in 0 .. n : WellFormed(t[i])
      /\ \A i \in 1 .. n : Decoded(t[i - 1], blocks[i].parts) = Arrived(t[i], blocks[i].fields)
      /\ Decoded(t[n], next.parts) = Arrived(end, next.fields)
  BY <1>1 DEF Follows
<1>6. u[0] = table
  BY <1>4, <1>5
<1>7. ASSUME NEW i \in 0 .. n + 1 PROVE WellFormed(u[i])
  <2>1. i = n + 1 \/ i \in 0 .. n
    OBVIOUS
  <2> QED BY <1>4, <1>5, <2>1
<1>8. ASSUME NEW i \in 1 .. n + 1
      PROVE  Decoded(u[i - 1], more[i].parts) = Arrived(u[i], more[i].fields)
  <2>1. CASE i = n + 1
    <3>1. i - 1 = n /\ n \in 0 .. n
      BY <2>1
    <3> QED BY <1>3, <1>4, <1>5, <2>1, <3>1
  <2>2. CASE i # n + 1
    <3>1. i \in 1 .. n /\ i \in 0 .. n /\ i - 1 \in 0 .. n
      BY <2>2
    <3> QED BY <1>3, <1>4, <1>5, <3>1
  <2> QED BY <2>1, <2>2
<1>9. Decoded(u[n + 1], NoBlock.parts) = Arrived(end, NoBlock.fields)
  BY <1>4, DecodedEmpty DEF NoBlock, Arrived
<1>10. Follows(u, table, more, NoBlock, end)
  BY <1>3, <1>6, <1>7, <1>8, <1>9 DEF Follows
<1> QED BY <1>2, <1>10

\* The first of the blocks is decoded.
LEMMA FollowsDecode ==
  ASSUME NEW t, NEW table, NEW blocks \in Seq(Blocks), blocks # <<>>, NEW next, NEW end,
         Follows(t, table, blocks, next, end)
  PROVE  /\ Decoded(table, Head(blocks).parts) = Arrived(t[1], Head(blocks).fields)
         /\ WellFormed(t[1])
         /\ \E u : Follows(u, t[1], Tail(blocks), next, end)
<1>1. PICK n \in Nat : Len(blocks) = n + 1
  <2>1. Len(blocks) \in Nat /\ Len(blocks) # 0
    OBVIOUS
  <2>2. Len(blocks) - 1 \in Nat /\ Len(blocks) = (Len(blocks) - 1) + 1
    BY <2>1
  <2> QED BY <2>2
<1>2. PICK rest \in Seq(Blocks) : rest = Tail(blocks)
  BY HeadTailProperties
<1>3. Len(rest) = n /\ Head(blocks) = blocks[1] /\ \A i \in 1 .. n : rest[i] = blocks[i + 1]
  BY <1>1, <1>2
<1>4. /\ t[0] = table
      /\ \A i \in 0 .. n + 1 : WellFormed(t[i])
      /\ \A i \in 1 .. n + 1 : Decoded(t[i - 1], blocks[i].parts) = Arrived(t[i], blocks[i].fields)
      /\ Decoded(t[n + 1], next.parts) = Arrived(end, next.fields)
  BY <1>1 DEF Follows
<1> DEFINE u == [i \in 0 .. n |-> t[i + 1]]
<1>5. \A i \in 0 .. n : u[i] = t[i + 1]
  OBVIOUS
<1> HIDE DEF u
<1>6. Decoded(table, Head(blocks).parts) = Arrived(t[1], Head(blocks).fields) /\ WellFormed(t[1])
  <2>1. 1 \in 1 .. n + 1 /\ 1 - 1 = 0 /\ 1 \in 0 .. n + 1
    OBVIOUS
  <2>2. Decoded(t[1 - 1], blocks[1].parts) = Arrived(t[1], blocks[1].fields)
    BY <1>4, <2>1
  <2> QED BY <1>3, <1>4, <2>1, <2>2
<1>7. u[0] = t[1] /\ u[n] = t[n + 1]
  <2>1. 0 \in 0 .. n /\ n \in 0 .. n /\ 0 + 1 = 1
    OBVIOUS
  <2> QED BY <1>5, <2>1
<1>8. \A i \in 0 .. n : WellFormed(u[i])
  <2>1. \A i \in 0 .. n : i + 1 \in 0 .. n + 1
    OBVIOUS
  <2> QED BY <1>4, <1>5, <2>1
<1>9. ASSUME NEW i \in 1 .. n
      PROVE  Decoded(u[i - 1], rest[i].parts) = Arrived(u[i], rest[i].fields)
  <2>1. PICK j : j = i + 1
    OBVIOUS
  <2>2. j \in 1 .. n + 1 /\ j - 1 = i /\ i \in 0 .. n /\ i - 1 \in 0 .. n /\ (i - 1) + 1 = i
    BY <2>1
  <2>3. Decoded(t[j - 1], blocks[j].parts) = Arrived(t[j], blocks[j].fields)
    BY <1>4, <2>2
  <2>4. u[i - 1] = t[i] /\ u[i] = t[j] /\ rest[i] = blocks[j]
    BY <1>3, <1>5, <2>1, <2>2
  <2> QED BY <2>2, <2>3, <2>4
<1>10. Follows(u, t[1], rest, next, end)
  BY <1>3, <1>4, <1>7, <1>8, <1>9 DEF Follows
<1> QED BY <1>2, <1>6, <1>10

\* Nothing is on its way at the start.
LEMMA InitInv == Init => HpackInv
<1> SUFFICES ASSUME Init PROVE HpackInv
  OBVIOUS
<1> USE DEF Init
<1>1. library \in BOOLEAN /\ legible = TRUE /\ intact = TRUE
  OBVIOUS
<1>2. WellFormed(encoder)
  <2>1. PICK max : encoder = EmptyTable(max) /\ max \in IF library THEN EncoderSizes ELSE {DecoderSize}
    OBVIOUS
  <2>2. max \in Nat
    BY <2>1, HpackAssumption
  <2> QED BY <2>1, <2>2, EmptyWellFormed
<1>3. WellFormed(decoder)
  BY HpackAssumption, EmptyWellFormed
<1>4. block = NoBlock /\ block \in Blocks
  BY DEF NoBlock, Blocks
<1>5. wire = <<>> /\ wire \in Seq(Blocks) /\ Len(wire) = 0
  OBVIOUS
<1>6. ASSUME ~library PROVE \E t : Follows(t, decoder, wire, block, encoder)
  <2>1. encoder = decoder
    BY <1>6
  <2> DEFINE t == [i \in {0} |-> decoder]
  <2>2. t[0] = decoder
    OBVIOUS
  <2> HIDE DEF t
  <2>3. Decoded(decoder, block.parts) = Arrived(encoder, block.fields)
    BY <1>4, <2>1, DecodedEmpty DEF NoBlock, Arrived
  <2>4. Follows(t, decoder, wire, block, encoder)
    BY <1>3, <1>5, <2>2, <2>3 DEF Follows
  <2> QED BY <2>4
<1> QED BY <1>1, <1>2, <1>3, <1>4, <1>5, <1>6 DEF HpackInv

\* The library's encoder sends a block.
LEMMA EncodeKeeps ==
  ASSUME HpackInv, NEW n \in Nat, NEW fields \in [1 .. n -> TextHeaders], Encode(fields)
  PROVE  HpackInv'
<1> USE DEF Encode
<1>1. fields \in Seq(TextHeaders) /\ fields \in Seq(Headers)
  <2>1. TextHeaders \subseteq Headers
    BY DEF TextHeaders
  <2> QED BY <2>1
<1>2. PICK made : made = [fields |-> fields, parts |-> AllRepresented(fields)]
  OBVIOUS
<1>3. wire' = Append(wire, made)
  BY <1>2 DEF AllRepresented
<1>4. made \in Blocks
  <2>1. {Represented(field) : field \in TextHeaders} \subseteq Parts
    BY RepresentedPart
  <2>2. PICK X : X = {Represented(field) : field \in TextHeaders}
    OBVIOUS
  <2>3. AllRepresented(fields) \in Seq(X)
    BY <1>1, <2>2, AllRepresentedSeq
  <2>4. AllRepresented(fields) \in Seq(Parts)
    BY <2>1, <2>2, <2>3
  <2> QED BY <1>1, <1>2, <2>4 DEF Blocks
<1>5. wire' \in Seq(Blocks)
  BY <1>3, <1>4, AppendProperties DEF HpackInv
<1>6. WellFormed(encoder')
  BY <1>1, EncodedWellFormed DEF HpackInv
<1>7. /\ library /\ library' = library /\ decoder' = decoder /\ block' = block
      /\ legible' = legible /\ intact' = intact
  OBVIOUS
<1> HIDE DEF Encode
<1>8. ASSUME NEW i \in 1 .. Len(wire')
      PROVE  wire'[i].fields \in Seq(TextHeaders) /\ wire'[i].parts = AllRepresented(wire'[i].fields)
  <2>1. PICK m \in Nat : m = Len(wire)
    BY DEF HpackInv
  <2>2. PICK more : more = wire'
    OBVIOUS
  <2>3. Len(more) = m + 1 /\ more[m + 1] = made /\ \A j \in 1 .. m : more[j] = wire[j]
    <3>1. wire \in Seq(Blocks)
      BY DEF HpackInv
    <3> QED BY <1>3, <1>4, <2>1, <2>2, <3>1, AppendProperties
  <2>4. CASE i = m + 1
    BY <1>1, <1>2, <2>2, <2>3, <2>4
  <2>5. CASE i # m + 1
    <3>1. i \in 1 .. m
      BY <2>2, <2>3, <2>5
    <3>2. wire'[i] = wire[i]
      BY <2>2, <2>3, <3>1
    <3>3. wire[i].fields \in Seq(TextHeaders) /\ wire[i].parts = AllRepresented(wire[i].fields)
      BY <1>7, <2>1, <3>1 DEF HpackInv
    <3> QED BY <3>2, <3>3
  <2> QED BY <2>4, <2>5
<1>9. /\ WellFormed(decoder') /\ block' \in Blocks /\ block' = NoBlock
      /\ legible' = TRUE /\ intact' = TRUE
  BY <1>7 DEF HpackInv
<1> QED BY <1>5, <1>6, <1>8, <1>7, <1>9 DEF HpackInv

\* The parts of a client's block.
LEMMA PeerAddsKeeps ==
  ASSUME HpackInv, NEW field \in Headers, NEW part \in Parts, NEW table, WellFormed(table),
         PeerAdds(field, part, table),
         (\A i \in DOMAIN part.strings : Legible(part.strings[i])) =>
           DecodePart(Arrived(encoder, block.fields), part)
             = Arrived(table, Append(block.fields, field))
  PROVE  HpackInv'
<1> USE DEF PeerAdds
<1> DEFINE AllLegible == \A i \in DOMAIN part.strings : Legible(part.strings[i])
<1>1. block' = [fields |-> Append(block.fields, field), parts |-> Append(block.parts, part)]
  OBVIOUS
<1>2. block \in Blocks /\ block.fields \in Seq(Headers) /\ block.parts \in Seq(Parts)
  BY DEF HpackInv, Blocks
<1>3. block' \in Blocks
  BY <1>1, <1>2, AppendProperties DEF Blocks
<1>4. /\ ~library /\ library' = library /\ encoder' = table /\ wire' = wire
      /\ decoder' = decoder /\ intact' = intact /\ legible' = (legible /\ AllLegible)
  OBVIOUS
<1>5. legible' \in BOOLEAN /\ (legible' => legible /\ AllLegible)
  BY <1>4 DEF HpackInv
<1>6. ASSUME legible' PROVE \E t : Follows(t, decoder', wire', block', encoder')
  <2>1. PICK t : Follows(t, decoder, wire, block, encoder)
    BY <1>4, <1>5, <1>6 DEF HpackInv
  <2>2. DecodePart(Arrived(encoder, block.fields), part)
          = Arrived(table, Append(block.fields, field))
    BY <1>5, <1>6
  <2>3. Follows(t, decoder, wire, block', table)
    BY <1>1, <1>2, <2>1, <2>2, FollowsAdd
  <2> QED BY <1>4, <2>3
<1> HIDE DEF AllLegible
<1>7. WellFormed(decoder') /\ WellFormed(encoder') /\ wire' \in Seq(Blocks) /\ (legible' => intact')
  BY <1>4, <1>5 DEF HpackInv
<1> HIDE DEF PeerAdds
<1> QED BY <1>3, <1>4, <1>5, <1>6, <1>7 DEF HpackInv

\* A client refers to an entry that its own table has.
LEMMA PeerIndexesKeeps ==
  ASSUME HpackInv, NEW field \in Headers, NEW index \in Indices(encoder) \cup {0},
         PeerIndexes(field, index)
  PROVE  HpackInv'
<1>1. WellFormed(encoder) /\ index \in Indices(encoder) /\ Indexed(encoder, index) = field
  BY DEF HpackInv, PeerIndexes
<1>2. PeerAdds(field, AsIndex(index), encoder)
  BY DEF PeerIndexes
<1>3. AsIndex(index) \in Parts
  BY <1>1, IndexDecodes
<1>4. DecodePart(Arrived(encoder, block.fields), AsIndex(index))
        = Arrived(encoder, Append(block.fields, field))
  BY <1>1, IndexDecodes
<1> QED BY <1>1, <1>2, <1>3, <1>4, PeerAddsKeeps

\* A client spells a field out, in some coding, and may have its table remember it.
LEMMA PeerSpellsKeeps ==
  ASSUME HpackInv, NEW field \in Headers, NEW index \in Indices(encoder) \cup {0},
         NEW op \in {"incremental", "plain"}, NEW codings \in Codings \X Codings,
         PeerSpells(op, field, index, codings)
  PROVE  HpackInv'
<1>0. codings \in {"raw", "huffman"} \X {"raw", "huffman"} /\ field \in HeaderFields
  BY HpackAssumption
<1>1. WellFormed(encoder) /\ (index # 0 => Indexed(encoder, index)[1] = field[1]) /\ index \in Nat
  BY IndicesNat DEF HpackInv, PeerSpells
<1>2. PICK table : table = IF op = "incremental" THEN AddEntry(encoder, field) ELSE encoder
  OBVIOUS
<1>3. PICK part \in Parts : part = AsLiteral(op, index, field, codings)
  BY <1>0, <1>1, LiteralPart
<1>4. PeerAdds(field, part, table)
  <2>1. AddEntry(encoder, field) = Prescribed(<<field>> \o encoder.entries, encoder.max_size)
    BY <1>0, <1>1, AddEntryPrescribed
  <2> QED BY <1>2, <1>3, <2>1 DEF PeerSpells
<1>5. ASSUME \A i \in DOMAIN part.strings : Legible(part.strings[i])
      PROVE  DecodePart(Arrived(encoder, block.fields), part)
               = Arrived(table, Append(block.fields, field))
  <2>1. PICK a, b : a = AsString(codings[1], field[1]) /\ b = AsString(codings[2], field[2])
    OBVIOUS
  <2>2. PICK strings : strings = IF index = 0 THEN <<a, b>> ELSE <<b>>
    OBVIOUS
  <2>3. part.strings = strings
    <3>1. part = Part(op, index, strings)
      BY <1>3, <2>1, <2>2 DEF AsLiteral
    <3>2. op \in Ops
      BY DEF Ops
    <3> QED BY <1>1, <3>1, <3>2, PartDecodes
  <2>4. \A i \in DOMAIN strings : Legible(strings[i])
    BY <1>5, <2>3
  <2>5. index = 0 => Legible(a) /\ Legible(b)
    <3> SUFFICES ASSUME index = 0 PROVE Legible(a) /\ Legible(b)
      OBVIOUS
    <3>1. strings = <<a, b>> /\ 1 \in DOMAIN strings /\ 2 \in DOMAIN strings
      BY <2>2
    <3>2. strings[1] = a /\ strings[2] = b
      BY <3>1
    <3> QED BY <2>4, <3>1, <3>2
  <2>6. index # 0 => Legible(b)
    <3> SUFFICES ASSUME index # 0 PROVE Legible(b)
      OBVIOUS
    <3>1. strings = <<b>> /\ 1 \in DOMAIN strings
      BY <2>2
    <3>2. strings[1] = b
      BY <3>1
    <3> QED BY <2>4, <3>1, <3>2
  <2> QED BY <1>0, <1>1, <1>2, <1>3, <2>1, <2>5, <2>6, LiteralDecodes
<1>6. WellFormed(table)
  BY <1>0, <1>1, <1>2, TablesKept
<1> QED BY <1>4, <1>5, <1>6, PeerAddsKeeps

\* A client changes the size of its table, and evicts.
LEMMA PeerResizesKeeps ==
  ASSUME HpackInv, NEW size \in PeerSizes, PeerResizes(size)
  PROVE  HpackInv'
<1>0. /\ ~library /\ block.parts = <<>> /\ block' = [block EXCEPT !.parts = <<AsSize(size)>>]
      /\ encoder' = Prescribed(encoder.entries, size)
      /\ library' = library /\ wire' = wire /\ decoder' = decoder
      /\ legible' = legible /\ intact' = intact
  BY DEF PeerResizes
<1>1. size \in Nat /\ WellFormed(encoder)
  BY HpackAssumption DEF HpackInv
<1>2. PICK table : table = Resize(encoder, size)
  OBVIOUS
<1>3. encoder' = table /\ WellFormed(table)
  BY <1>0, <1>1, <1>2, ResizePrescribed, TablesKept
<1>4. AsSize(size) \in Parts
  BY <1>1, SizeDecodes
<1>5. /\ block \in Blocks /\ block.parts = <<>>
      /\ block.parts \in Seq(Parts) /\ block.fields \in Seq(Headers)
  BY <1>0 DEF HpackInv, Blocks
<1>6. block' = [fields |-> block.fields, parts |-> Append(block.parts, AsSize(size))]
  <2>2. Append(block.parts, AsSize(size)) = <<AsSize(size)>>
    BY <1>5
  <2>3. block = [fields |-> block.fields, parts |-> block.parts]
    BY <1>5 DEF Blocks
  <2> QED BY <1>0, <2>2, <2>3
<1>7. block' \in Blocks
  <2>1. Append(block.parts, AsSize(size)) \in Seq(Parts)
    BY <1>4, <1>5, AppendProperties
  <2> QED BY <1>5, <1>6, <2>1 DEF Blocks
<1>8. DecodePart(Arrived(encoder, block.fields), AsSize(size)) = Arrived(table, block.fields)
  BY <1>1, <1>2, SizeDecodes
<1>9. ASSUME legible PROVE \E t : Follows(t, decoder, wire, block', table)
  <2>1. PICK t : Follows(t, decoder, wire, block, encoder)
    BY <1>0, <1>9 DEF HpackInv
  <2>2. PICK part \in Parts : part = AsSize(size)
    BY <1>4
  <2>3. Follows(t, decoder, wire, block', table)
    BY <1>5, <1>6, <1>8, <2>1, <2>2, FollowsAdd
  <2> QED BY <2>3
<1> QED BY <1>0, <1>3, <1>7, <1>9 DEF HpackInv

\* A client sends its block.
LEMMA PeerSendsKeeps ==
  ASSUME HpackInv, PeerSends PROVE HpackInv'
<1> USE DEF PeerSends
<1>1. ~library
  BY DEF HpackInv, NoBlock
<1>2. wire' = Append(wire, block) /\ block' = NoBlock
  BY DEF NoBlock
<1>3. block \in Blocks /\ wire \in Seq(Blocks) /\ WellFormed(encoder)
  BY DEF HpackInv
<1>4. wire' \in Seq(Blocks)
  BY <1>2, <1>3, AppendProperties
<1>5. block' \in Blocks
  BY <1>2 DEF Blocks, NoBlock
<1>6. ASSUME legible PROVE \E u : Follows(u, decoder, Append(wire, block), NoBlock, encoder)
  <2>1. PICK t : Follows(t, decoder, wire, block, encoder)
    BY <1>1, <1>6 DEF HpackInv
  <2> QED BY <1>3, <2>1, FollowsSend
<1>7. /\ library' = library /\ encoder' = encoder /\ decoder' = decoder
      /\ legible' = legible /\ intact' = intact
  OBVIOUS
<1> QED BY <1>1, <1>2, <1>4, <1>5, <1>6, <1>7 DEF HpackInv

\* The decoder takes the first block.
LEMMA DecodeKeeps ==
  ASSUME HpackInv, Decode PROVE HpackInv'
<1>1. PICK result : result = Decoded(decoder, Head(wire).parts)
  OBVIOUS
<1>2. decoder' = result.table /\ intact' = (result.ok /\ result.fields = Head(wire).fields)
  BY <1>1 DEF Decode
<1>3. wire # <<>> /\ wire' = Tail(wire) /\ wire \in Seq(Blocks)
  BY DEF HpackInv, Decode
<1>4. wire' \in Seq(Blocks)
  BY <1>3, HeadTailProperties
<1>5. library' = library /\ encoder' = encoder /\ block' = block /\ legible' = legible
  BY DEF Decode
<1>6. CASE library
  <2>1. Head(wire) = wire[1] /\ 1 \in 1 .. Len(wire) /\ wire[1].fields \in Seq(TextHeaders)
    <3>1. Head(wire) = wire[1] /\ 1 \in 1 .. Len(wire)
      BY <1>3
    <3> QED BY <1>6, <3>1 DEF HpackInv
  <2>2. Head(wire).parts = AllRepresented(Head(wire).fields)
    BY <1>6, <2>1 DEF HpackInv
  <2>3. PICK t : WellFormed(t) /\ result = Arrived(t, Head(wire).fields)
    <3>1. WellFormed(decoder)
      BY DEF HpackInv
    <3> QED BY <1>1, <2>1, <2>2, <3>1, LibraryDecodes
  <2>4. decoder' = t /\ intact' = TRUE
    BY <1>2, <2>3 DEF Arrived
  <2>5. ASSUME NEW i \in 1 .. Len(wire')
        PROVE  /\ wire'[i].fields \in Seq(TextHeaders)
               /\ wire'[i].parts = AllRepresented(wire'[i].fields)
    <3>1. PICK rest : rest = Tail(wire)
      OBVIOUS
    <3>2. Len(rest) = Len(wire) - 1 /\ Len(wire) \in Nat /\ \A j \in 1 .. Len(rest) : rest[j] = wire[j + 1]
      BY <1>3, <3>1
    <3>3. i \in 1 .. Len(rest) /\ i + 1 \in 1 .. Len(wire)
      BY <1>3, <3>1, <3>2
    <3>4. /\ wire[i + 1].fields \in Seq(TextHeaders)
          /\ wire[i + 1].parts = AllRepresented(wire[i + 1].fields)
      BY <1>6, <3>3 DEF HpackInv
    <3> QED BY <1>3, <3>1, <3>2, <3>3, <3>4
  <2> QED BY <1>4, <1>5, <1>6, <2>3, <2>4, <2>5 DEF HpackInv
<1>7. CASE ~library /\ legible
  <2>1. PICK t : Follows(t, decoder, wire, block, encoder)
    BY <1>7 DEF HpackInv
  <2>2. /\ Decoded(decoder, Head(wire).parts) = Arrived(t[1], Head(wire).fields)
        /\ WellFormed(t[1])
        /\ \E u : Follows(u, t[1], Tail(wire), block, encoder)
    <3>1. PICK blocks \in Seq(Blocks) : blocks = wire
      BY <1>3
    <3>2. blocks # <<>> /\ Follows(t, decoder, blocks, block, encoder)
      BY <1>3, <2>1, <3>1
    <3>3. /\ Decoded(decoder, Head(blocks).parts) = Arrived(t[1], Head(blocks).fields)
          /\ WellFormed(t[1])
          /\ \E u : Follows(u, t[1], Tail(blocks), block, encoder)
      BY <3>2, FollowsDecode
    <3> QED BY <3>1, <3>3
  <2>3. decoder' = t[1] /\ intact' = TRUE
    <3>1. PICK a, fs : a = t[1] /\ fs = Head(wire).fields
      OBVIOUS
    <3>2. result = Arrived(a, fs)
      BY <1>1, <2>2, <3>1
    <3>3. result.table = a /\ result.fields = fs /\ result.ok = TRUE
      BY <3>2 DEF Arrived
    <3> QED BY <1>2, <3>1, <3>3
  <2> QED BY <1>3, <1>4, <1>5, <1>7, <2>2, <2>3 DEF HpackInv
<1>8. CASE ~library /\ ~legible
  <2>1. Head(wire).parts \in Seq(Parts)
    <3>1. Head(wire) \in Blocks
      BY <1>3, HeadTailProperties
    <3> QED BY <3>1 DEF Blocks
  <2>2. WellFormed(decoder')
    <3>1. WellFormed(decoder)
      BY DEF HpackInv
    <3> QED BY <1>1, <1>2, <2>1, <3>1, DecodedKeeps
  <2> QED BY <1>4, <1>5, <1>8, <2>2 DEF HpackInv
<1> QED BY <1>6, <1>7, <1>8 DEF HpackInv

\* Every step keeps the invariant.
LEMMA NextInv == HpackInv /\ [Next]_vars => HpackInv'
<1> SUFFICES ASSUME HpackInv, [Next]_vars PROVE HpackInv'
  OBVIOUS
<1>1. ASSUME NEW n \in 1 .. MaxFields, NEW fields \in [1 .. n -> TextHeaders], Encode(fields)
      PROVE  HpackInv'
  <2>1. n \in Nat
    BY HpackAssumption
  <2> QED BY <1>1, <2>1, EncodeKeeps
<1>2. ASSUME NEW field \in Headers, NEW index \in Indices(encoder) \cup {0},
             PeerIndexes(field, index)
      PROVE  HpackInv'
  BY <1>2, PeerIndexesKeeps
<1>3. ASSUME NEW field \in Headers, NEW index \in Indices(encoder) \cup {0},
             NEW op \in {"incremental", "plain"}, NEW codings \in Codings \X Codings,
             PeerSpells(op, field, index, codings)
      PROVE  HpackInv'
  BY <1>3, PeerSpellsKeeps
<1>4. ASSUME NEW size \in PeerSizes, PeerResizes(size) PROVE HpackInv'
  BY <1>4, PeerResizesKeeps
<1>5. CASE PeerSends
  BY <1>5, PeerSendsKeeps
<1>6. CASE Decode
  BY <1>6, DecodeKeeps
<1>7. CASE UNCHANGED vars
  BY <1>7 DEF HpackInv, vars
<1> QED BY <1>1, <1>2, <1>3, <1>4, <1>5, <1>6, <1>7 DEF Next, Peer

\* So it holds always.
LEMMA HpackInvariant == Spec => []HpackInv
<1>1. Init => HpackInv
  BY InitInv
<1>2. HpackInv /\ [Next]_vars => HpackInv'
  BY NextInv
<1> QED BY <1>1, <1>2, PTL DEF Spec

\* As long as all strings are written raw and are UTF-8, every block decodes, in order, to
\* the fields that were sent, for every set of fields, all lengths of their strings and all
\* sizes of the two tables (hpack.rs lines 106-140 and 296-321).
THEOREM HeadersAlwaysArrive == Spec => []HeadersArrive
<1>1. HpackInv => HeadersArrive
  BY DEF HpackInv, HeadersArrive
<1> QED BY <1>1, HpackInvariant, PTL

\* Under that condition the decoder's table is the client's when nothing is on its way; and
\* the size that is counted is that of the entries, whatever the strings are read as
\* (hpack.rs lines 201-224 and 245-269).
THEOREM TablesAlwaysAgree == Spec => []TablesAgree
<1>1. HpackInv => TablesAgree
  <2> SUFFICES ASSUME HpackInv PROVE TablesAgree
    OBVIOUS
  <2>1. \A table \in {encoder, decoder} :
          table.current_size = SizeOf(table.entries) /\ table.current_size <= table.max_size
    BY DEF HpackInv, WellFormed
  <2>2. ASSUME ~library, legible, wire = <<>>, block.parts = <<>> PROVE decoder = encoder
    <3>1. PICK t : Follows(t, decoder, wire, block, encoder)
      BY <2>2 DEF HpackInv
    <3>2. Decoded(decoder, <<>>) = Arrived(encoder, block.fields)
      BY <2>2, <3>1 DEF Follows
    <3>3. Decoded(decoder, <<>>) = Arrived(decoder, <<>>)
      BY DecodedEmpty DEF Arrived
    <3> QED BY <3>2, <3>3 DEF Arrived
  <2> QED BY <2>1, <2>2 DEF TablesAgree
<1> QED BY <1>1, HpackInvariant, PTL

-----------------------------------------------------------------------------
(* Frames in a stream of bytes. *)

\* What the bytes on a line may mean.
Meanings == {FrameIn(b) : b \in Seq(Byte)} \cup {InvalidFrameType}

\* One frame, with what it means (frame.rs lines 153-168).
IsFrameOf(bytes, meaning) ==
    /\ bytes \in Seq(Byte) /\ HasHeader(bytes)
    /\ Len(bytes) = HeaderSize + Length(bytes)
    /\ IF IsKnown(bytes) THEN meaning = FrameIn(bytes) /\ meaning # InvalidFrameType
       ELSE meaning = InvalidFrameType

\* The first n bytes are in the stream after the first at ones.
Shows(stream, at, bytes, n) == \A j \in 1 .. n : stream[at + j] = bytes[j]

\* A frame that was sent begins after the first at bytes of the stream.
Stretch(stream, at, frame) ==
    \E bytes : /\ IsFrameOf(bytes, frame.means) /\ Len(bytes) = frame.size
               /\ Shows(stream, at, bytes, frame.size)

\* The stream is made of the frames after the first done ones; pos[i] is where frame i
\* ends in it.
Lays(stream, frames, done, pos) ==
    /\ pos \in [Nat -> Int]
    /\ pos[done] = 0 /\ pos[Len(frames)] = Len(stream)
    /\ \A i, k \in done .. Len(frames) : i <= k => pos[i] <= pos[k]
    /\ \A i \in done + 1 .. Len(frames) :
         pos[i] = pos[i - 1] + frames[i].size /\ Stretch(stream, pos[i - 1], frames[i])

\* The places are numbers.
LEMMA PlacesTyped ==
  ASSUME NEW stream, NEW frames, NEW done, \E p : Lays(stream, frames, done, p)
  PROVE  \E p \in [Nat -> Int] : Lays(stream, frames, done, p)
BY DEF Lays

\* What is sent of a frame.
Sendings == [means : Meanings, size : Nat]

\* Bytes are numbers.
LEMMA ByteNat == Byte \subseteq Nat
BY DEF Byte

\* The length that a header states is a number.
LEMMA LengthNat ==
  ASSUME NEW b \in Seq(Byte), HasHeader(b) PROVE Length(b) \in Nat /\ Len(b) >= 9
<1>1. PICK n \in Nat : n = Len(b)
  OBVIOUS
<1>2. n >= 9
  BY <1>1 DEF HasHeader, HeaderSize
<1>3. b[1] \in Byte /\ b[2] \in Byte /\ b[3] \in Byte
  BY <1>1, <1>2, ElementOfSeq
<1>4. PICK x \in Nat, y \in Nat, z \in Nat : x = b[1] /\ y = b[2] /\ z = b[3]
  BY <1>3, ByteNat
<1>5. 65536 * x + 256 * y + z \in Nat
  OBVIOUS
<1> QED BY <1>1, <1>2, <1>4, <1>5 DEF Length

\* A frame has a header, and means something.
LEMMA FrameMeans ==
  ASSUME NEW bytes, NEW meaning, IsFrameOf(bytes, meaning)
  PROVE  meaning \in Meanings /\ Len(bytes) \in Nat /\ Len(bytes) >= 9
<1>1. Len(bytes) \in Nat /\ Len(bytes) >= 9
  BY LengthNat DEF IsFrameOf
<1> QED BY <1>1 DEF IsFrameOf, Meanings

\* Two sequences that agree from m to n have the same subsequence there.
LEMMA SameSubSeq ==
  ASSUME NEW X, NEW s, NEW t, NEW m \in Int, NEW n \in Int,
         \A i \in m .. n : s[i] = t[i] /\ t[i] \in X
  PROVE  SubSeq(s, m, n) = SubSeq(t, m, n)
<1>1. \A i \in m .. n : s[i] \in X /\ t[i] \in X
  OBVIOUS
<1>2. /\ SubSeq(s, m, n) \in Seq(X) /\ SubSeq(t, m, n) \in Seq(X)
      /\ Len(SubSeq(s, m, n)) = IF m <= n THEN n - m + 1 ELSE 0
      /\ Len(SubSeq(t, m, n)) = IF m <= n THEN n - m + 1 ELSE 0
      /\ \A i \in 1 .. n - m + 1 : SubSeq(s, m, n)[i] = s[m + i - 1]
                                  /\ SubSeq(t, m, n)[i] = t[m + i - 1]
  BY <1>1, SubSeqProperties
<1>3. PICK a, b : a = SubSeq(s, m, n) /\ b = SubSeq(t, m, n)
  OBVIOUS
<1>4. /\ a \in Seq(X) /\ b \in Seq(X) /\ Len(a) = Len(b)
      /\ Len(a) = IF m <= n THEN n - m + 1 ELSE 0
      /\ \A i \in 1 .. n - m + 1 : a[i] = s[m + i - 1] /\ b[i] = t[m + i - 1]
  BY <1>2, <1>3
<1>5. \A i \in 1 .. Len(a) : a[i] = b[i]
  <2>1. SUFFICES ASSUME NEW i \in 1 .. Len(a) PROVE a[i] = b[i]
    OBVIOUS
  <2>2. i \in 1 .. n - m + 1 /\ m + i - 1 \in m .. n
    BY <1>4
  <2> QED BY <1>4, <2>2
<1> QED BY <1>3, <1>4, <1>5, SeqEqual

\* A buffer that begins with the bytes of a frame, or with some of them, shows the
\* header of that frame, and when all of them are there, the frame.
LEMMA SameFrame ==
  ASSUME NEW bytes, NEW meaning, IsFrameOf(bytes, meaning),
         NEW b \in Seq(Byte), HasHeader(b),
         \A j \in 1 .. Len(b) : j <= Len(bytes) => b[j] = bytes[j]
  PROVE  /\ HeaderSize + Length(b) = Len(bytes)
         /\ IsKnown(b) <=> IsKnown(bytes)
         /\ HasFrame(b) <=> Len(b) >= Len(bytes)
         /\ HasFrame(b) => FrameIn(b) = FrameIn(bytes)
<1>1. PICK n \in Nat, m \in Nat : n = Len(b) /\ m = Len(bytes)
  BY FrameMeans
<1>2. n >= 9 /\ m >= 9
  BY <1>1, FrameMeans DEF HasHeader, HeaderSize
<1>3. \A j \in 1 .. 9 : b[j] = bytes[j]
  BY <1>1, <1>2
<1>4. Length(b) = Length(bytes) /\ m = 9 + Length(bytes) /\ Length(bytes) \in Nat
  BY <1>1, <1>3, LengthNat DEF Length, IsFrameOf, HeaderSize
<1>5. IsKnown(b) <=> IsKnown(bytes)
  BY <1>3 DEF IsKnown
<1>6. HasFrame(b) <=> n >= m
  BY <1>1, <1>4 DEF HasFrame, HeaderSize
<1>7. ASSUME n >= m PROVE FrameIn(b) = FrameIn(bytes)
  <2>1. bytes \in Seq(Byte)
    BY DEF IsFrameOf
  <2>2. \A j \in 1 .. m : b[j] = bytes[j]
    BY <1>1, <1>7
  <2>3. Word(b, 6) = Word(bytes, 6)
    <3>1. \A i \in 6 .. 9 : b[i] = bytes[i] /\ bytes[i] \in Byte
      BY <1>1, <1>2, <1>3, <2>1, ElementOfSeq
    <3> QED BY <3>1, SameSubSeq DEF Word
  <2>4. SubSeq(b, HeaderSize + 1, HeaderSize + Length(b))
          = SubSeq(bytes, HeaderSize + 1, HeaderSize + Length(bytes))
    <3>1. \A i \in 10 .. m : b[i] = bytes[i] /\ bytes[i] \in Byte
      BY <1>1, <2>1, <2>2, ElementOfSeq
    <3> QED BY <3>1, <1>4, SameSubSeq DEF HeaderSize
  <2>5. b[4] = bytes[4] /\ b[5] = bytes[5]
    BY <1>3
  <2>6. PICK p, q, w, v : /\ p = SubSeq(b, HeaderSize + 1, HeaderSize + Length(b))
                          /\ q = SubSeq(bytes, HeaderSize + 1, HeaderSize + Length(bytes))
                          /\ w = Word(b, 6) /\ v = Word(bytes, 6)
    OBVIOUS
  <2>7. p = q /\ w = v
    BY <2>3, <2>4, <2>6
  <2>8. FrameIn(b) = FrameMeant(Types[b[4] + 1], b[5], w, p)
    BY <2>6 DEF FrameIn
  <2>9. FrameIn(bytes) = FrameMeant(Types[bytes[4] + 1], bytes[5], v, q)
    BY <2>6 DEF FrameIn
  <2> QED BY <2>5, <2>7, <2>8, <2>9
<1> QED BY <1>1, <1>4, <1>5, <1>6, <1>7 DEF HeaderSize

-----------------------------------------------------------------------------
(* The frames of a stream. *)

\* The first of them is at its beginning.
LEMMA FirstFrame ==
  ASSUME NEW stream \in Seq(Byte), NEW frames \in Seq(Sendings), NEW pos,
         NEW done \in Nat, done < Len(frames), Lays(stream, frames, done, pos)
  PROVE  \E bytes : /\ IsFrameOf(bytes, frames[done + 1].means)
                    /\ Len(bytes) = frames[done + 1].size /\ Len(bytes) <= Len(stream)
                    /\ \A j \in 1 .. Len(bytes) : stream[j] = bytes[j]
<1>1. PICK n \in Nat : n = Len(frames)
  OBVIOUS
<1>2. done + 1 \in done + 1 .. Len(frames) /\ (done + 1) - 1 = done
  BY <1>1
<1>3. Stretch(stream, pos[(done + 1) - 1], frames[done + 1])
  BY <1>2 DEF Lays
<1>4. pos[done] = 0
  BY DEF Lays
<1>5. Stretch(stream, 0, frames[done + 1])
  BY <1>2, <1>3, <1>4
<1>0. frames[done + 1].size \in Nat
  <2>1. frames[done + 1] \in Sendings
    BY <1>1, ElementOfSeq
  <2> QED BY <2>1 DEF Sendings
<1>6. PICK bytes : /\ IsFrameOf(bytes, frames[done + 1].means)
                   /\ Len(bytes) = frames[done + 1].size
                   /\ \A j \in 1 .. frames[done + 1].size : stream[0 + j] = bytes[j]
  BY <1>5 DEF Stretch, Shows
<1>7. frames[done + 1].size <= Len(stream)
  <2>1. done + 1 \in done .. n /\ n \in done .. n /\ done + 1 <= n
    BY <1>1
  <2>2. pos[done + 1] <= pos[n] /\ pos[n] = Len(stream)
    BY <1>1, <2>1 DEF Lays
  <2>3. pos[done + 1] = pos[(done + 1) - 1] + frames[done + 1].size
    BY <1>2 DEF Lays
  <2> QED BY <1>2, <1>4, <1>0, <2>2, <2>3
<1>8. PICK m \in Nat : m = Len(bytes)
  BY <1>6, FrameMeans
<1>9. \A j \in 1 .. m : stream[j] = bytes[j]
  BY <1>6, <1>8
<1> QED BY <1>6, <1>7, <1>8, <1>9

\* What is left of a stream without its first bytes.
Without(rest, stream, size) ==
    /\ rest \in Seq(Byte) /\ Len(rest) = Len(stream) - size
    /\ \A j \in 1 .. Len(rest) : rest[j] = stream[size + j]

\* Where its bytes are then.
LEMMA WithoutShifts ==
  ASSUME NEW stream \in Seq(Byte), NEW rest, NEW size \in Nat, Without(rest, stream, size),
         NEW at \in Int, NEW s \in Nat, at >= size, at + s <= Len(stream),
         NEW bytes, Shows(stream, at, bytes, s)
  PROVE  Shows(rest, at - size, bytes, s)
<1>1. SUFFICES ASSUME NEW j \in 1 .. s PROVE rest[(at - size) + j] = bytes[j]
  BY DEF Shows
<1>2. PICK l \in Nat, r \in Nat : l = Len(stream) /\ r = Len(rest) /\ r = l - size
  BY DEF Without
<1>3. PICK k \in Int : k = (at - size) + j
  OBVIOUS
<1>4. k \in 1 .. r /\ size + k = at + j
  BY <1>2, <1>3
<1>5. rest[k] = stream[size + k]
  BY <1>2, <1>4 DEF Without
<1>6. stream[at + j] = bytes[j]
  BY DEF Shows
<1> QED BY <1>3, <1>4, <1>5, <1>6

\* It is taken off.
LEMMA FrameTaken ==
  ASSUME NEW stream \in Seq(Byte), NEW frames \in Seq(Sendings), NEW pos,
         NEW done \in Nat, done < Len(frames), Lays(stream, frames, done, pos),
         NEW rest, NEW size \in Nat, size = frames[done + 1].size,
         Without(rest, stream, size)
  PROVE  \E p : Lays(rest, frames, done + 1, p)
<1>1. PICK n \in Nat, l \in Nat, r \in Nat :
        n = Len(frames) /\ l = Len(stream) /\ r = Len(rest) /\ r = l - size
  BY DEF Without
<1>2. pos \in [Nat -> Int] /\ pos[done] = 0 /\ pos[n] = l
  BY <1>1 DEF Lays
<1>3. \A i \in done + 1 .. n :
        pos[i] = pos[i - 1] + frames[i].size /\ Stretch(stream, pos[i - 1], frames[i])
  BY <1>1 DEF Lays
<1>9. \A i, k \in done .. n : i <= k => pos[i] <= pos[k]
  BY <1>1 DEF Lays
<1> DEFINE p == [i \in Nat |-> pos[i] - size]
<1>4. p \in [Nat -> Int] /\ \A i \in Nat : p[i] = pos[i] - size
  <2>1. \A i \in Nat : pos[i] - size \in Int
    BY <1>2, SMTT(40)
  <2> QED BY <2>1
<1> HIDE DEF p
<1>5. pos[done + 1] = size
  <2>1. done + 1 \in done + 1 .. n /\ (done + 1) - 1 = done
    BY <1>1
  <2>2. pos[done + 1] = pos[done] + frames[done + 1].size
    BY <1>3, <2>1
  <2>3. frames[done + 1].size = size /\ size \in Nat /\ pos[done] = 0
    BY <1>2
  <2> QED BY <2>2, <2>3
<1>6. p[done + 1] = 0 /\ p[n] = r
  BY <1>1, <1>2, <1>4, <1>5, SMTT(40)
<1>7. ASSUME NEW i \in done + 2 .. n
      PROVE  p[i] = p[i - 1] + frames[i].size /\ Stretch(rest, p[i - 1], frames[i])
  <2>1. i \in done + 1 .. n /\ i - 1 \in done + 1 .. n /\ i \in Nat /\ i - 1 \in Nat
        /\ (i - 1) - 1 \in Nat
    OBVIOUS
  <2>2. PICK s \in Nat : s = frames[i].size
    <3>1. i \in 1 .. n
      BY <2>1
    <3>2. frames[i] \in Sendings
      BY <1>1, <3>1, ElementOfSeq
    <3> QED BY <3>2 DEF Sendings
  <2>3. pos[i] = pos[i - 1] + frames[i].size /\ Stretch(stream, pos[i - 1], frames[i])
    BY <1>3, <2>1
  <2>4. PICK at \in Int : at = pos[i - 1]
    BY <1>2, <2>1
  <2>5. at >= size /\ pos[i] <= l
    <3>1. /\ done + 1 \in done .. n /\ i - 1 \in done .. n /\ i \in done .. n /\ n \in done .. n
          /\ done + 1 <= i - 1 /\ i <= n
      OBVIOUS
    <3>2. pos[done + 1] <= pos[i - 1] /\ pos[i] <= pos[n]
      BY <1>9, <3>1
    <3> QED BY <1>2, <1>5, <2>4, <3>2
  <2>6. p[i] = p[i - 1] + frames[i].size /\ p[i - 1] = at - size
    <3>1. p[i] = pos[i] - size /\ p[i - 1] = pos[i - 1] - size
      BY <1>4, <2>1
    <3>2. pos[i] = at + s
      BY <2>2, <2>3, <2>4
    <3>3. (at + s) - size = (at - size) + s
      OBVIOUS
    <3> QED BY <2>2, <2>4, <3>1, <3>2, <3>3
  <2>7. PICK bytes : /\ IsFrameOf(bytes, frames[i].means) /\ Len(bytes) = frames[i].size
                     /\ Shows(stream, at, bytes, frames[i].size)
    BY <2>3, <2>4 DEF Stretch
  <2>8. at + s <= Len(stream)
    <3>1. pos[i] = at + s
      BY <2>2, <2>3, <2>4
    <3> QED BY <1>1, <2>5, <3>1
  <2>9. Shows(rest, at - size, bytes, s)
    <3>1. Shows(stream, at, bytes, s) /\ at >= size
      BY <2>2, <2>5, <2>7
    <3> QED BY <2>8, <3>1, WithoutShifts
  <2>11. Stretch(rest, at - size, frames[i])
    BY <2>2, <2>7, <2>9 DEF Stretch
  <2> QED BY <2>6, <2>11
<1>8. ASSUME NEW i \in done + 1 .. n, NEW k \in done + 1 .. n, i <= k PROVE p[i] <= p[k]
  <2>1. i \in done .. n /\ k \in done .. n /\ i \in Nat /\ k \in Nat
    OBVIOUS
  <2>2. pos[i] <= pos[k] /\ pos[i] \in Int /\ pos[k] \in Int
    BY <1>2, <1>8, <1>9, <2>1
  <2>3. p[i] = pos[i] - size /\ p[k] = pos[k] - size
    BY <1>4, <2>1
  <2> QED BY <2>2, <2>3
<1>10. \A i \in (done + 1) + 1 .. n :
         p[i] = p[i - 1] + frames[i].size /\ Stretch(rest, p[i - 1], frames[i])
  BY <1>7
<1>11. Lays(rest, frames, done + 1, p)
  BY <1>1, <1>4, <1>6, <1>8, <1>10 DEF Lays
<1> QED BY <1>11

-----------------------------------------------------------------------------
(* Frames are added. *)

\* A stream begins with another one.
Begins(longer, stream) == \A j \in 1 .. Len(stream) : longer[j] = stream[j]

\* What is in it stays where it is.
LEMMA BeginsShows ==
  ASSUME NEW stream \in Seq(Byte), NEW longer, Begins(longer, stream),
         NEW at \in Int, NEW s \in Nat, at >= 0, at + s <= Len(stream),
         NEW bytes, Shows(stream, at, bytes, s)
  PROVE  Shows(longer, at, bytes, s)
<1>1. SUFFICES ASSUME NEW j \in 1 .. s PROVE longer[at + j] = bytes[j]
  BY DEF Shows
<1>2. PICK l \in Nat, k \in Int : l = Len(stream) /\ k = at + j
  OBVIOUS
<1>3. k \in 1 .. l
  BY <1>2
<1>4. longer[k] = stream[k]
  BY <1>2, <1>3 DEF Begins
<1>5. stream[at + j] = bytes[j]
  BY DEF Shows
<1> QED BY <1>2, <1>4, <1>5

\* One more frame at the end.
LEMMA FrameAdded ==
  ASSUME NEW stream \in Seq(Byte), NEW frames \in Seq(Sendings), NEW pos,
         NEW done \in 0 .. Len(frames), Lays(stream, frames, done, pos),
         NEW bytes, NEW meaning, IsFrameOf(bytes, meaning),
         NEW one \in Sendings, one.means = meaning, one.size = Len(bytes)
  PROVE  \E p : Lays(stream \o bytes, Append(frames, one), done, p)
<1>0. bytes \in Seq(Byte)
  BY DEF IsFrameOf
<1>1. PICK n \in Nat, l \in Nat, m \in Nat : n = Len(frames) /\ l = Len(stream) /\ m = Len(bytes)
  BY <1>0
<1>2. PICK longer, more : longer = stream \o bytes /\ more = Append(frames, one)
  OBVIOUS
<1>3. /\ longer \in Seq(Byte) /\ Len(longer) = l + m
      /\ Begins(longer, stream) /\ Shows(longer, l, bytes, m)
  <2>1. /\ longer \in Seq(Byte) /\ Len(longer) = l + m
        /\ \A j \in 1 .. l + m : longer[j] = IF j <= l THEN stream[j] ELSE bytes[j - l]
    BY <1>0, <1>1, <1>2, ConcatProperties
  <2>2. \A j \in 1 .. l : longer[j] = stream[j]
    BY <2>1
  <2>3. ASSUME NEW j \in 1 .. m PROVE longer[l + j] = bytes[j]
    <3>1. PICK k \in Int : k = l + j
      OBVIOUS
    <3>2. k \in 1 .. l + m /\ ~(k <= l) /\ k - l = j
      BY <3>1
    <3> QED BY <2>1, <3>1, <3>2
  <2> QED BY <1>1, <2>1, <2>2, <2>3 DEF Begins, Shows
<1>4. /\ Len(more) = n + 1 /\ more[n + 1] = one
      /\ \A i \in 1 .. n : more[i] = frames[i]
  BY <1>1, <1>2, AppendProperties
<1>5. done \in Nat /\ done <= n
  BY <1>1
<1>6. pos \in [Nat -> Int] /\ pos[done] = 0 /\ pos[n] = l
  BY <1>1 DEF Lays
<1>7. \A i, k \in done .. n : i <= k => pos[i] <= pos[k]
  BY <1>1 DEF Lays
<1>8. \A i \in done + 1 .. n :
        pos[i] = pos[i - 1] + frames[i].size /\ Stretch(stream, pos[i - 1], frames[i])
  BY <1>1 DEF Lays
<1> DEFINE p == [i \in Nat |-> IF i = n + 1 THEN l + m ELSE pos[i]]
<1>9. p \in [Nat -> Int]
  BY <1>6
<1>10. /\ p[n + 1] = l + m
       /\ \A i \in Nat : i # n + 1 => p[i] = pos[i]
  OBVIOUS
<1> HIDE DEF p
<1>11. p[done] = 0 /\ p[n] = l
  BY <1>5, <1>6, <1>10, SMTT(40)
<1>12. ASSUME NEW i \in done .. n + 1, NEW k \in done .. n + 1, i <= k PROVE p[i] <= p[k]
  <2>1. CASE k <= n
    <3>1. i \in done .. n /\ k \in done .. n /\ i \in Nat /\ k \in Nat /\ i # n + 1 /\ k # n + 1
      BY <1>5, <1>12, <2>1
    <3> QED BY <1>7, <1>10, <1>12, <3>1
  <2>2. CASE k = n + 1 /\ i <= n
    <3>1. i \in done .. n /\ n \in done .. n /\ i \in Nat /\ i # n + 1
      BY <1>5, <2>2
    <3>2. pos[i] <= pos[n] /\ pos[i] \in Int
      BY <1>6, <1>7, <3>1
    <3>3. pos[i] <= l
      BY <1>6, <3>2
    <3>4. pos[i] <= l + m
      BY <3>2, <3>3
    <3> QED BY <1>10, <2>2, <3>1, <3>4
  <2>3. CASE k = n + 1 /\ i = n + 1
    BY <1>10, <2>3
  <2> QED BY <1>12, <2>1, <2>2, <2>3
<1>13. ASSUME NEW i \in done + 1 .. n + 1
       PROVE  p[i] = p[i - 1] + more[i].size /\ Stretch(longer, p[i - 1], more[i])
  <2>1. CASE i \in done + 1 .. n
    <3>1. /\ i \in Nat /\ i - 1 \in Nat /\ i # n + 1 /\ i - 1 # n + 1 /\ i \in 1 .. n
          /\ i \in done .. n /\ i - 1 \in done .. n /\ done \in done .. n /\ n \in done .. n
          /\ done <= i - 1 /\ i <= n
      BY <1>5, <2>1
    <3>2. p[i] = pos[i] /\ p[i - 1] = pos[i - 1] /\ more[i] = frames[i]
      BY <1>4, <1>10, <3>1
    <3>3. PICK at \in Int, end \in Int : at = pos[i - 1] /\ end = pos[i]
      BY <1>6, <3>1
    <3>4. PICK s \in Nat : s = frames[i].size
      <4>1. frames[i] \in Sendings
        BY <1>1, <3>1, ElementOfSeq
      <4> QED BY <4>1 DEF Sendings
    <3>5. end = at + s
      BY <1>8, <2>1, <3>3, <3>4
    <3>6. pos[done] <= at /\ end <= pos[n]
      BY <1>7, <3>1, <3>3
    <3>7. at >= 0 /\ at + s <= Len(stream)
      <4>1. 0 <= at /\ end <= l
        BY <1>6, <3>6
      <4> QED BY <1>1, <3>5, <4>1
    <3>8. PICK b : IsFrameOf(b, frames[i].means) /\ Len(b) = s /\ Shows(stream, at, b, s)
      BY <1>8, <2>1, <3>3, <3>4 DEF Stretch
    <3>9. Shows(longer, at, b, s)
      BY <1>3, <3>7, <3>8, BeginsShows
    <3>10. Stretch(longer, at, frames[i])
      BY <3>4, <3>8, <3>9 DEF Stretch
    <3> QED BY <1>8, <2>1, <3>2, <3>3, <3>10
  <2>2. CASE i = n + 1
    <3>1. i - 1 = n /\ p[i - 1] = l /\ more[i] = one /\ p[i] = l + m
      BY <1>4, <1>10, <1>11, <2>2
    <3>2. Stretch(longer, l, one)
      BY <1>1, <1>3 DEF Stretch
    <3> QED BY <1>1, <3>1, <3>2
  <2> QED BY <1>5, <2>1, <2>2
<1>14. Lays(longer, more, done, p)
  BY <1>3, <1>4, <1>9, <1>10, <1>11, <1>12, <1>13 DEF Lays
<1> QED BY <1>2, <1>14

-----------------------------------------------------------------------------
(* The invariant. *)

\* What parse has returned of the frames: the first done ones, none of an unknown type,
\* and perhaps the error of the next one, which stays in the buffer.
Returned(results, frames, done) ==
    /\ \A i \in 1 .. done : results[i] = frames[i].means /\ frames[i].means # InvalidFrameType
    /\ \/ Len(results) = done
       \/ /\ done < Len(frames) /\ Len(results) = done + 1
          /\ results[done + 1] = InvalidFrameType
          /\ frames[done + 1].means = InvalidFrameType

\* The bytes that have arrived and those on their way are the frames that parse has not
\* yet taken off.
FramesInv ==
    /\ sent \in Seq(Sendings) /\ parsed \in Seq(Meanings)
    /\ buf \in Seq(Byte) /\ line \in Seq(Byte)
    /\ \E done \in 0 .. Len(sent), pos \in [Nat -> Int] :
         Lays(buf \o line, sent, done, pos) /\ Returned(parsed, sent, done)

\* The bytes in the buffer are the first of the stream.
LEMMA BufferBegins ==
  ASSUME NEW b \in Seq(Byte), NEW l \in Seq(Byte)
  PROVE  /\ b \o l \in Seq(Byte) /\ Len(b \o l) = Len(b) + Len(l)
         /\ \A j \in 1 .. Len(b) : (b \o l)[j] = b[j]
<1>0. PICK stream : stream = b \o l
  OBVIOUS
<1>1. PICK n \in Nat, m \in Nat : n = Len(b) /\ m = Len(l)
  OBVIOUS
<1>2. /\ stream \in Seq(Byte) /\ Len(stream) = n + m
      /\ \A j \in 1 .. n + m : stream[j] = IF j <= n THEN b[j] ELSE l[j - n]
  BY <1>0, <1>1, ConcatProperties
<1>3. \A j \in 1 .. n : stream[j] = b[j]
  BY <1>2, SMTT(40)
<1> QED BY <1>0, <1>1, <1>2, <1>3

\* The frame that the buffer begins with, when its header has arrived.
LEMMA HeadOfBuffer ==
  ASSUME NEW b \in Seq(Byte), NEW l \in Seq(Byte), NEW frames \in Seq(Sendings), NEW pos,
         NEW done \in 0 .. Len(frames), Lays(b \o l, frames, done, pos), HasHeader(b)
  PROVE  /\ done < Len(frames)
         /\ HeaderSize + Length(b) = frames[done + 1].size
         /\ HasFrame(b) <=> Len(b) >= frames[done + 1].size
         /\ ~IsKnown(b) => frames[done + 1].means = InvalidFrameType
         /\ IsKnown(b) => /\ frames[done + 1].means # InvalidFrameType
                          /\ HasFrame(b) => FrameIn(b) = frames[done + 1].means
<1>1. PICK stream : stream = b \o l
  OBVIOUS
<1>2. PICK n \in Nat : n = Len(b)
  OBVIOUS
<1>3. /\ stream \in Seq(Byte) /\ Len(stream) = n + Len(l)
      /\ \A j \in 1 .. n : stream[j] = b[j]
  BY <1>1, <1>2, BufferBegins
<1>4. n >= 9
  BY <1>2 DEF HasHeader, HeaderSize
<1>5. done < Len(frames)
  <2>1. SUFFICES ASSUME done = Len(frames) PROVE FALSE
    OBVIOUS
  <2>2. pos[done] = 0 /\ pos[done] = Len(stream)
    BY <1>1, <2>1 DEF Lays
  <2>3. PICK k \in Nat : k = Len(l)
    OBVIOUS
  <2> QED BY <1>3, <1>4, <2>2, <2>3
<1>6. done \in Nat
  OBVIOUS
<1>0. Lays(stream, frames, done, pos)
  BY <1>1
<1>7. PICK bytes : /\ IsFrameOf(bytes, frames[done + 1].means)
                   /\ Len(bytes) = frames[done + 1].size
                   /\ \A j \in 1 .. Len(bytes) : stream[j] = bytes[j]
  <2>1. stream \in Seq(Byte)
    BY <1>3
  <2> QED BY <1>0, <1>5, <1>6, <2>1, FirstFrame
<1>8. PICK m \in Nat : m = Len(bytes)
  BY <1>7, FrameMeans
<1>9. \A j \in 1 .. n : j <= m => b[j] = bytes[j]
  <2>1. SUFFICES ASSUME NEW j \in 1 .. n, j <= m PROVE b[j] = bytes[j]
    OBVIOUS
  <2>2. j \in 1 .. m
    BY <2>1
  <2> QED BY <1>3, <1>7, <1>8, <2>2
<1>10. /\ HeaderSize + Length(b) = Len(bytes)
       /\ IsKnown(b) <=> IsKnown(bytes)
       /\ HasFrame(b) <=> Len(b) >= Len(bytes)
       /\ HasFrame(b) => FrameIn(b) = FrameIn(bytes)
  BY <1>2, <1>7, <1>8, <1>9, SameFrame
<1>11. IF IsKnown(bytes) THEN /\ frames[done + 1].means = FrameIn(bytes)
                              /\ frames[done + 1].means # InvalidFrameType
       ELSE frames[done + 1].means = InvalidFrameType
  BY <1>7 DEF IsFrameOf
<1> QED BY <1>5, <1>7, <1>10, <1>11

\* At the start there is nothing.
LEMMA FramesInitInv == FramesInit => FramesInv
<1> SUFFICES ASSUME FramesInit PROVE FramesInv
  OBVIOUS
<1>1. sent = <<>> /\ line = <<>> /\ buf = <<>> /\ parsed = <<>>
  BY DEF FramesInit
<1>2. /\ sent \in Seq(Sendings) /\ parsed \in Seq(Meanings)
      /\ buf \in Seq(Byte) /\ line \in Seq(Byte)
      /\ Len(sent) = 0 /\ Len(parsed) = 0
  BY <1>1, EmptySeq
<1>3. buf \o line = <<>> /\ Len(buf \o line) = 0
  BY <1>1, <1>2, ConcatEmptySeq, EmptySeq
<1> DEFINE p == [i \in Nat |-> 0]
<1>4. p \in [Nat -> Int] /\ \A i \in Nat : p[i] = 0
  OBVIOUS
<1> HIDE DEF p
<1>5. Lays(buf \o line, sent, 0, p)
  BY <1>2, <1>3, <1>4 DEF Lays
<1>6. Returned(parsed, sent, 0)
  BY <1>2 DEF Returned
<1>7. 0 \in 0 .. Len(sent)
  BY <1>2
<1>8. \E pos \in [Nat -> Int] : Lays(buf \o line, sent, 0, pos) /\ Returned(parsed, sent, 0)
  BY <1>4, <1>5, <1>6
<1> QED BY <1>2, <1>7, <1>8 DEF FramesInv

-----------------------------------------------------------------------------
(* Every step keeps it. *)

\* A frame is sent.
LEMMA SendKeeps ==
  ASSUME FramesInv, NEW meaning, NEW bytes, IsFrameOf(bytes, meaning), Send(meaning, bytes)
  PROVE  FramesInv'
<1>1. PICK one : one = [means |-> meaning, size |-> Len(bytes)]
  OBVIOUS
<1>2. sent' = Append(sent, one) /\ line' = line \o bytes /\ buf' = buf /\ parsed' = parsed
  BY <1>1 DEF Send
<1>3. /\ sent \in Seq(Sendings) /\ parsed \in Seq(Meanings) /\ buf \in Seq(Byte)
      /\ line \in Seq(Byte) /\ bytes \in Seq(Byte)
  BY DEF FramesInv, IsFrameOf
<1>4. one \in Sendings /\ one.means = meaning /\ one.size = Len(bytes)
  <2>1. meaning \in Meanings /\ Len(bytes) \in Nat
    BY FrameMeans
  <2> QED BY <1>1, <2>1 DEF Sendings
<1>5. PICK n \in Nat : n = Len(sent)
  BY <1>3
<1>6. PICK stream, more : stream = buf \o line /\ more = sent'
  OBVIOUS
<1>7. stream \in Seq(Byte)
  BY <1>3, <1>6, BufferBegins
<1>8. buf' \o line' = stream \o bytes
  <2>1. PICK b \in Seq(Byte), l \in Seq(Byte), s \in Seq(Byte) :
          b = buf /\ l = line /\ s = bytes
    BY <1>3
  <2>2. (b \o l) \o s = b \o (l \o s)
    BY ConcatAssociative
  <2>3. buf' \o line' = b \o (l \o s) /\ stream = b \o l
    BY <1>2, <1>6, <2>1
  <2> QED BY <2>1, <2>2, <2>3
<1>9. PICK done \in 0 .. n, pos \in [Nat -> Int] :
         Lays(stream, sent, done, pos) /\ Returned(parsed, sent, done)
  BY <1>5, <1>6 DEF FramesInv
<1>10. \E p : Lays(stream \o bytes, Append(sent, one), done, p)
  <2>1. done \in 0 .. Len(sent)
    BY <1>5
  <2> QED BY <1>3, <1>4, <1>7, <1>9, <2>1, FrameAdded
<1>11. /\ more \in Seq(Sendings) /\ Len(more) = n + 1
       /\ \A i \in 1 .. n : more[i] = sent[i]
  BY <1>2, <1>3, <1>4, <1>5, <1>6, AppendProperties
<1>12. Returned(parsed, more, done)
  <2>1. \A i \in 1 .. done : more[i] = sent[i]
    BY <1>11
  <2>2. done < n => more[done + 1] = sent[done + 1] /\ done < n + 1
    BY <1>11
  <2> QED BY <1>5, <1>9, <1>11, <2>1, <2>2 DEF Returned
<1>13. line' \in Seq(Byte)
  BY <1>2, <1>3, BufferBegins
<1>14. done \in 0 .. Len(more)
  BY <1>11
<1>15. \E p \in [Nat -> Int] : Lays(buf' \o line', sent', done, p)
  BY <1>2, <1>8, <1>10, PlacesTyped
<1> QED BY <1>2, <1>3, <1>6, <1>11, <1>12, <1>13, <1>14, <1>15 DEF FramesInv

\* A byte arrives.
LEMMA ArriveKeeps ==
  ASSUME FramesInv, Arrive PROVE FramesInv'
<1>1. /\ line # <<>> /\ buf' = Append(buf, Head(line)) /\ line' = Tail(line)
      /\ sent' = sent /\ parsed' = parsed
  BY DEF Arrive
<1>2. /\ sent \in Seq(Sendings) /\ parsed \in Seq(Meanings) /\ buf \in Seq(Byte)
      /\ line \in Seq(Byte)
  BY DEF FramesInv
<1>3. PICK n \in Nat, m \in Nat : n = Len(buf) /\ m = Len(line)
  BY <1>2
<1>4. m > 0
  BY <1>1, <1>2, <1>3, EmptySeq
<1>5. PICK front, back : front = buf' /\ back = line'
  OBVIOUS
<1>6. /\ back \in Seq(Byte) /\ Len(back) = m - 1 /\ Head(line) \in Byte /\ Head(line) = line[1]
      /\ \A j \in 1 .. m - 1 : back[j] = line[j + 1]
  BY <1>1, <1>2, <1>3, <1>5, HeadTailProperties
<1>7. /\ front \in Seq(Byte) /\ Len(front) = n + 1 /\ front[n + 1] = line[1]
      /\ \A j \in 1 .. n : front[j] = buf[j]
  BY <1>1, <1>2, <1>3, <1>5, <1>6, AppendProperties
<1>8. front \o back = buf \o line
  <2>1. PICK a, b : a = front \o back /\ b = buf \o line
    OBVIOUS
  <2>2. /\ a \in Seq(Byte) /\ Len(a) = n + m
        /\ \A j \in 1 .. n + m : a[j] = IF j <= n + 1 THEN front[j] ELSE back[j - (n + 1)]
    <3>1. Len(front) + Len(back) = n + m
      BY <1>4, <1>6, <1>7
    <3>2. /\ a \in Seq(Byte) /\ Len(a) = Len(front) + Len(back)
          /\ \A j \in 1 .. Len(front) + Len(back) :
               a[j] = IF j <= Len(front) THEN front[j] ELSE back[j - Len(front)]
      BY <1>6, <1>7, <2>1, ConcatProperties
    <3> QED BY <1>7, <3>1, <3>2
  <2>3. /\ b \in Seq(Byte) /\ Len(b) = n + m
        /\ \A j \in 1 .. n + m : b[j] = IF j <= n THEN buf[j] ELSE line[j - n]
    BY <1>2, <1>3, <2>1, ConcatProperties
  <2>4. ASSUME NEW j \in 1 .. n + m PROVE a[j] = b[j]
    <3>1. CASE j <= n
      <4>1. j \in 1 .. n /\ j <= n + 1
        BY <3>1
      <4> QED BY <1>7, <2>2, <2>3, <3>1, <4>1
    <3>2. CASE j = n + 1
      <4>1. j <= n + 1 /\ ~(j <= n) /\ j - n = 1
        BY <3>2
      <4> QED BY <1>7, <2>2, <2>3, <3>2, <4>1
    <3>3. CASE j > n + 1
      <4>1. PICK k \in Nat : k = j - (n + 1)
        BY <3>3
      <4>2. k \in 1 .. m - 1 /\ j - n = k + 1 /\ ~(j <= n) /\ ~(j <= n + 1)
        BY <3>3, <4>1
      <4>3. a[j] = back[k] /\ b[j] = line[k + 1]
        BY <2>2, <2>3, <4>1, <4>2
      <4> QED BY <1>6, <4>2, <4>3
    <3> QED BY <3>1, <3>2, <3>3
  <2> QED BY <2>1, <2>2, <2>3, <2>4, SeqEqual
<1>9. buf' \o line' = buf \o line
  BY <1>5, <1>8
<1>10. buf' \in Seq(Byte) /\ line' \in Seq(Byte)
  BY <1>5, <1>6, <1>7
<1>11. \E done \in 0 .. Len(sent), pos \in [Nat -> Int] :
         Lays(buf \o line, sent, done, pos) /\ Returned(parsed, sent, done)
  BY DEF FramesInv
<1>12. \E done \in 0 .. Len(sent'), pos \in [Nat -> Int] :
         Lays(buf' \o line', sent', done, pos) /\ Returned(parsed', sent', done)
  BY <1>1, <1>9, <1>11
<1> QED BY <1>1, <1>2, <1>10, <1>12 DEF FramesInv

-----------------------------------------------------------------------------
\* The bytes after the first size ones are left, in the buffer and on their way.
LEMMA BufferWithout ==
  ASSUME NEW b \in Seq(Byte), NEW l \in Seq(Byte), NEW size \in Nat, size <= Len(b)
  PROVE  /\ From(b, size + 1) \in Seq(Byte)
         /\ Without(From(b, size + 1) \o l, b \o l, size)
<1>1. PICK n \in Nat, m \in Nat : n = Len(b) /\ m = Len(l)
  OBVIOUS
<1>2. PICK rest : rest = From(b, size + 1)
  OBVIOUS
<1>3. PICK stream, shorter : stream = b \o l /\ shorter = rest \o l
  OBVIOUS
<1>4. /\ rest \in Seq(Byte) /\ Len(rest) = n - size
      /\ \A j \in 1 .. n - size : rest[j] = b[size + j]
  <2>1. \A i \in size + 1 .. n : b[i] \in Byte
    BY <1>1, ElementOfSeq
  <2>2. /\ SubSeq(b, size + 1, n) \in Seq(Byte)
        /\ Len(SubSeq(b, size + 1, n)) = IF size + 1 <= n THEN n - (size + 1) + 1 ELSE 0
        /\ \A j \in 1 .. n - (size + 1) + 1 : SubSeq(b, size + 1, n)[j] = b[(size + 1) + j - 1]
    BY <2>1, SubSeqProperties
  <2>3. rest = SubSeq(b, size + 1, n)
    BY <1>1, <1>2 DEF From
  <2>4. Len(rest) = n - size
    BY <1>1, <2>2, <2>3
  <2>5. ASSUME NEW j \in 1 .. n - size PROVE rest[j] = b[size + j]
    <3>1. j \in 1 .. n - (size + 1) + 1 /\ (size + 1) + j - 1 = size + j
      BY <1>1
    <3> QED BY <2>2, <2>3, <3>1
  <2> QED BY <2>2, <2>3, <2>4, <2>5
<1>5. /\ stream \in Seq(Byte) /\ Len(stream) = n + m
      /\ \A j \in 1 .. n + m : stream[j] = IF j <= n THEN b[j] ELSE l[j - n]
  BY <1>1, <1>3, ConcatProperties
<1>0. size <= n
  BY <1>1
<1>6. PICK k \in Nat : k = n - size
  BY <1>0
<1>7. /\ shorter \in Seq(Byte) /\ Len(shorter) = k + m
      /\ \A j \in 1 .. k + m : shorter[j] = IF j <= k THEN rest[j] ELSE l[j - k]
  <2>1. /\ shorter \in Seq(Byte) /\ Len(shorter) = Len(rest) + Len(l)
        /\ \A j \in 1 .. Len(rest) + Len(l) :
             shorter[j] = IF j <= Len(rest) THEN rest[j] ELSE l[j - Len(rest)]
    BY <1>3, <1>4, ConcatProperties
  <2> QED BY <1>1, <1>4, <1>6, <2>1
<1>8. ASSUME NEW j \in 1 .. k + m PROVE shorter[j] = stream[size + j]
  <2>1. PICK i \in Nat : i = size + j
    OBVIOUS
  <2>2. i \in 1 .. n + m
    BY <1>6, <2>1
  <2>3. CASE j <= k
    <3>1. j \in 1 .. n - size /\ i <= n
      BY <1>6, <2>1, <2>3
    <3>2. rest[j] = b[i]
      BY <1>4, <2>1, <3>1
    <3> QED BY <1>5, <1>7, <2>1, <2>2, <2>3, <3>1, <3>2
  <2>4. CASE ~(j <= k)
    <3>1. ~(i <= n) /\ i - n = j - k
      BY <1>6, <2>1, <2>4
    <3> QED BY <1>5, <1>7, <2>1, <2>2, <2>4, <3>1
  <2> QED BY <2>3, <2>4
<1>9. Len(shorter) = Len(stream) - size
  BY <1>5, <1>6, <1>7
<1>10. Without(shorter, stream, size)
  BY <1>7, <1>8, <1>9 DEF Without
<1> QED BY <1>2, <1>3, <1>4, <1>10

\* parse takes a frame off the buffer.
LEMMA ParseFrameKeeps ==
  ASSUME FramesInv, ParseFrame PROVE FramesInv'
<1>1. /\ HasHeader(buf) /\ IsKnown(buf) /\ HasFrame(buf)
      /\ parsed' = Append(parsed, FrameIn(buf))
      /\ buf' = From(buf, HeaderSize + Length(buf) + 1)
      /\ sent' = sent /\ line' = line
  BY DEF ParseFrame
<1>2. /\ sent \in Seq(Sendings) /\ parsed \in Seq(Meanings) /\ buf \in Seq(Byte)
      /\ line \in Seq(Byte)
  BY DEF FramesInv
<1>3. PICK n \in Nat, k \in Nat : n = Len(sent) /\ k = Len(parsed)
  BY <1>2
<1>4. PICK done \in 0 .. n, pos \in [Nat -> Int] :
         Lays(buf \o line, sent, done, pos) /\ Returned(parsed, sent, done)
  BY <1>3 DEF FramesInv
<1>5. /\ done < n
      /\ HeaderSize + Length(buf) = sent[done + 1].size
      /\ Len(buf) >= sent[done + 1].size
      /\ sent[done + 1].means # InvalidFrameType
      /\ FrameIn(buf) = sent[done + 1].means
  BY <1>1, <1>2, <1>3, <1>4, HeadOfBuffer
<1>6. PICK size \in Nat : size = sent[done + 1].size
  <2>1. done + 1 \in 1 .. n
    BY <1>5
  <2>2. sent[done + 1] \in Sendings
    BY <1>2, <1>3, <2>1, ElementOfSeq
  <2> QED BY <2>2 DEF Sendings
<1>7. buf' = From(buf, size + 1) /\ size <= Len(buf)
  <2>1. size <= Len(buf)
    BY <1>2, <1>5, <1>6
  <2> QED BY <1>1, <1>5, <1>6, <2>1
<1>8. buf' \in Seq(Byte) /\ Without(buf' \o line, buf \o line, size)
  BY <1>2, <1>7, BufferWithout
<1>9. \E p \in [Nat -> Int] : Lays(buf' \o line, sent, done + 1, p)
  <2>1. buf \o line \in Seq(Byte)
    BY <1>2, BufferBegins
  <2>2. done \in Nat /\ done < Len(sent)
    BY <1>3, <1>5
  <2>3. \E p : Lays(buf' \o line, sent, done + 1, p)
    BY <1>2, <1>4, <1>6, <1>8, <2>1, <2>2, FrameTaken
  <2> QED BY <2>3, PlacesTyped
<1>10. /\ k = done
       /\ \A i \in 1 .. done :
            parsed[i] = sent[i].means /\ sent[i].means # InvalidFrameType
  BY <1>3, <1>4, <1>5 DEF Returned
<1>11. PICK more : more = parsed'
  OBVIOUS
<1>12. FrameIn(buf) \in Meanings
  BY <1>2 DEF Meanings
<1>13. /\ more \in Seq(Meanings) /\ Len(more) = done + 1
       /\ more[done + 1] = FrameIn(buf) /\ \A i \in 1 .. done : more[i] = parsed[i]
  <2>1. /\ more \in Seq(Meanings) /\ Len(more) = k + 1
        /\ more[k + 1] = FrameIn(buf) /\ \A i \in 1 .. k : more[i] = parsed[i]
    BY <1>1, <1>2, <1>3, <1>11, <1>12, AppendProperties
  <2> QED BY <1>10, <2>1
<1>14. Returned(more, sent, done + 1)
  <2>1. ASSUME NEW i \in 1 .. done + 1
        PROVE  more[i] = sent[i].means /\ sent[i].means # InvalidFrameType
    <3>1. CASE i = done + 1
      BY <1>5, <1>13, <3>1
    <3>2. CASE i # done + 1
      <4>1. i \in 1 .. done
        BY <3>2
      <4> QED BY <1>10, <1>13, <4>1
    <3> QED BY <3>1, <3>2
  <2> QED BY <1>13, <2>1 DEF Returned
<1>15. done + 1 \in 0 .. Len(sent)
  BY <1>3, <1>5
<1> QED BY <1>1, <1>2, <1>8, <1>9, <1>11, <1>13, <1>14, <1>15 DEF FramesInv

\* parse finds a type that it does not know.
LEMMA ParseUnknownKeeps ==
  ASSUME FramesInv, ParseUnknown PROVE FramesInv'
<1>1. /\ HasHeader(buf) /\ ~IsKnown(buf)
      /\ parsed # <<>> => Last(parsed) # InvalidFrameType
      /\ parsed' = Append(parsed, InvalidFrameType)
      /\ buf' = buf /\ sent' = sent /\ line' = line
  BY DEF ParseUnknown
<1>2. /\ sent \in Seq(Sendings) /\ parsed \in Seq(Meanings) /\ buf \in Seq(Byte)
      /\ line \in Seq(Byte)
  BY DEF FramesInv
<1>3. PICK n \in Nat, k \in Nat : n = Len(sent) /\ k = Len(parsed)
  BY <1>2
<1>4. PICK done \in 0 .. n, pos \in [Nat -> Int] :
         Lays(buf \o line, sent, done, pos) /\ Returned(parsed, sent, done)
  BY <1>3 DEF FramesInv
<1>5. done < n /\ sent[done + 1].means = InvalidFrameType
  BY <1>1, <1>2, <1>3, <1>4, HeadOfBuffer
<1>6. \A i \in 1 .. done : parsed[i] = sent[i].means /\ sent[i].means # InvalidFrameType
  BY <1>4 DEF Returned
<1>7. k = done
  <2>1. SUFFICES ASSUME k = done + 1, parsed[done + 1] = InvalidFrameType PROVE FALSE
    BY <1>3, <1>4 DEF Returned
  <2>2. parsed # <<>>
    <3>1. SUFFICES ASSUME parsed = <<>> PROVE FALSE
      OBVIOUS
    <3>2. k = 0
      BY <1>3, <3>1
    <3> QED BY <2>1, <3>2
  <2>3. Last(parsed) = parsed[k]
    BY <1>3 DEF Last
  <2> QED BY <1>1, <2>1, <2>2, <2>3
<1>8. PICK more : more = parsed'
  OBVIOUS
<1>9. /\ more \in Seq(Meanings) /\ Len(more) = done + 1
      /\ more[done + 1] = InvalidFrameType /\ \A i \in 1 .. done : more[i] = parsed[i]
  <2>1. InvalidFrameType \in Meanings
    BY DEF Meanings
  <2>2. /\ more \in Seq(Meanings) /\ Len(more) = k + 1
        /\ more[k + 1] = InvalidFrameType /\ \A i \in 1 .. k : more[i] = parsed[i]
    BY <1>1, <1>2, <1>3, <1>8, <2>1, AppendProperties
  <2> QED BY <1>7, <2>2
<1>10. Returned(more, sent, done)
  BY <1>3, <1>5, <1>6, <1>9 DEF Returned
<1>11. \E p \in [Nat -> Int] : Lays(buf' \o line', sent', done, p)
  BY <1>1, <1>4
<1>12. done \in 0 .. Len(sent')
  BY <1>1, <1>3
<1> QED BY <1>1, <1>2, <1>8, <1>9, <1>10, <1>11, <1>12 DEF FramesInv

-----------------------------------------------------------------------------
\* The invariant says what parse returns.
LEMMA FramesInvArrive == FramesInv => FramesArrive
<1> SUFFICES ASSUME FramesInv PROVE FramesArrive
  OBVIOUS
<1>2. /\ sent \in Seq(Sendings) /\ parsed \in Seq(Meanings) /\ buf \in Seq(Byte)
      /\ line \in Seq(Byte)
  BY DEF FramesInv
<1>3. PICK n \in Nat, k \in Nat : n = Len(sent) /\ k = Len(parsed)
  BY <1>2
<1>4. PICK done \in 0 .. n, pos \in [Nat -> Int] :
         Lays(buf \o line, sent, done, pos) /\ Returned(parsed, sent, done)
  BY <1>3 DEF FramesInv
<1>5. DOMAIN sent = 1 .. n /\ DOMAIN parsed = 1 .. k
  BY <1>2, <1>3, LenProperties
<1>6. \A i \in 1 .. done : parsed[i] = sent[i].means /\ sent[i].means # InvalidFrameType
  BY <1>4 DEF Returned
<1>7. \/ k = done
      \/ /\ done < n /\ k = done + 1
         /\ parsed[done + 1] = InvalidFrameType /\ sent[done + 1].means = InvalidFrameType
  BY <1>3, <1>4 DEF Returned
<1>8. ASSUME NEW i \in 1 .. k PROVE i \in Readable /\ parsed[i] = sent[i].means
  <2>1. i \in 1 .. n
    BY <1>7
  <2>2. \A j \in 1 .. i - 1 : j \in 1 .. done
    BY <1>7
  <2>3. i \in Readable
    BY <1>5, <1>6, <2>1, <2>2 DEF Readable
  <2>4. i \in 1 .. done \/ (i = done + 1 /\ k = done + 1)
    BY <1>7
  <2> QED BY <1>6, <1>7, <2>3, <2>4
<1>9. ASSUME k + 1 \in Readable, Len(buf) >= sent[k + 1].size
      PROVE  HasHeader(buf) /\ (IsKnown(buf) => HasFrame(buf))
  <2>1. k + 1 \in 1 .. n /\ \A j \in 1 .. k : sent[j].means # InvalidFrameType
    BY <1>5, <1>9 DEF Readable
  <2>2. k = done
    <3>1. SUFFICES ASSUME k = done + 1, sent[done + 1].means = InvalidFrameType PROVE FALSE
      BY <1>7
    <3>2. k \in 1 .. k
      BY <3>1
    <3> QED BY <2>1, <3>1, <3>2
  <2>3. done \in Nat /\ done < n
    BY <2>1, <2>2
  <2>4. PICK bytes : IsFrameOf(bytes, sent[done + 1].means) /\ Len(bytes) = sent[done + 1].size
    <3>1. PICK stream : stream = buf \o line
      OBVIOUS
    <3>2. stream \in Seq(Byte) /\ Lays(stream, sent, done, pos) /\ done < Len(sent)
      BY <1>2, <1>3, <1>4, <2>3, <3>1, BufferBegins
    <3>3. \E bytes : /\ IsFrameOf(bytes, sent[done + 1].means)
                     /\ Len(bytes) = sent[done + 1].size /\ Len(bytes) <= Len(stream)
                     /\ \A j \in 1 .. Len(bytes) : stream[j] = bytes[j]
      BY <1>2, <2>3, <3>2, FirstFrame
    <3> QED BY <3>3
  <2>5. PICK m \in Nat, l \in Nat : m = Len(bytes) /\ l = Len(buf)
    <3>1. Len(bytes) \in Nat
      BY <2>4, FrameMeans
    <3>2. Len(buf) \in Nat
      BY <1>2
    <3> QED BY <3>1, <3>2
  <2>6. m >= 9 /\ l >= m
    BY <1>9, <2>2, <2>4, <2>5, FrameMeans
  <2>7. HasHeader(buf)
    BY <2>5, <2>6 DEF HasHeader, HeaderSize
  <2>8. HasFrame(buf)
    BY <1>2, <1>3, <1>4, <1>9, <2>2, <2>7, HeadOfBuffer
  <2> QED BY <2>7, <2>8
<1> QED BY <1>3, <1>5, <1>8, <1>9 DEF FramesArrive

-----------------------------------------------------------------------------
(* The bytes of a frame. *)

\* The two parts of a sequence.
LEMMA PartsOfConcat ==
  ASSUME NEW X, NEW a \in Seq(X), NEW b \in Seq(X)
  PROVE  /\ SubSeq(a \o b, 1, Len(a)) = a
         /\ SubSeq(a \o b, Len(a) + 1, Len(a) + Len(b)) = b
<1>1. PICK n \in Nat, m \in Nat : n = Len(a) /\ m = Len(b)
  OBVIOUS
<1>2. SubSeq(a, 1, n) = a /\ SubSeq(b, 1, m) = b
  BY <1>1, SubSeqFull
<1>3. PICK c : c = a \o b
  OBVIOUS
<1>4. /\ Len(c) = n + m
      /\ \A i \in 1 .. n + m : c[i] = IF i <= n THEN a[i] ELSE b[i - n]
  BY <1>1, <1>3, ConcatProperties
<1>5. \A i \in 1 .. n : c[i] = a[i] /\ a[i] \in X
  <2>1. \A i \in 1 .. n : a[i] \in X
    BY <1>1, ElementOfSeq
  <2> QED BY <1>4, <2>1
<1>6. SubSeq(c, 1, n) = SubSeq(a, 1, n)
  BY <1>5, SameSubSeq
<1>7. SubSeq(c, n + 1, n + m) = b
  <2>1. CASE m = 0
    <3>1. b = <<>>
      BY <1>1, <2>1, EmptySeq
    <3>2. SubSeq(c, n + 1, n + m) = <<>>
      <4>1. n + m < n + 1
        BY <2>1
      <4> QED BY <4>1, SubSeqEmpty
    <3> QED BY <3>1, <3>2
  <2>2. CASE m > 0
    <3>1. /\ n + 1 \in Len(a) + 1 .. Len(a) + Len(b) /\ n + m \in Len(a) + 1 .. Len(a) + Len(b)
      BY <1>1, <2>2
    <3>2. SubSeq(a \o b, n + 1, n + m) = SubSeq(b, n + 1 - Len(a), n + m - Len(a))
      BY <3>1, SubSeqOfConcat2
    <3>3. n + 1 - Len(a) = 1 /\ n + m - Len(a) = m
      BY <1>1
    <3> QED BY <1>2, <1>3, <3>2, <3>3
  <2> QED BY <2>1, <2>2
<1> QED BY <1>1, <1>2, <1>3, <1>6, <1>7

\* A function on the first n numbers is a sequence.
LEMMA FunctionIsSeq ==
  ASSUME NEW X, NEW n \in Nat, NEW p \in [1 .. n -> X]
  PROVE  p \in Seq(X) /\ Len(p) = n
<1>1. p \in Seq(X)
  OBVIOUS
<1>2. DOMAIN p = 1 .. n /\ DOMAIN p = 1 .. Len(p) /\ Len(p) \in Nat
  BY <1>1, LenProperties
<1> QED BY <1>1, <1>2

\* A u32 is four bytes.
LEMMA NumberSeq ==
  ASSUME NEW u \in Number
  PROVE  u \in Seq(Byte) /\ Len(u) = 4 /\ \A i \in 1 .. 4 : u[i] \in Byte
<1>1. PICK n \in Nat : n = 4
  OBVIOUS
<1>2. u \in [1 .. n -> Byte]
  BY <1>1 DEF Number
<1>3. u \in Seq(Byte) /\ Len(u) = n
  BY <1>2, FunctionIsSeq
<1> QED BY <1>1, <1>2, <1>3

\* The 24 bits of a length.
LEMMA LengthBytes ==
  ASSUME NEW n \in Nat, n < 16777216
  PROVE  /\ (n \div 65536) % 256 \in 0 .. 255
         /\ (n \div 256) % 256 \in 0 .. 255 /\ n % 256 \in 0 .. 255
         /\ 65536 * ((n \div 65536) % 256) + 256 * ((n \div 256) % 256) + (n % 256) = n
<1>1. (n \div 65536) % 256 \in 0 .. 255
  BY SMT
<1>2. (n \div 256) % 256 \in 0 .. 255
  BY SMT
<1>3. n % 256 \in 0 .. 255
  BY SMT
<1>4. 65536 * ((n \div 65536) % 256) + 256 * ((n \div 256) % 256) + (n % 256) = n
  BY SMT
<1> QED BY <1>1, <1>2, <1>3, <1>4, SMT

\* The bytes of a header and a payload, and what parse makes of them.
LEMMA BytesMean ==
  ASSUME NEW type \in Byte, NEW flags \in Byte, NEW stream_id \in Number,
         NEW payload \in Seq(Byte), Len(payload) <= MaxLength,
         NEW b, b = Bytes(type, flags, stream_id, payload)
  PROVE  /\ b \in Seq(Byte) /\ HasHeader(b) /\ Len(b) = HeaderSize + Length(b)
         /\ b[4] = type
         /\ FrameIn(b) = FrameMeant(Types[type + 1], flags, stream_id, payload)
<1>1. PICK n \in Nat : n = Len(payload)
  OBVIOUS
<1>2. PICK x, y, z : x = (n \div 65536) % 256 /\ y = (n \div 256) % 256 /\ z = n % 256
  OBVIOUS
<1>3. x \in Byte /\ y \in Byte /\ z \in Byte /\ 65536 * x + 256 * y + z = n
  <2>1. n < 16777216
    BY <1>1, SMT DEF MaxLength
  <2>2. /\ x \in 0 .. 255 /\ y \in 0 .. 255 /\ z \in 0 .. 255
        /\ 65536 * x + 256 * y + z = n
    BY <1>2, <2>1, LengthBytes, SMT
  <2> QED BY <2>2 DEF Byte
<1>4. PICK a : a = <<x, y, z, type, flags>>
  OBVIOUS
<1>5. /\ a \in Seq(Byte) /\ Len(a) = 5
      /\ a[1] = x /\ a[2] = y /\ a[3] = z /\ a[4] = type /\ a[5] = flags
  BY <1>3, <1>4
<1>6. stream_id \in Seq(Byte) /\ Len(stream_id) = 4
  BY NumberSeq
<1>7. PICK c : c = a \o stream_id
  OBVIOUS
<1>8. /\ c \in Seq(Byte) /\ Len(c) = 9
      /\ c[1] = x /\ c[2] = y /\ c[3] = z /\ c[4] = type /\ c[5] = flags
      /\ SubSeq(c, 6, 9) = stream_id
  <2>1. /\ c \in Seq(Byte) /\ Len(c) = Len(a) + Len(stream_id)
        /\ \A i \in 1 .. Len(a) + Len(stream_id) :
             c[i] = IF i <= Len(a) THEN a[i] ELSE stream_id[i - Len(a)]
    BY <1>5, <1>6, <1>7, ConcatProperties
  <2>2. \A i \in 1 .. 5 : c[i] = a[i]
    BY <1>5, <1>6, <2>1
  <2>3. SubSeq(c, Len(a) + 1, Len(a) + Len(stream_id)) = stream_id
    BY <1>5, <1>6, <1>7, PartsOfConcat
  <2>4. Len(a) + 1 = 6 /\ Len(a) + Len(stream_id) = 9
    BY <1>5, <1>6
  <2> QED BY <1>5, <2>1, <2>2, <2>3, <2>4
<1>9. b = c \o payload
  BY <1>1, <1>2, <1>4, <1>7 DEF Bytes
<1>10. /\ b \in Seq(Byte) /\ Len(b) = 9 + n /\ \A i \in 1 .. 9 : b[i] = c[i]
       /\ SubSeq(b, 10, 9 + n) = payload
  <2>1. /\ b \in Seq(Byte) /\ Len(b) = Len(c) + Len(payload)
        /\ \A i \in 1 .. Len(c) + Len(payload) :
             b[i] = IF i <= Len(c) THEN c[i] ELSE payload[i - Len(c)]
    <3>1. PICK d \in Seq(Byte), e \in Seq(Byte) : d = c /\ e = payload
      BY <1>8
    <3>2. /\ d \o e \in Seq(Byte) /\ Len(d \o e) = Len(d) + Len(e)
          /\ \A i \in 1 .. Len(d) + Len(e) :
               (d \o e)[i] = IF i <= Len(d) THEN d[i] ELSE e[i - Len(d)]
      BY ConcatProperties
    <3> QED BY <1>9, <3>1, <3>2, Zenon
  <2>2. \A i \in 1 .. 9 : b[i] = c[i]
    <3>1. \A i \in 1 .. 9 : i \in 1 .. 9 + n /\ i <= 9
      OBVIOUS
    <3> QED BY <1>1, <1>8, <2>1, <3>1
  <2>3. SubSeq(b, Len(c) + 1, Len(c) + Len(payload)) = payload
    <3>1. c \in Seq(Byte)
      BY <1>8
    <3>2. SubSeq(c \o payload, Len(c) + 1, Len(c) + Len(payload)) = payload
      BY <3>1, PartsOfConcat
    <3> QED BY <1>9, <3>2
  <2>4. Len(c) = 9 /\ Len(payload) = n
    BY <1>1, <1>8
  <2> QED BY <2>1, <2>2, <2>3, <2>4
<1>11. b[1] = x /\ b[2] = y /\ b[3] = z /\ b[4] = type /\ b[5] = flags
  BY <1>8, <1>10
<1>12. Length(b) = n
  BY <1>3, <1>11 DEF Length
<1>13. Word(b, 6) = stream_id
  <2>1. \A i \in 6 .. 9 : b[i] = c[i] /\ c[i] \in Byte
    BY <1>8, <1>10, ElementOfSeq
  <2>2. SubSeq(b, 6, 9) = SubSeq(c, 6, 9)
    BY <2>1, SameSubSeq
  <2>3. 6 + 3 = 9
    OBVIOUS
  <2> QED BY <1>8, <2>2, <2>3 DEF Word
<1>14. SubSeq(b, HeaderSize + 1, HeaderSize + Length(b)) = payload
  BY <1>10, <1>12 DEF HeaderSize
<1>15. FrameIn(b) = FrameMeant(Types[type + 1], flags, stream_id, payload)
  BY <1>11, <1>13, <1>14 DEF FrameIn
<1>16. HasHeader(b) /\ Len(b) = HeaderSize + Length(b)
  BY <1>10, <1>12 DEF HasHeader, HeaderSize
<1> QED BY <1>10, <1>11, <1>15, <1>16

-----------------------------------------------------------------------------
(* What the fields mean. *)

\* The ten types, by their bytes (frame.rs lines 34-64).
LEMMA TypesAre ==
  /\ Len(Types) = 10 /\ DOMAIN Types = 1 .. 10
  /\ \A i \in 1 .. 10 :
       Types[i] \in {"DATA", "HEADERS", "PRIORITY", "RST_STREAM", "SETTINGS",
                     "PUSH_PROMISE", "PING", "GOAWAY", "WINDOW_UPDATE", "CONTINUATION"}
BY DEF Types

\* What a payload means is never the error of an unknown type.
LEMMA MeantIsKnown ==
  ASSUME NEW i \in 1 .. 10, NEW flags, NEW stream_id, NEW p
  PROVE  FrameMeant(Types[i], flags, stream_id, p) # InvalidFrameType
<1>1. PICK type : type = Types[i]
  OBVIOUS
<1>2. type \in {"DATA", "HEADERS", "PRIORITY", "RST_STREAM", "SETTINGS",
                "PUSH_PROMISE", "PING", "GOAWAY", "WINDOW_UPDATE", "CONTINUATION"}
  BY <1>1, TypesAre
<1>3. FrameTooShort # InvalidFrameType
  <2>1. FrameTooShort.error = "FrameTooShort" /\ InvalidFrameType.error = "InvalidFrameType"
    BY DEF FrameTooShort, InvalidFrameType
  <2> QED BY <2>1
<1>4. FrameOf(type, flags, Masked(stream_id), p) # InvalidFrameType
  <2>1. PICK id, known : id = Masked(stream_id) /\ known = FlagsIn(flags, Known(type))
    OBVIOUS
  <2>2. "type" \in DOMAIN FrameOf(type, flags, id, p)
    BY <1>2, <2>1 DEF FrameOf
  <2>3. "type" \notin DOMAIN InvalidFrameType
    BY DEF InvalidFrameType
  <2> QED BY <2>1, <2>2, <2>3
<1> QED BY <1>1, <1>3, <1>4 DEF FrameMeant

\* Bytes that serialize does not write.
LEMMA RawIsFrame ==
  ASSUME NEW f \in RawSent
  PROVE  IsFrameOf(Bytes(f.type, f.flags, f.stream_id, f.payload), f.means)
<1>1. /\ f.type \in Byte /\ f.flags \in Byte /\ f.stream_id \in Number
      /\ f.payload \in Seq(Byte) /\ Len(f.payload) <= MaxLength
      /\ f.means = IF f.type >= Len(Types) THEN InvalidFrameType
                   ELSE FrameMeant(Types[f.type + 1], f.flags, f.stream_id, f.payload)
  BY FramesAssumption
<1>2. PICK b : b = Bytes(f.type, f.flags, f.stream_id, f.payload)
  OBVIOUS
<1>3. /\ b \in Seq(Byte) /\ HasHeader(b) /\ Len(b) = HeaderSize + Length(b)
      /\ b[4] = f.type
      /\ FrameIn(b) = FrameMeant(Types[f.type + 1], f.flags, f.stream_id, f.payload)
  BY <1>1, <1>2, BytesMean
<1>4. PICK t \in 0 .. 255 : t = f.type
  BY <1>1 DEF Byte
<1>5. IsKnown(b) <=> t < 10
  BY <1>3, <1>4, TypesAre DEF IsKnown
<1>6. CASE t < 10
  <2>1. f.means = FrameIn(b)
    BY <1>1, <1>3, <1>4, <1>6, TypesAre
  <2>2. t + 1 \in 1 .. 10
    BY <1>6
  <2>3. f.means # InvalidFrameType
    BY <1>3, <1>4, <2>1, <2>2, MeantIsKnown
  <2> QED BY <1>2, <1>3, <1>5, <1>6, <2>1, <2>3 DEF IsFrameOf
<1>7. CASE ~(t < 10)
  <2>1. f.means = InvalidFrameType
    BY <1>1, <1>4, <1>7, TypesAre
  <2> QED BY <1>2, <1>3, <1>5, <1>7, <2>1 DEF IsFrameOf
<1> QED BY <1>6, <1>7

-----------------------------------------------------------------------------
(* Every frame means itself. *)

\* The flags of a type are read as they were written (frame.rs lines 69-73).
LEMMA FlagsArrive ==
  ASSUME NEW type, NEW flags \in SUBSET Known(type)
  PROVE  FlagByte(flags) \in Byte /\ FlagsIn(FlagByte(flags), Known(type)) = flags
<1>1. PICK known : known = Known(type)
  OBVIOUS
<1>2. PICK byte : byte = FlagByte(flags)
  OBVIOUS
<1>3. FlagBits["END_STREAM"] = 1 /\ FlagBits["ACK"] = 1 /\ FlagBits["END_HEADERS"] = 4
  BY DEF FlagBits
<1>4. byte = (IF "END_STREAM" \in flags \/ "ACK" \in flags THEN 1 ELSE 0)
               + (IF "END_HEADERS" \in flags THEN 4 ELSE 0)
  <2>1. ({"END_STREAM", "ACK"} \cap flags # {}) <=> ("END_STREAM" \in flags \/ "ACK" \in flags)
    OBVIOUS
  <2> QED BY <1>2, <2>1 DEF FlagByte
<1>5. byte \in {0, 1, 4, 5}
  BY <1>4
<1>6. /\ (byte \div 1) % 2 = 1 <=> byte \in {1, 5}
      /\ (byte \div 4) % 2 = 1 <=> byte \in {4, 5}
  BY <1>5
<1>7. \/ known = {} \/ known = {"END_STREAM"} \/ known = {"ACK"} \/ known = {"END_HEADERS"}
      \/ known = {"END_STREAM", "END_HEADERS"}
  BY <1>1 DEF Known
<1>8. \A f \in known : (byte \div FlagBits[f]) % 2 = 1 <=> f \in flags
  <2>1. SUFFICES ASSUME NEW f \in known PROVE (byte \div FlagBits[f]) % 2 = 1 <=> f \in flags
    OBVIOUS
  <2>2. CASE f = "END_STREAM"
    <3>1. byte \in {1, 5} <=> "END_STREAM" \in flags
      <4>1. "ACK" \notin flags
        BY <1>1, <1>7, <2>2
      <4> QED BY <1>4, <4>1
    <3> QED BY <1>3, <1>6, <2>2, <3>1
  <2>3. CASE f = "ACK"
    <3>1. byte \in {1, 5} <=> "ACK" \in flags
      <4>1. "END_STREAM" \notin flags
        BY <1>1, <1>7, <2>3
      <4> QED BY <1>4, <4>1
    <3> QED BY <1>3, <1>6, <2>3, <3>1
  <2>4. CASE f = "END_HEADERS"
    <3>1. byte \in {4, 5} <=> "END_HEADERS" \in flags
      BY <1>4
    <3> QED BY <1>3, <1>6, <2>4, <3>1
  <2> QED BY <1>7, <2>2, <2>3, <2>4
<1>9. FlagsIn(byte, known) = flags
  BY <1>1, <1>8 DEF FlagsIn
<1>10. byte \in Byte
  BY <1>5 DEF Byte
<1> QED BY <1>1, <1>2, <1>9, <1>10

\* A type has its byte.
LEMMA TypeBytes ==
  ASSUME NEW i \in 1 .. 10
  PROVE  TypeByte(Types[i]) \in 0 .. 9 /\ Types[TypeByte(Types[i]) + 1] = Types[i]
<1>1. PICK type : type = Types[i]
  OBVIOUS
<1>2. PICK k : k = CHOOSE j \in DOMAIN Types : Types[j] = type
  OBVIOUS
<1>3. k \in DOMAIN Types /\ Types[k] = type
  BY <1>1, <1>2, TypesAre
<1>4. k \in 1 .. 10
  BY <1>3, TypesAre
<1>5. TypeByte(type) = k - 1
  BY <1>2 DEF TypeByte
<1>6. k - 1 \in 0 .. 9 /\ (k - 1) + 1 = k
  BY <1>4
<1> QED BY <1>1, <1>3, <1>5, <1>6

\* 31 bits of a number with 31 bits.
LEMMA MaskedIs ==
  ASSUME NEW u \in Number31 PROVE Masked(u) = u /\ u \in Number
<1>1. u \in Number /\ ~(u[1] >= 128)
  BY DEF Number31, TopBit
<1>2. u[1] \in 0 .. 255
  BY <1>1 DEF Number, Byte
<1>3. PICK k \in 0 .. 255 : k = u[1]
  BY <1>2
<1>4. k % 128 = k
  BY <1>1, <1>3
<1>5. u \in [1 .. 4 -> Byte]
  BY <1>1 DEF Number
<1>6. Masked(u) = [u EXCEPT ![1] = u[1]]
  BY <1>3, <1>4 DEF Masked
<1>7. [u EXCEPT ![1] = u[1]] = u
  BY <1>5
<1> QED BY <1>1, <1>6, <1>7

\* A number at the beginning of a payload, and what comes after it.
LEMMA NumberFirst ==
  ASSUME NEW u \in Number, NEW data \in Seq(Byte), NEW p, p = u \o data
  PROVE  /\ p \in Seq(Byte) /\ Len(p) = 4 + Len(data)
         /\ Word(p, 1) = u /\ From(p, 5) = data /\ p[1] = u[1]
<1>1. u \in Seq(Byte) /\ Len(u) = 4
  BY NumberSeq
<1>2. p \in Seq(Byte) /\ Len(p) = 4 + Len(data)
  <2>1. p \in Seq(Byte) /\ Len(p) = Len(u) + Len(data)
    BY <1>1, ConcatProperties
  <2> QED BY <1>1, <2>1
<1>3. SubSeq(p, 1, Len(u)) = u /\ SubSeq(p, Len(u) + 1, Len(u) + Len(data)) = data
  BY <1>1, PartsOfConcat
<1>4. Len(u) + 1 = 5 /\ Len(u) + Len(data) = 4 + Len(data) /\ 1 + 3 = 4
  BY <1>1
<1>5. Word(p, 1) = u
  BY <1>1, <1>3, <1>4 DEF Word
<1>6. From(p, 5) = data
  BY <1>2, <1>3, <1>4 DEF From
<1>7. p[1] = u[1]
  <2>1. PICK m \in Nat : m = Len(data)
    OBVIOUS
  <2>2. 1 \in 1 .. Len(u) + Len(data) /\ 1 <= Len(u)
    BY <1>1, <2>1
  <2> QED BY <1>1, <2>2, ConcatProperties
<1> QED BY <1>2, <1>5, <1>6, <1>7

\* A number that is all of a payload.
LEMMA NumberAlone ==
  ASSUME NEW u \in Number PROVE u \in Seq(Byte) /\ Len(u) = 4 /\ Word(u, 1) = u
<1>1. u \in Seq(Byte) /\ Len(u) = 4
  BY NumberSeq
<1>2. SubSeq(u, 1, Len(u)) = u
  BY <1>1, SubSeqFull
<1>3. 1 + 3 = 4
  OBVIOUS
<1> QED BY <1>1, <1>2, <1>3 DEF Word

-----------------------------------------------------------------------------
\* What a frame of each type is, and what its payload means.
Arrives(f, type) ==
    /\ f.type = type /\ f.flags \in SUBSET Known(type)
    /\ type \notin {"SETTINGS", "PING", "GOAWAY"} => f.stream_id \in Number31
    /\ Payload(f) \in Seq(Byte) /\ Len(Payload(f)) >= Least(type)
    /\ \A byte, id : FlagsIn(byte, Known(type)) = f.flags
                       /\ (type \notin {"SETTINGS", "PING", "GOAWAY"} => id = f.stream_id)
                     => FrameOf(type, byte, id, Payload(f)) = f

\* DATA, HEADERS and CONTINUATION.
LEMMA DataArrives ==
  ASSUME NEW type \in {"DATA", "HEADERS", "CONTINUATION"},
         NEW f \in [type : {type}, flags : SUBSET Known(type), stream_id : Number31,
                    data : Seq(Byte)]
  PROVE  Arrives(f, type)
<1>1. /\ f.type = type /\ f.flags \in SUBSET Known(type) /\ f.stream_id \in Number31
      /\ f.data \in Seq(Byte)
      /\ f = [type |-> f.type, flags |-> f.flags, stream_id |-> f.stream_id, data |-> f.data]
  OBVIOUS
<1>2. Payload(f) = f.data
  BY <1>1 DEF Payload
<1>3. PICK n \in Nat : n = Len(f.data)
  BY <1>1
<1>4. Least(type) = 0
  BY DEF Least
<1>5. ASSUME NEW byte, NEW id, FlagsIn(byte, Known(type)) = f.flags, id = f.stream_id
      PROVE  FrameOf(type, byte, id, Payload(f)) = f
  <2>1. FrameOf(type, byte, id, Payload(f))
          = [type |-> type, flags |-> f.flags, stream_id |-> f.stream_id, data |-> f.data]
    BY <1>2, <1>5 DEF FrameOf
  <2> QED BY <1>1, <2>1
<1> QED BY <1>1, <1>2, <1>3, <1>4, <1>5 DEF Arrives

\* WINDOW_UPDATE.
LEMMA WindowUpdateArrives ==
  ASSUME NEW f \in [type : {"WINDOW_UPDATE"}, flags : {{}}, stream_id : Number31,
                    increment : Number31]
  PROVE  Arrives(f, "WINDOW_UPDATE")
<1>1. /\ f.type = "WINDOW_UPDATE" /\ f.flags = {} /\ f.stream_id \in Number31
      /\ f.increment \in Number31
      /\ f = [type |-> f.type, flags |-> f.flags, stream_id |-> f.stream_id,
              increment |-> f.increment]
  OBVIOUS
<1>2. Payload(f) = Masked(f.increment)
  BY <1>1 DEF Payload
<1>3. Payload(f) = f.increment /\ f.increment \in Number /\ Masked(f.increment) = f.increment
  BY <1>1, <1>2, MaskedIs
<1>4. /\ Payload(f) \in Seq(Byte) /\ Len(Payload(f)) = 4
      /\ Word(Payload(f), 1) = f.increment
  BY <1>3, NumberAlone
<1>5. PICK type : type = "WINDOW_UPDATE"
  OBVIOUS
<1>6. Least(type) = 4
  BY <1>5 DEF Least
<1>7. ASSUME NEW byte, NEW id, FlagsIn(byte, Known(type)) = f.flags, id = f.stream_id
      PROVE  FrameOf(type, byte, id, Payload(f)) = f
  <2>1. FrameOf(type, byte, id, Payload(f))
          = [type |-> type, flags |-> FlagsIn(byte, Known(type)), stream_id |-> id,
             increment |-> Masked(Word(Payload(f), 1))]
    BY <1>5 DEF FrameOf
  <2> QED BY <1>1, <1>3, <1>4, <1>5, <1>7, <2>1
<1>8. f.flags \in SUBSET Known(type)
  BY <1>1
<1> QED BY <1>1, <1>4, <1>5, <1>6, <1>7, <1>8 DEF Arrives

\* PING.
LEMMA PingArrives ==
  ASSUME NEW f \in [type : {"PING"}, flags : SUBSET {"ACK"}, data : [1 .. 8 -> Byte]]
  PROVE  Arrives(f, "PING")
<1>1. /\ f.type = "PING" /\ f.flags \in SUBSET {"ACK"} /\ f.data \in [1 .. 8 -> Byte]
      /\ f = [type |-> f.type, flags |-> f.flags, data |-> f.data]
  OBVIOUS
<1>2. PICK p : p = f.data
  OBVIOUS
<1>3. Payload(f) = p
  BY <1>1, <1>2 DEF Payload
<1>4. p \in Seq(Byte) /\ Len(p) = 8
  <2>1. PICK n \in Nat : n = 8
    OBVIOUS
  <2>2. p \in [1 .. n -> Byte]
    BY <1>1, <1>2, <2>1
  <2>3. p \in Seq(Byte) /\ Len(p) = n
    BY <2>2, FunctionIsSeq
  <2> QED BY <2>1, <2>3
<1>5. SubSeq(p, 1, 8) = p
  BY <1>4, SubSeqFull
<1>6. PICK type : type = "PING"
  OBVIOUS
<1>7. Least(type) = 8 /\ Known(type) = {"ACK"}
  BY <1>6 DEF Least, Known
<1>8. ASSUME NEW byte, NEW id, FlagsIn(byte, Known(type)) = f.flags
      PROVE  FrameOf(type, byte, id, p) = f
  <2>1. FrameOf(type, byte, id, p)
          = [type |-> type, flags |-> FlagsIn(byte, Known(type)), data |-> SubSeq(p, 1, 8)]
    BY <1>6 DEF FrameOf
  <2> QED BY <1>1, <1>2, <1>5, <1>6, <1>8, <2>1
<1> QED BY <1>1, <1>3, <1>4, <1>6, <1>7, <1>8 DEF Arrives

\* GOAWAY.
LEMMA GoAwayArrives ==
  ASSUME NEW f \in [type : {"GOAWAY"}, flags : {{}}, last_stream_id : Number31,
                    error_code : Number, data : Seq(Byte)]
  PROVE  Arrives(f, "GOAWAY")
<1>1. /\ f.type = "GOAWAY" /\ f.flags = {} /\ f.last_stream_id \in Number31
      /\ f.error_code \in Number /\ f.data \in Seq(Byte)
      /\ f = [type |-> f.type, flags |-> f.flags, last_stream_id |-> f.last_stream_id,
              error_code |-> f.error_code, data |-> f.data]
  OBVIOUS
<1>2. PICK last, code, data, p : /\ last = f.last_stream_id /\ code = f.error_code
                                 /\ data = f.data /\ p = Payload(f)
  OBVIOUS
<1>3. last \in Number /\ Masked(last) = last
  BY <1>1, <1>2, MaskedIs
<1>4. last \in Seq(Byte) /\ code \in Seq(Byte) /\ Len(last) = 4 /\ Len(code) = 4
      /\ data \in Seq(Byte)
  BY <1>1, <1>2, <1>3, NumberSeq
<1>5. p = (last \o code) \o data
  BY <1>1, <1>2, <1>3 DEF Payload
<1>6. PICK rest, front : rest = code \o data /\ front = last \o code
  OBVIOUS
<1>7. p = last \o rest
  BY <1>4, <1>5, <1>6, ConcatAssociative
<1>8. /\ rest \in Seq(Byte) /\ Len(rest) = 4 + Len(data)
      /\ SubSeq(rest, 1, Len(code)) = code
  <2>1. rest \in Seq(Byte) /\ Len(rest) = 4 + Len(data)
    BY <1>1, <1>2, <1>4, <1>6, NumberFirst
  <2>2. SubSeq(rest, 1, Len(code)) = code
    BY <1>4, <1>6, PartsOfConcat
  <2> QED BY <2>1, <2>2
<1>9. /\ p \in Seq(Byte) /\ Len(p) = 4 + Len(rest) /\ Word(p, 1) = last
      /\ From(p, 5) = rest
  <2>1. PICK u, data2 : u = last /\ data2 = rest /\ u \in Number /\ data2 \in Seq(Byte)
    BY <1>3, <1>8
  <2>2. p = u \o data2
    BY <1>7, <2>1
  <2>3. /\ p \in Seq(Byte) /\ Len(p) = 4 + Len(data2) /\ Word(p, 1) = u
        /\ From(p, 5) = data2
    BY <2>1, <2>2, NumberFirst
  <2> QED BY <2>1, <2>3
<1>10. front \in Seq(Byte) /\ Len(front) = 8
  <2>1. front \in Seq(Byte) /\ Len(front) = Len(last) + Len(code)
    <3>1. PICK a, b : a = last /\ b = code /\ a \in Seq(Byte) /\ b \in Seq(Byte)
      BY <1>4
    <3>2. a \o b \in Seq(Byte) /\ Len(a \o b) = Len(a) + Len(b)
      BY <3>1, ConcatProperties
    <3> QED BY <1>6, <3>1, <3>2
  <2> QED BY <1>4, <2>1
<1>11. From(p, 9) = data
  <2>1. SubSeq(p, Len(front) + 1, Len(front) + Len(data)) = data
    BY <1>4, <1>5, <1>6, <1>10, PartsOfConcat
  <2>2. Len(front) + 1 = 9 /\ Len(front) + Len(data) = Len(p)
    BY <1>4, <1>8, <1>9, <1>10
  <2> QED BY <2>1, <2>2 DEF From
<1>12. Word(p, 5) = code
  <2>1. SubSeq(front, Len(last) + 1, Len(last) + Len(code)) = code
    BY <1>4, <1>6, PartsOfConcat
  <2>2. Len(last) + 1 = 5 /\ Len(last) + Len(code) = 8 /\ 5 + 3 = 8
    BY <1>4
  <2>3. SubSeq(p, 5, 8) = SubSeq(front, 5, 8)
    <3>1. 5 \in 1 .. Len(front) /\ 8 \in 1 .. Len(front)
      BY <1>10
    <3>2. p = front \o data
      BY <1>5, <1>6
    <3>3. SubSeq(front \o data, 5, 8) = SubSeq(front, 5, 8)
      <4>1. PICK a, b : a = front /\ b = data /\ a \in Seq(Byte) /\ b \in Seq(Byte)
        BY <1>4, <1>10
      <4>2. 5 \in 1 .. Len(a) /\ 8 \in 1 .. Len(a)
        BY <3>1, <4>1
      <4>3. SubSeq(a \o b, 5, 8) = SubSeq(a, 5, 8)
        BY <4>1, <4>2, SubSeqOfConcat1
      <4> QED BY <4>1, <4>3
    <3> QED BY <3>2, <3>3
  <2> QED BY <2>1, <2>2, <2>3 DEF Word
<1>13. PICK type : type = "GOAWAY"
  OBVIOUS
<1>14. Least(type) = 8 /\ Len(p) >= 8
  <2>1. Least(type) = 8
    BY <1>13 DEF Least
  <2>2. PICK n \in Nat : n = Len(data)
    BY <1>4
  <2> QED BY <1>8, <1>9, <2>1, <2>2
<1>15. ASSUME NEW byte, NEW id, FlagsIn(byte, Known(type)) = f.flags
       PROVE  FrameOf(type, byte, id, p) = f
  <2>1. FrameOf(type, byte, id, p)
          = [type |-> type, flags |-> FlagsIn(byte, Known(type)),
             last_stream_id |-> Masked(Word(p, 1)),
             error_code |-> Word(p, 5), data |-> From(p, 9)]
    BY <1>13 DEF FrameOf
  <2> QED BY <1>1, <1>2, <1>3, <1>9, <1>11, <1>12, <1>13, <1>15, <2>1
<1> QED BY <1>1, <1>2, <1>9, <1>13, <1>14, <1>15 DEF Arrives

-----------------------------------------------------------------------------
\* RST_STREAM.
LEMMA RstStreamArrives ==
  ASSUME NEW f \in [type : {"RST_STREAM"}, flags : {{}}, stream_id : Number31,
                    error_code : Number]
  PROVE  Arrives(f, "RST_STREAM")
<1>1. /\ f.type = "RST_STREAM" /\ f.flags = {} /\ f.stream_id \in Number31
      /\ f.error_code \in Number
      /\ f = [type |-> f.type, flags |-> f.flags, stream_id |-> f.stream_id,
              error_code |-> f.error_code]
  OBVIOUS
<1>2. Payload(f) = f.error_code
  BY <1>1 DEF Payload
<1>3. /\ Payload(f) \in Seq(Byte) /\ Len(Payload(f)) = 4
      /\ Word(Payload(f), 1) = f.error_code
  BY <1>1, <1>2, NumberAlone
<1>4. PICK type : type = "RST_STREAM"
  OBVIOUS
<1>5. Least(type) = 4
  BY <1>4 DEF Least
<1>6. ASSUME NEW byte, NEW id, FlagsIn(byte, Known(type)) = f.flags, id = f.stream_id
      PROVE  FrameOf(type, byte, id, Payload(f)) = f
  <2>1. FrameOf(type, byte, id, Payload(f))
          = [type |-> type, flags |-> FlagsIn(byte, Known(type)), stream_id |-> id,
             error_code |-> Word(Payload(f), 1)]
    BY <1>4 DEF FrameOf
  <2> QED BY <1>1, <1>3, <1>4, <1>6, <2>1
<1>7. f.flags \in SUBSET Known(type)
  BY <1>1
<1> QED BY <1>1, <1>3, <1>4, <1>5, <1>6, <1>7 DEF Arrives

\* PRIORITY: the top bit of the dependency says that it is exclusive.
LEMMA PriorityArrives ==
  ASSUME NEW f \in [type : {"PRIORITY"}, flags : {{}}, stream_id : Number31,
                    exclusive : BOOLEAN, dependency : Number31, weight : Byte]
  PROVE  Arrives(f, "PRIORITY")
<1>1. /\ f.type = "PRIORITY" /\ f.flags = {} /\ f.stream_id \in Number31
      /\ f.exclusive \in BOOLEAN /\ f.dependency \in Number31 /\ f.weight \in Byte
      /\ f = [type |-> f.type, flags |-> f.flags, stream_id |-> f.stream_id,
              exclusive |-> f.exclusive, dependency |-> f.dependency, weight |-> f.weight]
  OBVIOUS
<1>2. PICK d, u, p, w : /\ d = f.dependency /\ p = Payload(f) /\ w = <<f.weight>>
                        /\ u = IF f.exclusive THEN [d EXCEPT ![1] = (d[1] % 128) + 128] ELSE d
  OBVIOUS
<1>3. p = u \o w
  BY <1>1, <1>2 DEF Payload
<1>4. d \in [1 .. 4 -> 0 .. 255] /\ d[1] \in 0 .. 127
  BY <1>1, <1>2 DEF Number31, Number, Byte, TopBit
<1>5. PICK k \in 0 .. 127 : k = d[1]
  BY <1>4
<1>6. /\ u \in [1 .. 4 -> 0 .. 255]
      /\ u[1] = IF f.exclusive THEN k + 128 ELSE k
      /\ \A i \in 2 .. 4 : u[i] = d[i]
  <2>1. k % 128 = k
    OBVIOUS
  <2>2. CASE f.exclusive
    <3>1. u = [d EXCEPT ![1] = k + 128] /\ k + 128 \in 0 .. 255
      BY <1>2, <1>5, <2>1, <2>2
    <3> QED BY <1>4, <2>2, <3>1
  <2>3. CASE ~f.exclusive
    <3>1. u = d
      BY <1>2, <2>3
    <3> QED BY <1>4, <1>5, <2>3, <3>1
  <2> QED BY <2>2, <2>3
<1>7. TopBit(u) <=> f.exclusive
  BY <1>6 DEF TopBit
<1>8. Masked(u) = d
  <2>1. u[1] % 128 = k
    <3>1. k % 128 = k /\ (k + 128) % 128 = k
      OBVIOUS
    <3> QED BY <1>6, <3>1
  <2>2. Masked(u) = [u EXCEPT ![1] = k]
    BY <2>1 DEF Masked
  <2>3. Masked(u) = [i \in 1 .. 4 |-> IF i = 1 THEN k ELSE u[i]]
    BY <1>6, <2>2
  <2>4. d = [i \in 1 .. 4 |-> d[i]]
    BY <1>4
  <2>5. \A i \in 1 .. 4 : (IF i = 1 THEN k ELSE u[i]) = d[i]
    BY <1>5, <1>6
  <2> QED BY <2>3, <2>4, <2>5
<1>9. u \in Number
  BY <1>6 DEF Number, Byte
<1>10. w \in Seq(Byte) /\ Len(w) = 1 /\ w[1] = f.weight
  BY <1>1, <1>2
<1>11. p \in Seq(Byte) /\ Len(p) = 5 /\ Word(p, 1) = u
  <2>1. p \in Seq(Byte) /\ Len(p) = 4 + Len(w) /\ Word(p, 1) = u
    BY <1>3, <1>9, <1>10, NumberFirst
  <2> QED BY <1>10, <2>1
<1>12. p[5] = f.weight
  <2>1. u \in Seq(Byte) /\ Len(u) = 4
    BY <1>9, NumberSeq
  <2>2. \A i \in 1 .. Len(u) + Len(w) : p[i] = IF i <= Len(u) THEN u[i] ELSE w[i - Len(u)]
    <3>1. PICK a \in Seq(Byte), c \in Seq(Byte) : a = u /\ c = w
      BY <1>10, <2>1
    <3>2. \A i \in 1 .. Len(a) + Len(c) :
            (a \o c)[i] = IF i <= Len(a) THEN a[i] ELSE c[i - Len(a)]
      BY ConcatProperties
    <3> QED BY <1>3, <3>1, <3>2, Zenon
  <2>3. 5 \in 1 .. Len(u) + Len(w) /\ ~(5 <= Len(u)) /\ 5 - Len(u) = 1
    BY <1>10, <2>1
  <2>4. p[5] = w[5 - Len(u)]
    BY <2>2, <2>3
  <2> QED BY <1>10, <2>3, <2>4
<1>13. PICK type : type = "PRIORITY"
  OBVIOUS
<1>14. Least(type) = 5
  BY <1>13 DEF Least
<1>15. ASSUME NEW byte, NEW id, FlagsIn(byte, Known(type)) = f.flags, id = f.stream_id
       PROVE  FrameOf(type, byte, id, p) = f
  <2>1. FrameOf(type, byte, id, p)
          = [type |-> type, flags |-> FlagsIn(byte, Known(type)), stream_id |-> id,
             exclusive |-> TopBit(Word(p, 1)), dependency |-> Masked(Word(p, 1)),
             weight |-> p[5]]
    BY <1>13 DEF FrameOf
  <2>2. TopBit(Word(p, 1)) = f.exclusive
    <3>1. TopBit(u) \in BOOLEAN
      BY DEF TopBit
    <3> QED BY <1>1, <1>7, <1>11, <3>1
  <2>3. FlagsIn(byte, Known(type)) = f.flags /\ id = f.stream_id
    BY <1>15
  <2>4. Masked(Word(p, 1)) = f.dependency
    BY <1>2, <1>8, <1>11
  <2>5. type = f.type
    BY <1>1, <1>13
  <2>6. FrameOf(type, byte, id, p)
          = [type |-> f.type, flags |-> f.flags, stream_id |-> f.stream_id,
             exclusive |-> f.exclusive, dependency |-> f.dependency, weight |-> f.weight]
    BY <1>12, <2>1, <2>2, <2>3, <2>4, <2>5, Zenon
  <2> QED BY <1>1, <2>6, Zenon
<1>16. f.flags \in SUBSET Known(type)
  BY <1>1
<1> QED BY <1>1, <1>2, <1>11, <1>13, <1>14, <1>15, <1>16 DEF Arrives

\* PUSH_PROMISE.
LEMMA PushPromiseArrives ==
  ASSUME NEW f \in [type : {"PUSH_PROMISE"}, flags : {{}}, stream_id : Number31,
                    promised_stream_id : Number31, data : Seq(Byte)]
  PROVE  Arrives(f, "PUSH_PROMISE")
<1>1. /\ f.type = "PUSH_PROMISE" /\ f.flags = {} /\ f.stream_id \in Number31
      /\ f.promised_stream_id \in Number31 /\ f.data \in Seq(Byte)
      /\ f = [type |-> f.type, flags |-> f.flags, stream_id |-> f.stream_id,
              promised_stream_id |-> f.promised_stream_id, data |-> f.data]
  OBVIOUS
<1>2. PICK p, u, data : p = Payload(f) /\ u = f.promised_stream_id /\ data = f.data
  OBVIOUS
<1>3. Masked(u) = u /\ u \in Number
  BY <1>1, <1>2, MaskedIs
<1>4. p = u \o data /\ data \in Seq(Byte)
  BY <1>1, <1>2, <1>3 DEF Payload
<1>5. p \in Seq(Byte) /\ Len(p) = 4 + Len(data) /\ Word(p, 1) = u /\ From(p, 5) = data
  BY <1>3, <1>4, NumberFirst
<1>6. PICK type : type = "PUSH_PROMISE"
  OBVIOUS
<1>7. Least(type) = 4 /\ Len(p) >= 4
  <2>1. Least(type) = 4
    BY <1>6 DEF Least
  <2>2. PICK n \in Nat : n = Len(data)
    BY <1>4
  <2> QED BY <1>5, <2>1, <2>2
<1>8. ASSUME NEW byte, NEW id, FlagsIn(byte, Known(type)) = f.flags, id = f.stream_id
      PROVE  FrameOf(type, byte, id, p) = f
  <2>1. FrameOf(type, byte, id, p)
          = [type |-> type, flags |-> FlagsIn(byte, Known(type)), stream_id |-> id,
             promised_stream_id |-> Masked(Word(p, 1)), data |-> From(p, 5)]
    BY <1>6 DEF FrameOf
  <2> QED BY <1>1, <1>2, <1>3, <1>5, <1>6, <1>8, <2>1
<1>9. f.flags \in SUBSET Known(type)
  BY <1>1
<1> QED BY <1>1, <1>2, <1>5, <1>6, <1>7, <1>8, <1>9 DEF Arrives

\* Which setting a byte belongs to.
LEMMA SixBytesBack ==
  ASSUME NEW n \in Nat, NEW k \in 1 .. 6 * n
  PROVE  1 + (k - 1) \div 6 \in 1 .. n /\ 1 + ((k - 1) % 6) \in 1 .. 6
<1>1. PICK q \in Int, r \in 0 .. 5 :
        k - 1 = 6 * q + r /\ q = (k - 1) \div 6 /\ r = (k - 1) % 6
  OBVIOUS
<1>2. q >= 0 /\ q < n
  BY <1>1
<1> QED BY <1>1, <1>2

\* SETTINGS.
LEMMA SettingsArrives ==
  ASSUME NEW f \in [type : {"SETTINGS"}, flags : SUBSET {"ACK"},
                    settings : Seq([1 .. 6 -> Byte])]
  PROVE  Arrives(f, "SETTINGS")
<1>1. /\ f.type = "SETTINGS" /\ f.flags \in SUBSET {"ACK"}
      /\ f.settings \in Seq([1 .. 6 -> Byte])
      /\ f = [type |-> f.type, flags |-> f.flags, settings |-> f.settings]
  OBVIOUS
<1>2. PICK s, p : s = f.settings /\ p = Payload(f)
  OBVIOUS
<1>3. PICK n \in Nat : n = Len(s)
  BY <1>1, <1>2
<1>4. \A i \in 1 .. n : s[i] \in [1 .. 6 -> Byte]
  BY <1>1, <1>2, <1>3, ElementOfSeq
<1>5. p = [k \in 1 .. 6 * n |-> s[1 + (k - 1) \div 6][1 + ((k - 1) % 6)]]
  BY <1>1, <1>2, <1>3 DEF Payload
<1>6. \A k \in 1 .. 6 * n : p[k] = s[1 + (k - 1) \div 6][1 + ((k - 1) % 6)]
  BY <1>5
<1>7. p \in [1 .. 6 * n -> Byte]
  <2>1. ASSUME NEW k \in 1 .. 6 * n PROVE p[k] \in Byte
    <3>1. PICK i \in 1 .. n, j \in 1 .. 6 : i = 1 + (k - 1) \div 6 /\ j = 1 + ((k - 1) % 6)
      BY SixBytesBack
    <3>2. s[i][j] \in Byte
      BY <1>4
    <3>3. p[k] = s[i][j]
      BY <1>6, <3>1
    <3> QED BY <3>2, <3>3
  <2> QED BY <1>5, <2>1
<1>8. p \in Seq(Byte) /\ Len(p) = 6 * n
  <2>1. 6 * n \in Nat
    OBVIOUS
  <2> QED BY <1>7, <2>1, FunctionIsSeq
<1>9. ASSUME NEW i \in 1 .. n PROVE SubSeq(p, 6 * i - 5, 6 * i) = s[i]
  <2>1. PICK a \in Int, b \in Int : a = 6 * i - 5 /\ b = 6 * i
    OBVIOUS
  <2>2. a >= 1 /\ b <= 6 * n /\ b - a + 1 = 6 /\ a <= b
    BY <2>1
  <2>3. \A k \in a .. b : p[k] \in Byte
    <3>1. \A k \in a .. b : k \in 1 .. 6 * n
      BY <2>2
    <3> QED BY <1>7, <3>1
  <2>4. PICK t : t = SubSeq(p, a, b)
    OBVIOUS
  <2>5. /\ t \in Seq(Byte) /\ Len(t) = b - a + 1
        /\ \A j \in 1 .. b - a + 1 : t[j] = p[a + j - 1]
    BY <2>2, <2>3, <2>4, SubSeqProperties
  <2>6. s[i] \in Seq(Byte) /\ Len(s[i]) = 6
    <3>1. PICK m \in Nat : m = 6
      OBVIOUS
    <3>2. PICK x : x = s[i]
      OBVIOUS
    <3>3. x \in [1 .. m -> Byte]
      BY <1>4, <3>1, <3>2
    <3>4. x \in Seq(Byte) /\ Len(x) = m
      BY <3>3, FunctionIsSeq
    <3> QED BY <3>1, <3>2, <3>4
  <2>7. ASSUME NEW j \in 1 .. 6 PROVE t[j] = s[i][j]
    <3>1. PICK k \in Int : k = 6 * i - 5 + j - 1
      OBVIOUS
    <3>2. k = a + j - 1 /\ k \in 1 .. 6 * n
      BY <2>1, <2>2, <3>1
    <3>3. t[j] = p[k]
      BY <2>2, <2>5, <3>2
    <3>4. i \in Nat
      OBVIOUS
    <3>5. 1 + (k - 1) \div 6 = i /\ 1 + ((k - 1) % 6) = j
      <4>1. PICK q \in Nat, r \in 0 .. 5 : q = i - 1 /\ r = j - 1
        OBVIOUS
      <4>2. k - 1 = 6 * q + r
        BY <3>1, <4>1
      <4>3. (k - 1) \div 6 = q /\ (k - 1) % 6 = r
        BY <4>2
      <4> QED BY <4>1, <4>3
    <3> QED BY <1>6, <3>2, <3>3, <3>5
  <2>8. t \in Seq(Byte) /\ Len(t) = 6
    BY <2>2, <2>5
  <2>9. t = s[i]
    BY <2>6, <2>7, <2>8, SeqEqual
  <2> QED BY <2>1, <2>4, <2>9
<1>10. [i \in 1 .. Len(p) \div 6 |-> SubSeq(p, 6 * i - 5, 6 * i)] = s
  <2>1. Len(p) \div 6 = n
    BY <1>8
  <2>2. s = [i \in 1 .. n |-> s[i]]
    <3>1. s \in [1 .. Len(s) -> [1 .. 6 -> Byte]]
      BY <1>1, <1>2, LenProperties
    <3> QED BY <1>3, <3>1
  <2> QED BY <1>9, <2>1, <2>2
<1>11. PICK type : type = "SETTINGS"
  OBVIOUS
<1>12. Least(type) = 0 /\ Known(type) = {"ACK"}
  BY <1>11 DEF Least, Known
<1>13. ASSUME NEW byte, NEW id, FlagsIn(byte, Known(type)) = f.flags
       PROVE  FrameOf(type, byte, id, p) = f
  <2>1. FrameOf(type, byte, id, p)
          = [type |-> type, flags |-> FlagsIn(byte, Known(type)),
             settings |-> [i \in 1 .. Len(p) \div 6 |-> SubSeq(p, 6 * i - 5, 6 * i)]]
    BY <1>11 DEF FrameOf
  <2> QED BY <1>1, <1>2, <1>10, <1>11, <1>13, <2>1
<1>14. Len(p) >= Least(type)
  BY <1>8, <1>12
<1> QED BY <1>1, <1>2, <1>8, <1>11, <1>12, <1>13, <1>14 DEF Arrives

-----------------------------------------------------------------------------
\* So every frame does.
LEMMA FrameArrives ==
  ASSUME NEW f \in Frame
  PROVE  \E i \in 1 .. 10 : Arrives(f, Types[i])
<1>1. /\ Types[1] = "DATA" /\ Types[2] = "HEADERS" /\ Types[3] = "PRIORITY"
      /\ Types[4] = "RST_STREAM" /\ Types[5] = "SETTINGS" /\ Types[6] = "PUSH_PROMISE"
      /\ Types[7] = "PING" /\ Types[8] = "GOAWAY" /\ Types[9] = "WINDOW_UPDATE"
      /\ Types[10] = "CONTINUATION"
  BY DEF Types
<1>2. CASE f \in [type : {"DATA"}, flags : SUBSET {"END_STREAM"}, stream_id : Number31,
                  data : Seq(Byte)]
  <2>1. PICK type : type = "DATA"
    OBVIOUS
  <2>2. Known(type) = {"END_STREAM"}
    BY <2>1 DEF Known
  <2>3. type \in {"DATA", "HEADERS", "CONTINUATION"}
    BY <2>1
  <2>4. f \in [type : {type}, flags : SUBSET Known(type), stream_id : Number31, data : Seq(Byte)]
    BY <1>2, <2>1, <2>2
  <2>5. Arrives(f, type)
    BY <2>3, <2>4, DataArrives
  <2> QED BY <1>1, <2>1, <2>5
<1>3. CASE f \in [type : {"HEADERS"}, flags : SUBSET {"END_STREAM", "END_HEADERS"},
                  stream_id : Number31, data : Seq(Byte)]
  <2>1. PICK type : type = "HEADERS"
    OBVIOUS
  <2>2. Known(type) = {"END_STREAM", "END_HEADERS"}
    BY <2>1 DEF Known
  <2>3. type \in {"DATA", "HEADERS", "CONTINUATION"}
    BY <2>1
  <2>4. f \in [type : {type}, flags : SUBSET Known(type), stream_id : Number31, data : Seq(Byte)]
    BY <1>3, <2>1, <2>2
  <2>5. Arrives(f, type)
    BY <2>3, <2>4, DataArrives
  <2> QED BY <1>1, <2>1, <2>5
<1>4. CASE f \in [type : {"CONTINUATION"}, flags : SUBSET {"END_HEADERS"},
                  stream_id : Number31, data : Seq(Byte)]
  <2>1. PICK type : type = "CONTINUATION"
    OBVIOUS
  <2>2. Known(type) = {"END_HEADERS"}
    BY <2>1 DEF Known
  <2>3. type \in {"DATA", "HEADERS", "CONTINUATION"}
    BY <2>1
  <2>4. f \in [type : {type}, flags : SUBSET Known(type), stream_id : Number31, data : Seq(Byte)]
    BY <1>4, <2>1, <2>2
  <2>5. Arrives(f, type)
    BY <2>3, <2>4, DataArrives
  <2> QED BY <1>1, <2>1, <2>5
<1>5. CASE f \in [type : {"SETTINGS"}, flags : SUBSET {"ACK"}, settings : Seq([1 .. 6 -> Byte])]
  BY <1>1, <1>5, SettingsArrives
<1>6. CASE f \in [type : {"WINDOW_UPDATE"}, flags : {{}}, stream_id : Number31,
                  increment : Number31]
  BY <1>1, <1>6, WindowUpdateArrives
<1>7. CASE f \in [type : {"PING"}, flags : SUBSET {"ACK"}, data : [1 .. 8 -> Byte]]
  BY <1>1, <1>7, PingArrives
<1>8. CASE f \in [type : {"GOAWAY"}, flags : {{}}, last_stream_id : Number31,
                  error_code : Number, data : Seq(Byte)]
  BY <1>1, <1>8, GoAwayArrives
<1>9. CASE f \in [type : {"RST_STREAM"}, flags : {{}}, stream_id : Number31, error_code : Number]
  BY <1>1, <1>9, RstStreamArrives
<1>10. CASE f \in [type : {"PRIORITY"}, flags : {{}}, stream_id : Number31,
                   exclusive : BOOLEAN, dependency : Number31, weight : Byte]
  BY <1>1, <1>10, PriorityArrives
<1>11. CASE f \in [type : {"PUSH_PROMISE"}, flags : {{}}, stream_id : Number31,
                   promised_stream_id : Number31, data : Seq(Byte)]
  BY <1>1, <1>11, PushPromiseArrives
<1> QED BY <1>2, <1>3, <1>4, <1>5, <1>6, <1>7, <1>8, <1>9, <1>10, <1>11 DEF Frame

\* What serialize writes is a frame, and means what was serialized (frame.rs lines
\* 153-374).
THEOREM SerializedIsFrame ==
  ASSUME NEW f \in Frame, Len(Payload(f)) <= MaxLength
  PROVE  IsFrameOf(Serialized(f), f)
<1>1. PICK i \in 1 .. 10 : Arrives(f, Types[i])
  BY FrameArrives
<1>2. PICK type : type = Types[i]
  OBVIOUS
<1>4. /\ f.type = type /\ f.flags \in SUBSET Known(type)
      /\ Payload(f) \in Seq(Byte) /\ Len(Payload(f)) >= Least(type)
  BY <1>1, <1>2 DEF Arrives
<1>5. PICK flags, t, p : flags = FlagByte(f.flags) /\ t = TypeByte(type) /\ p = Payload(f)
  OBVIOUS
<1>6. flags \in Byte /\ FlagsIn(flags, Known(type)) = f.flags
  BY <1>4, <1>5, FlagsArrive
<1>7. t \in 0 .. 9 /\ Types[t + 1] = type
  BY <1>2, <1>5, TypeBytes
<1>8. t \in Byte
  BY <1>7 DEF Byte
<1>9. PICK id : id = IF type \in {"SETTINGS", "PING", "GOAWAY"} THEN Zero ELSE f.stream_id
  OBVIOUS
<1>10. id \in Number31
  <2>1. Zero \in Number31
    BY DEF Zero, Number31, Number, Byte, TopBit
  <2>2. type \notin {"SETTINGS", "PING", "GOAWAY"} => f.stream_id \in Number31
    BY <1>1, <1>2 DEF Arrives
  <2> QED BY <1>9, <2>1, <2>2
<1>11. Masked(id) = id /\ id \in Number
  BY <1>10, MaskedIs
<1>12. PICK b : b = Bytes(t, flags, id, p)
  OBVIOUS
<1>13. b = Serialized(f)
  BY <1>4, <1>5, <1>9, <1>12 DEF Serialized
<1>14. /\ b \in Seq(Byte) /\ HasHeader(b) /\ Len(b) = HeaderSize + Length(b)
       /\ b[4] = t /\ FrameIn(b) = FrameMeant(Types[t + 1], flags, id, p)
  BY <1>4, <1>5, <1>6, <1>8, <1>11, <1>12, BytesMean
<1>15. FrameIn(b) = FrameOf(type, flags, id, p)
  <2>1. ~(Len(p) < Least(type))
    <3>1. PICK n \in Nat : n = Len(p)
      BY <1>4, <1>5
    <3>2. Least(type) \in Nat
      BY DEF Least
    <3> QED BY <1>4, <1>5, <3>1, <3>2
  <2>2. FrameMeant(type, flags, id, p) = FrameOf(type, flags, Masked(id), p)
    BY <2>1 DEF FrameMeant
  <2> QED BY <1>7, <1>11, <1>14, <2>2
<1>16. FrameOf(type, flags, id, p) = f
  <2>1. type \notin {"SETTINGS", "PING", "GOAWAY"} => id = f.stream_id
    BY <1>9
  <2> QED BY <1>1, <1>2, <1>5, <1>6, <2>1 DEF Arrives
<1>17. IsKnown(b)
  <2>1. PICK n \in 0 .. 9 : n = t /\ n < 10
    BY <1>7
  <2> QED BY <1>14, <2>1, TypesAre DEF IsKnown
<1>18. f # InvalidFrameType
  <2>1. PICK k \in 1 .. 10 : k = t + 1
    BY <1>7
  <2>2. FrameMeant(Types[k], flags, id, p) # InvalidFrameType
    BY MeantIsKnown
  <2> QED BY <1>14, <1>15, <1>16, <2>1, <2>2
<1> QED BY <1>13, <1>14, <1>15, <1>16, <1>17, <1>18 DEF IsFrameOf

-----------------------------------------------------------------------------
\* Every step keeps the invariant.
LEMMA FramesNextInv == FramesInv /\ [FramesNext]_framesVars => FramesInv'
<1> SUFFICES ASSUME FramesInv, [FramesNext]_framesVars PROVE FramesInv'
  OBVIOUS
<1>1. CASE \E f \in FramesSent : SendFrame(f)
  <2>1. PICK f \in FramesSent : SendFrame(f)
    BY <1>1
  <2>2. IsFrameOf(Serialized(f), f)
    BY FramesAssumption, SerializedIsFrame
  <2>3. Send(f, Serialized(f))
    BY <2>1 DEF SendFrame
  <2> QED BY <2>2, <2>3, SendKeeps
<1>2. CASE \E f \in RawSent : SendRaw(f)
  <2>1. PICK f \in RawSent : SendRaw(f)
    BY <1>2
  <2>2. Send(f.means, Bytes(f.type, f.flags, f.stream_id, f.payload))
    BY <2>1 DEF SendRaw
  <2> QED BY <2>2, RawIsFrame, SendKeeps
<1>3. CASE Arrive
  BY <1>3, ArriveKeeps
<1>4. CASE ParseUnknown
  BY <1>4, ParseUnknownKeeps
<1>5. CASE ParseFrame
  BY <1>5, ParseFrameKeeps
<1>6. CASE UNCHANGED framesVars
  BY <1>6 DEF FramesInv, framesVars
<1> QED BY <1>1, <1>2, <1>3, <1>4, <1>5, <1>6 DEF FramesNext

\* However the bytes arrive, the frames that were sent are parsed, in order and with all
\* of their fields, for every set of frames (frame.rs lines 153-299 against 302-374).
THEOREM FramesAlwaysArrive == FramesSpec => []FramesArrive
<1>1. FramesInit => FramesInv
  BY FramesInitInv
<1>2. FramesInv /\ [FramesNext]_framesVars => FramesInv'
  BY FramesNextInv
<1>3. FramesInv => FramesArrive
  BY FramesInvArrive
<1> QED BY <1>1, <1>2, <1>3, PTL DEF FramesSpec

-----------------------------------------------------------------------------
(* Recursion over the elements of a sequence. *)

-----------------------------------------------------------------------------
(* Joined. *)

\* The function that Joined applies.
Joins(f, parts) ==
  f = [n \in 0 .. Len(parts) |-> IF n = 0 THEN <<>> ELSE f[n - 1] \o parts[n]]

\* Joined is the value of such a function.
LEMMA JoinsExist ==
  ASSUME NEW X, NEW parts \in Seq(Seq(X))
  PROVE  \E f : Joins(f, parts) /\ Joined(parts) = f[Len(parts)]
<1> DEFINE n == Len(parts)
           next == [p \in (1 .. n) \X Seq(X) |-> p[2] \o parts[p[1]]]
<1>1. n \in Nat /\ <<>> \in Seq(X)
  OBVIOUS
<1>2. next \in [(1 .. n) \X Seq(X) -> Seq(X)]
  <2>1. \A p \in (1 .. n) \X Seq(X) : p[2] \o parts[p[1]] \in Seq(X)
    BY ConcatProperties
  <2> QED BY <2>1
<1>3. PICK f \in [0 .. n -> Seq(X)] : Recursive(f, n, <<>>, next)
  <2> HIDE DEF next
  <2> QED BY <1>1, <1>2, RecursionExists
<1>4. ASSUME NEW i \in 0 .. n, i # 0 PROVE next[<<i, f[i - 1]>>] = f[i - 1] \o parts[i]
  <2>1. i \in 1 .. n /\ i - 1 \in 0 .. n
    BY <1>1, <1>4
  <2>2. <<i, f[i - 1]>> \in (1 .. n) \X Seq(X)
    BY <2>1
  <2> QED BY <2>2
<1>5. Joins(f, parts)
  BY <1>3, <1>4 DEF Joins, Recursive
<1>6. \E g : Joins(g, parts)
  BY <1>5
<1>7. Joins(CHOOSE g : Joins(g, parts), parts)
  BY <1>6
<1> QED BY <1>7 DEF Joined, Joins

\* Nothing joined is nothing.
LEMMA JoinedEmpty == Joined(<<>>) = <<>>
<1>1. <<>> \in Seq(Seq({})) /\ Len(<<>>) = 0
  OBVIOUS
<1>2. PICK f : Joins(f, <<>>) /\ Joined(<<>>) = f[Len(<<>>)]
  BY <1>1, JoinsExist
<1> QED BY <1>1, <1>2 DEF Joins

\* One more part is joined at the end.
LEMMA JoinedAppend ==
  ASSUME NEW X, NEW parts \in Seq(Seq(X)), NEW part \in Seq(X)
  PROVE  Joined(Append(parts, part)) = Joined(parts) \o part
<1> DEFINE longer == Append(parts, part)
           n == Len(parts)
<1>1. /\ longer \in Seq(Seq(X)) /\ n \in Nat /\ Len(longer) = n + 1 /\ longer[n + 1] = part
      /\ \A i \in 1 .. n : longer[i] = parts[i]
  BY AppendProperties
<1> HIDE DEF longer
<1>2. PICK f : Joins(f, parts) /\ Joined(parts) = f[n]
  BY JoinsExist
<1>3. PICK g : Joins(g, longer) /\ Joined(longer) = g[n + 1]
  BY <1>1, JoinsExist
<1>4. \A i \in 0 .. n : f[i] = IF i = 0 THEN <<>> ELSE f[i - 1] \o parts[i]
  BY <1>2 DEF Joins
<1>5. \A i \in 0 .. n + 1 : g[i] = IF i = 0 THEN <<>> ELSE g[i - 1] \o longer[i]
  BY <1>1, <1>3 DEF Joins
<1> DEFINE G == {i \in 0 .. n : f[i] = g[i]}
<1>6. 0 \in G
  BY <1>1, <1>4, <1>5
<1>7. ASSUME NEW i \in 1 .. n, i - 1 \in G PROVE i \in G
  <2>1. i \in 0 .. n /\ i \in 0 .. n + 1 /\ i # 0 /\ longer[i] = parts[i]
    BY <1>1
  <2> QED BY <1>4, <1>5, <1>7, <2>1
<1>8. f[n] = g[n]
  <2>1. \A i \in 0 .. n : i \in G
    <3> HIDE DEF G
    <3> QED BY <1>1, <1>6, <1>7, InductionUpTo
  <2>2. n \in 0 .. n
    BY <1>1
  <2> QED BY <2>1, <2>2
<1>9. g[n + 1] = g[n] \o longer[n + 1]
  <2>1. n + 1 \in 0 .. n + 1 /\ n + 1 # 0 /\ (n + 1) - 1 = n
    BY <1>1
  <2> QED BY <1>5, <2>1
<1> QED BY <1>1, <1>2, <1>3, <1>8, <1>9 DEF longer

\* Parts of a kind join to a sequence of that kind.
LEMMA JoinedSeq ==
  ASSUME NEW X PROVE \A parts \in Seq(Seq(X)) : Joined(parts) \in Seq(X)
<1> DEFINE Good == {parts \in Seq(Seq(X)) : Joined(parts) \in Seq(X)}
<1>1. <<>> \in Good
  BY JoinedEmpty, EmptySeq
<1>2. ASSUME NEW parts \in Seq(Seq(X)), NEW part \in Seq(X), parts \in Good
      PROVE  Append(parts, part) \in Good
  BY <1>2, JoinedAppend, AppendProperties, ConcatProperties
<1>3. Seq(Seq(X)) \subseteq Good
  <2> HIDE DEF Good
  <2> QED BY <1>1, <1>2, SeqInduction
<1> QED BY <1>3

-----------------------------------------------------------------------------
(* Sequences. *)

\* The front and the last of a sequence that has one.
LEMMA FrontLast ==
  ASSUME NEW X, NEW s \in Seq(X), s # <<>>
  PROVE  /\ Front(s) \in Seq(X) /\ Last(s) \in X /\ Append(Front(s), Last(s)) = s
         /\ Len(s) \in Nat \ {0} /\ Len(Front(s)) = Len(s) - 1
         /\ \A i \in 1 .. Len(s) - 1 : Front(s)[i] = s[i]
<1>1. Len(s) \in Nat \ {0} /\ Last(s) \in X
  BY EmptySeq DEF Last
<1>2. \A i \in 1 .. Len(s) - 1 : s[i] \in X
  BY <1>1
<1>2a. /\ Front(s) \in Seq(X) /\ Len(Front(s)) = Len(s) - 1
      /\ \A i \in 1 .. Len(s) - 1 : Front(s)[i] = s[i]
  <2>1. PICK n \in Nat : n = Len(s) - 1
    BY <1>1
  <2>2. \A i \in 1 .. n : s[i] \in X
    BY <1>2, <2>1
  <2>3. /\ SubSeq(s, 1, n) \in Seq(X) /\ Len(SubSeq(s, 1, n)) = IF 1 <= n THEN n - 1 + 1 ELSE 0
        /\ \A i \in 1 .. n - 1 + 1 : SubSeq(s, 1, n)[i] = s[1 + i - 1]
    <3>1. 1 \in Int /\ n \in Int
      OBVIOUS
    <3> QED BY <2>2, <3>1, SubSeqProperties
  <2>4. Front(s) = SubSeq(s, 1, n)
    BY <2>1 DEF Front
  <2>5. Len(SubSeq(s, 1, n)) = n /\ \A i \in 1 .. n : SubSeq(s, 1, n)[i] = s[i]
    BY <2>3
  <2> QED BY <2>1, <2>3, <2>4, <2>5
<1>3. /\ Append(Front(s), Last(s)) \in Seq(X) /\ Len(Append(Front(s), Last(s))) = Len(s)
      /\ \A i \in 1 .. Len(s) : Append(Front(s), Last(s))[i] = s[i]
  BY <1>1, <1>2a, AppendProperties DEF Last
<1> QED BY <1>1, <1>2a, <1>3, SeqEqual

\* What was appended is the last, and the rest the front.
LEMMA FrontOfAppend ==
  ASSUME NEW X, NEW s \in Seq(X), NEW e \in X
  PROVE  Front(Append(s, e)) = s /\ Last(Append(s, e)) = e /\ Append(s, e) # <<>>
<1> DEFINE longer == Append(s, e)
<1>1. longer \in Seq(X) /\ longer # <<>> /\ Len(longer) = Len(s) + 1 /\ Len(s) \in Nat
      /\ longer[Len(s) + 1] = e /\ \A i \in 1 .. Len(s) : longer[i] = s[i]
  BY AppendProperties
<1> HIDE DEF longer
<1>2. /\ Front(longer) \in Seq(X) /\ Len(Front(longer)) = Len(s)
      /\ \A i \in 1 .. Len(s) : Front(longer)[i] = s[i]
  BY <1>1, FrontLast
<1>3. Front(longer) = s
  BY <1>2, SeqEqual
<1> QED BY <1>1, <1>3 DEF longer, Last

-----------------------------------------------------------------------------
(* Split. *)

Pieces(X) == Seq(Seq(X)) \ {<<>>}

\* The pieces of a text that c ends.
Cut(pieces, c, separators) ==
  IF c \in separators THEN Append(pieces, <<>>)
  ELSE Append(Front(pieces), Append(Last(pieces), c))

\* The function that Split applies.
Cuts(f, s, separators) ==
  f = [n \in 0 .. Len(s) |->
         IF n = 0 THEN << <<>> >>
         ELSE IF s[n] \in separators THEN Append(f[n - 1], <<>>)
         ELSE Append(Front(f[n - 1]), Append(Last(f[n - 1]), s[n]))]

\* The pieces stay pieces.
LEMMA CutPieces ==
  ASSUME NEW X, NEW pieces \in Pieces(X), NEW c \in X, NEW separators
  PROVE  Cut(pieces, c, separators) \in Pieces(X)
<1>1. /\ pieces \in Seq(Seq(X)) /\ Len(pieces) \in Nat \ {0} /\ Len(pieces) \in DOMAIN pieces
  BY EmptySeq DEF Pieces
<1>2. Last(pieces) \in Seq(X) /\ Front(pieces) \in Seq(Seq(X)) /\ <<>> \in Seq(X)
  BY <1>1 DEF Last, Front
<1>3. Append(Last(pieces), c) \in Seq(X)
  BY <1>2
<1>4. \A t \in Seq(Seq(X)), e \in Seq(X) : Append(t, e) \in Seq(Seq(X)) /\ Append(t, e) # <<>>
  BY AppendProperties
<1> QED BY <1>1, <1>2, <1>3, <1>4 DEF Pieces, Cut

\* Split is the value of such a function.
LEMMA CutsExist ==
  ASSUME NEW X, NEW s \in Seq(X), NEW separators
  PROVE  \E f \in [0 .. Len(s) -> Pieces(X)] :
           Cuts(f, s, separators) /\ Split(s, separators) = f[Len(s)]
<1> DEFINE n == Len(s)
           P == Pieces(X)
           next == [p \in (1 .. n) \X P |-> Cut(p[2], s[p[1]], separators)]
<1>1. n \in Nat /\ << <<>> >> \in P
  <2>1. <<>> \in Seq(X)
    BY EmptySeq
  <2> QED BY <2>1 DEF Pieces
<1>2. next \in [(1 .. n) \X P -> P]
  <2>1. ASSUME NEW p \in (1 .. n) \X P PROVE Cut(p[2], s[p[1]], separators) \in P
    <3>1. p[2] \in Pieces(X) /\ s[p[1]] \in X
      OBVIOUS
    <3> QED BY <3>1, CutPieces
  <2> QED BY <2>1
<1> HIDE DEF P
<1>3. \E f \in [0 .. n -> P] : Recursive(f, n, << <<>> >>, next)
  <2> HIDE DEF next
  <2> QED BY <1>1, <1>2, RecursionExists
<1>4. ASSUME NEW f \in [0 .. n -> P] PROVE Recursive(f, n, << <<>> >>, next) <=> Cuts(f, s, separators)
  <2>1. ASSUME NEW i \in 0 .. n, i # 0
        PROVE  next[<<i, f[i - 1]>>] = IF s[i] \in separators THEN Append(f[i - 1], <<>>)
                 ELSE Append(Front(f[i - 1]), Append(Last(f[i - 1]), s[i]))
    <3>1. i \in 1 .. n /\ i - 1 \in 0 .. n
      BY <1>1, <2>1
    <3>2. <<i, f[i - 1]>> \in (1 .. n) \X P
      BY <3>1
    <3>3. next[<<i, f[i - 1]>>] = Cut(f[i - 1], s[i], separators)
      BY <3>2
    <3> QED BY <3>3 DEF Cut
  <2> HIDE DEF next
  <2> QED BY <2>1 DEF Cuts, Recursive
<1>5. \E f : Cuts(f, s, separators)
  BY <1>3, <1>4
<1> DEFINE g == CHOOSE f : Cuts(f, s, separators)
<1>6. Cuts(g, s, separators)
  BY <1>5
<1>7. Split(s, separators) = g[n]
  BY DEF Split, Cuts
<1>8. g \in [0 .. n -> P]
  <2> HIDE DEF g
  <2> DEFINE G == {i \in 0 .. n : g[i] \in P}
  <2>1. /\ g = [i \in 0 .. n |-> g[i]]
        /\ \A i \in 0 .. n : g[i] = IF i = 0 THEN << <<>> >> ELSE Cut(g[i - 1], s[i], separators)
    BY <1>6 DEF Cuts, Cut
  <2>2. 0 \in G
    BY <1>1, <2>1
  <2>3. ASSUME NEW i \in 1 .. n, i - 1 \in G PROVE i \in G
    <3>1. i \in 0 .. n /\ i # 0 /\ s[i] \in X /\ g[i - 1] \in Pieces(X)
      BY <2>3 DEF P
    <3>2. Cut(g[i - 1], s[i], separators) \in P
      BY <3>1, CutPieces DEF P
    <3> QED BY <2>1, <3>1, <3>2
  <2>4. \A i \in 0 .. n : i \in G
    <3> HIDE DEF G
    <3> QED BY <1>1, <2>2, <2>3, InductionUpTo
  <2> QED BY <2>1, <2>4
<1> HIDE DEF g
<1> QED BY <1>6, <1>7, <1>8 DEF P

\* A text of no bytes has one piece of no bytes.
LEMMA SplitEmpty == ASSUME NEW separators PROVE Split(<<>>, separators) = << <<>> >>
<1>1. <<>> \in Seq({}) /\ Len(<<>>) = 0
  OBVIOUS
<1>2. PICK f \in [0 .. Len(<<>>) -> Pieces({})] :
        Cuts(f, <<>>, separators) /\ Split(<<>>, separators) = f[Len(<<>>)]
  BY <1>1, CutsExist
<1> QED BY <1>1, <1>2 DEF Cuts

\* One byte more.
LEMMA SplitAppend ==
  ASSUME NEW X, NEW s \in Seq(X), NEW c \in X, NEW separators
  PROVE  /\ Split(s, separators) \in Pieces(X)
         /\ Split(Append(s, c), separators) = Cut(Split(s, separators), c, separators)
<1> DEFINE longer == Append(s, c)
           n == Len(s)
<1>1. /\ longer \in Seq(X) /\ n \in Nat /\ Len(longer) = n + 1 /\ longer[n + 1] = c
      /\ \A i \in 1 .. n : longer[i] = s[i]
  BY AppendProperties
<1> HIDE DEF longer
<1>2. PICK f \in [0 .. n -> Pieces(X)] : Cuts(f, s, separators) /\ Split(s, separators) = f[n]
  BY CutsExist
<1>3. PICK g \in [0 .. n + 1 -> Pieces(X)] :
        Cuts(g, longer, separators) /\ Split(longer, separators) = g[n + 1]
  BY <1>1, CutsExist
<1>4. \A i \in 0 .. n : f[i] = IF i = 0 THEN << <<>> >> ELSE Cut(f[i - 1], s[i], separators)
  BY <1>2 DEF Cuts, Cut
<1>5. \A i \in 0 .. n + 1 :
        g[i] = IF i = 0 THEN << <<>> >> ELSE Cut(g[i - 1], longer[i], separators)
  BY <1>1, <1>3 DEF Cuts, Cut
<1> DEFINE G == {i \in 0 .. n : f[i] = g[i]}
<1>6. 0 \in G
  BY <1>1, <1>4, <1>5
<1>7. ASSUME NEW i \in 1 .. n, i - 1 \in G PROVE i \in G
  <2>1. i \in 0 .. n /\ i \in 0 .. n + 1 /\ i # 0 /\ longer[i] = s[i]
    BY <1>1
  <2> QED BY <1>4, <1>5, <1>7, <2>1
<1>8. f[n] = g[n]
  <2>1. \A i \in 0 .. n : i \in G
    <3> HIDE DEF G
    <3> QED BY <1>1, <1>6, <1>7, InductionUpTo
  <2>2. n \in 0 .. n
    BY <1>1
  <2> QED BY <2>1, <2>2
<1>9. g[n + 1] = Cut(g[n], longer[n + 1], separators)
  <2>1. n + 1 \in 0 .. n + 1 /\ n + 1 # 0 /\ (n + 1) - 1 = n
    BY <1>1
  <2> QED BY <1>5, <2>1
<1>10. f[n] \in Pieces(X)
  BY <1>1
<1> QED BY <1>1, <1>2, <1>3, <1>8, <1>9, <1>10 DEF longer

\* Bytes that are no separators make the last piece longer.
LEMMA SplitMore ==
  ASSUME NEW X, NEW s \in Seq(X), NEW separators
  PROVE  \A piece \in Seq(X) : (\A i \in DOMAIN piece : piece[i] \notin separators) =>
           Split(s \o piece, separators) =
             Append(Front(Split(s, separators)), Last(Split(s, separators)) \o piece)
<1> DEFINE pieces == Split(s, separators)
           Good == {piece \in Seq(X) : (\A i \in DOMAIN piece : piece[i] \notin separators) =>
                      Split(s \o piece, separators) = Append(Front(pieces), Last(pieces) \o piece)}
<1>1. pieces \in Pieces(X)
  <2>1. PICK f \in [0 .. Len(s) -> Pieces(X)] : pieces = f[Len(s)]
    BY CutsExist
  <2> QED BY <2>1
<1>2. /\ pieces \in Seq(Seq(X)) /\ Len(pieces) \in Nat \ {0} /\ Len(pieces) \in DOMAIN pieces
  BY <1>1, EmptySeq DEF Pieces
<1>3. Last(pieces) \in Seq(X) /\ Front(pieces) \in Seq(Seq(X))
  BY <1>2 DEF Last, Front
<1> HIDE DEF pieces
<1>4. <<>> \in Good
  <2>1. s \o <<>> = s /\ Last(pieces) \o <<>> = Last(pieces)
    BY <1>3, ConcatEmptySeq
  <2>2. pieces = Append(Front(pieces), Last(pieces))
    <3>1. pieces # <<>>
      BY <1>2
    <3> QED BY <1>2, <3>1, FrontLast
  <2> QED BY <2>1, <2>2, EmptySeq DEF pieces
<1>5. ASSUME NEW piece \in Seq(X), NEW c \in X, piece \in Good PROVE Append(piece, c) \in Good
  <2>1. SUFFICES ASSUME \A i \in DOMAIN Append(piece, c) : Append(piece, c)[i] \notin separators
        PROVE  Split(s \o Append(piece, c), separators) =
                 Append(Front(pieces), Last(pieces) \o Append(piece, c))
    BY AppendProperties
  <2>2. /\ DOMAIN Append(piece, c) = 1 .. Len(piece) + 1 /\ DOMAIN piece = 1 .. Len(piece)
        /\ Append(piece, c)[Len(piece) + 1] = c /\ Len(piece) \in Nat
        /\ \A i \in 1 .. Len(piece) : Append(piece, c)[i] = piece[i]
    BY AppendProperties
  <2>3. c \notin separators /\ \A i \in DOMAIN piece : piece[i] \notin separators
    BY <2>1, <2>2
  <2>4. Split(s \o piece, separators) = Append(Front(pieces), Last(pieces) \o piece)
    BY <1>5, <2>3
  <2>5. s \o Append(piece, c) = Append(s \o piece, c) /\ s \o piece \in Seq(X)
    BY AppendConcat
  <2>6. Split(Append(s \o piece, c), separators) = Cut(Split(s \o piece, separators), c, separators)
    BY <2>5, SplitAppend, ZenonT(40)
  <2> DEFINE long == Last(pieces) \o piece
             some == Append(Front(pieces), long)
  <2>7. long \in Seq(X)
    BY <1>3, ConcatProperties
  <2>8. Front(some) = Front(pieces) /\ Last(some) = long
    <3> HIDE DEF long
    <3> QED BY <1>3, <2>7, FrontOfAppend
  <2>9. Last(pieces) \o Append(piece, c) = Append(long, c)
    BY <1>3, AppendConcat
  <2> QED BY <2>3, <2>4, <2>5, <2>6, <2>8, <2>9 DEF Cut
<1>6. Seq(X) \subseteq Good
  <2> HIDE DEF Good
  <2> QED BY <1>4, <1>5, SeqInduction
<1> QED BY <1>6 DEF pieces

-----------------------------------------------------------------------------
(* HeadersOn. *)

\* The key and the value that a line has.
KeyOn(l) == Lowered(Trimmed(SubSeq(l, 1, Colon(l) - 1)))
ValueOn(l) == Trimmed(SubSeq(l, Colon(l) + 1, Len(l)))

\* The maps of some keys.
Maps(keys, values) == UNION {[K -> values] : K \in SUBSET keys}

\* A map stays a map when a line is inserted.
LEMMA InsertedMaps ==
  ASSUME NEW keys, NEW values, NEW h \in Maps(keys, values), NEW l,
         KeyOn(l) \in keys, ValueOn(l) \in values
  PROVE  Inserted(h, l) \in Maps(keys, values)
<1>1. PICK K \in SUBSET keys : h \in [K -> values]
  BY DEF Maps
<1>2. CASE ":" \notin ToSet(l)
  BY <1>2 DEF Inserted
<1>3. CASE ":" \in ToSet(l)
  <2> DEFINE v == ValueOn(l)
             g == [key \in DOMAIN h \cup {KeyOn(l)} |-> IF key = KeyOn(l) THEN v ELSE h[key]]
  <2>1. Inserted(h, l) = g
    BY <1>3 DEF Inserted, KeyOn, ValueOn
  <2>2. g \in [K \cup {KeyOn(l)} -> values]
    <3> HIDE DEF v
    <3>1. v \in values
      BY DEF v
    <3> QED BY <1>1, <3>1
  <2>3. K \cup {KeyOn(l)} \in SUBSET keys
    OBVIOUS
  <2> HIDE DEF g
  <2> QED BY <2>1, <2>2, <2>3 DEF Maps
<1> QED BY <1>2, <1>3

\* The function that HeadersOn applies.
Collects(f, lines) ==
  f = [n \in 0 .. Len(lines) |->
         IF n = 0 THEN [key \in {} |-> <<>>] ELSE Inserted(f[n - 1], lines[n])]

\* HeadersOn is the value of such a function.
LEMMA CollectsExist ==
  ASSUME NEW X, NEW lines \in Seq(X)
  PROVE  \E f : Collects(f, lines) /\ HeadersOn(lines) = f[Len(lines)]
<1> DEFINE n == Len(lines)
           keys == {KeyOn(lines[i]) : i \in 1 .. n}
           values == {ValueOn(lines[i]) : i \in 1 .. n}
           M == Maps(keys, values)
           none == [key \in {} |-> <<>>]
           next == [p \in (1 .. n) \X M |-> Inserted(p[2], lines[p[1]])]
<1>1. n \in Nat /\ none \in M
  <2>1. none \in [{} -> values] /\ {} \in SUBSET keys
    OBVIOUS
  <2>2. n \in Nat
    OBVIOUS
  <2> HIDE DEF none, keys, values, n
  <2> QED BY <2>1, <2>2 DEF Maps
<1>2. next \in [(1 .. n) \X M -> M]
  <2>1. ASSUME NEW p \in (1 .. n) \X M PROVE Inserted(p[2], lines[p[1]]) \in M
    <3>1. /\ p[2] \in Maps(keys, values) /\ KeyOn(lines[p[1]]) \in keys
          /\ ValueOn(lines[p[1]]) \in values
      OBVIOUS
    <3> HIDE DEF keys, values
    <3> QED BY <3>1, InsertedMaps
  <2> QED BY <2>1
<1> HIDE DEF M
<1>3. PICK f \in [0 .. n -> M] : Recursive(f, n, none, next)
  <2> HIDE DEF next, none
  <2> QED BY <1>1, <1>2, RecursionExists
<1>4. ASSUME NEW i \in 0 .. n, i # 0 PROVE next[<<i, f[i - 1]>>] = Inserted(f[i - 1], lines[i])
  <2>1. i \in 1 .. n /\ i - 1 \in 0 .. n
    BY <1>1, <1>4
  <2>2. <<i, f[i - 1]>> \in (1 .. n) \X M
    BY <2>1
  <2> QED BY <2>2
<1>5. Collects(f, lines)
  <2> HIDE DEF next
  <2> QED BY <1>3, <1>4 DEF Collects, Recursive
<1>6. Collects(CHOOSE g : Collects(g, lines), lines)
  <2>1. \E g : Collects(g, lines)
    BY <1>5
  <2> QED BY <2>1
<1> QED BY <1>6 DEF HeadersOn, Collects

\* No lines have no fields.
LEMMA HeadersOnNone == HeadersOn(<<>>) = [key \in {} |-> <<>>]
<1>1. <<>> \in Seq({}) /\ Len(<<>>) = 0
  OBVIOUS
<1>2. PICK f : Collects(f, <<>>) /\ HeadersOn(<<>>) = f[Len(<<>>)]
  BY <1>1, CollectsExist
<1> QED BY <1>1, <1>2 DEF Collects

\* One line more.
LEMMA HeadersOnAppend ==
  ASSUME NEW X, NEW lines \in Seq(X), NEW l \in X
  PROVE  HeadersOn(Append(lines, l)) = Inserted(HeadersOn(lines), l)
<1> DEFINE longer == Append(lines, l)
           n == Len(lines)
<1>1. /\ longer \in Seq(X) /\ n \in Nat /\ Len(longer) = n + 1 /\ longer[n + 1] = l
      /\ \A i \in 1 .. n : longer[i] = lines[i]
  BY AppendProperties
<1> HIDE DEF longer
<1>2. PICK f : Collects(f, lines) /\ HeadersOn(lines) = f[n]
  BY CollectsExist
<1>3. PICK g : Collects(g, longer) /\ HeadersOn(longer) = g[n + 1]
  BY <1>1, CollectsExist
<1>4. \A i \in 0 .. n : f[i] = IF i = 0 THEN [key \in {} |-> <<>>]
                                ELSE Inserted(f[i - 1], lines[i])
  BY <1>2 DEF Collects
<1>5. \A i \in 0 .. n + 1 : g[i] = IF i = 0 THEN [key \in {} |-> <<>>]
                                    ELSE Inserted(g[i - 1], longer[i])
  BY <1>1, <1>3 DEF Collects
<1> DEFINE G == {i \in 0 .. n : f[i] = g[i]}
<1>6. 0 \in G
  BY <1>1, <1>4, <1>5
<1>7. ASSUME NEW i \in 1 .. n, i - 1 \in G PROVE i \in G
  <2>1. i \in 0 .. n /\ i \in 0 .. n + 1 /\ i # 0 /\ longer[i] = lines[i]
    BY <1>1
  <2> QED BY <1>4, <1>5, <1>7, <2>1
<1>8. f[n] = g[n]
  <2>1. \A i \in 0 .. n : i \in G
    <3> HIDE DEF G
    <3> QED BY <1>1, <1>6, <1>7, InductionUpTo
  <2>2. n \in 0 .. n
    BY <1>1
  <2> QED BY <2>1, <2>2
<1>9. g[n + 1] = Inserted(g[n], longer[n + 1])
  <2>1. n + 1 \in 0 .. n + 1 /\ n + 1 # 0 /\ (n + 1) - 1 = n
    BY <1>1
  <2> QED BY <1>5, <2>1
<1> QED BY <1>1, <1>2, <1>3, <1>8, <1>9 DEF longer

-----------------------------------------------------------------------------
(* Trimmed, and one header line. *)

\* The bytes of texts.  The provers do not know that a string is a member of STRING.
Letters == STRING \cup Blank \cup {":"}

\* What Min and Max choose.
LEMMA MinIs ==
  ASSUME NEW S, NEW m \in S, S \subseteq Int, \A i \in S : m <= i
  PROVE  Min(S) = m
<1>1. \E x \in S : \A y \in S : x <= y
  OBVIOUS
<1>2. Min(S) \in S /\ \A y \in S : Min(S) <= y
  BY <1>1 DEF Min
<1>3. PICK l \in Int : l = Min(S)
  BY <1>2
<1>4. m \in Int /\ m <= l /\ l <= m
  BY <1>2, <1>3
<1> QED BY <1>3, <1>4

\* And a greatest element is the one that Max chooses.
LEMMA MaxIs ==
  ASSUME NEW S, NEW m \in S, S \subseteq Int, \A i \in S : i <= m
  PROVE  Max(S) = m
<1>1. \E x \in S : \A y \in S : x >= y
  OBVIOUS
<1>2. Max(S) \in S /\ \A y \in S : Max(S) >= y
  BY <1>1 DEF Max
<1>3. PICK l \in Int : l = Max(S)
  BY <1>2
<1>4. m \in Int /\ m <= l /\ l <= m
  BY <1>2, <1>3
<1> QED BY <1>3, <1>4

\* Blanks around a value are left out.
LEMMA TrimmedValue ==
  ASSUME NEW before \in Seq(Blank), NEW v \in Value, NEW after \in Seq(Blank)
  PROVE  Trimmed(before \o v \o after) = v
<1> DEFINE s == before \o v \o after
           a == Len(before)
           k == Len(v)
           solid == {i \in DOMAIN s : s[i] \notin Blank}
<1>1. before \in Seq(Letters) /\ v \in Seq(Letters) /\ after \in Seq(Letters)
  <2>1. Blank \subseteq Letters /\ STRING \subseteq Letters
    BY DEF Letters
  <2>2. v \in Seq(STRING)
    BY DEF Value, Lacking
  <2> QED BY <2>1, <2>2, SeqMonotonic
<1>2. /\ a \in Nat /\ k \in Nat /\ Len(after) \in Nat
      /\ DOMAIN s = 1 .. a + k + Len(after) /\ s \in Seq(Letters)
      /\ \A i \in 1 .. a + k + Len(after) :
           s[i] = IF i <= a THEN before[i] ELSE IF i <= a + k THEN v[i - a]
                  ELSE after[i - (a + k)]
  <2>1. /\ before \o v \in Seq(Letters) /\ Len(before \o v) = a + k
        /\ \A i \in 1 .. a + k : (before \o v)[i] = IF i <= a THEN before[i] ELSE v[i - a]
    BY <1>1, ConcatProperties
  <2>2. /\ s \in Seq(Letters) /\ Len(s) = a + k + Len(after)
        /\ \A i \in 1 .. a + k + Len(after) :
             s[i] = IF i <= a + k THEN (before \o v)[i] ELSE after[i - (a + k)]
    BY <1>1, <2>1, ConcatProperties
  <2>3. a \in Nat /\ k \in Nat /\ Len(after) \in Nat
    BY <1>1
  <2> HIDE DEF s
  <2> QED BY <2>1, <2>2, <2>3
<1>3. \A i \in 1 .. a : before[i] \in Blank
  OBVIOUS
<1>4. \A i \in 1 .. Len(after) : after[i] \in Blank
  OBVIOUS
<1> HIDE DEF s
<1>5. solid \subseteq a + 1 .. a + k
  BY <1>2, <1>3, <1>4, SMTT(40)
<1>6. CASE v = <<>>
  <2>1. solid = {} /\ k = 0
    BY <1>2, <1>5, <1>6
  <2> QED BY <1>6, <2>1 DEF Trimmed, s
<1>7. CASE v # <<>>
  <2>1. k >= 1 /\ v[1] \notin Blank /\ v[k] \notin Blank
    <3>1. k >= 1 /\ Head(v) = v[1] /\ Last(v) = v[k]
      BY <1>1, <1>2, <1>7, EmptySeq DEF Last
    <3> QED BY <1>7, <3>1 DEF Value
  <2>2. a + 1 \in solid /\ a + k \in solid
    BY <1>2, <2>1
  <2>3. solid \subseteq Int /\ \A i \in solid : a + 1 <= i /\ i <= a + k
    BY <1>2, <1>5
  <2>4. Min(solid) = a + 1 /\ Max(solid) = a + k
    <3> HIDE DEF solid
    <3> QED BY <2>2, <2>3, MinIs, MaxIs
  <2>5. Trimmed(s) = SubSeq(s, a + 1, a + k)
    BY <2>2, <2>4 DEF Trimmed
  <2>6. SubSeq(s, a + 1, a + k) = v
    <3>1. PICK m \in Nat, n \in Nat : m = a + 1 /\ n = a + k
      BY <1>2
    <3>2. \A i \in m .. n : s[i] \in Letters
      BY <1>2, <3>1
    <3>3. /\ SubSeq(s, m, n) \in Seq(Letters)
          /\ Len(SubSeq(s, m, n)) = IF m <= n THEN n - m + 1 ELSE 0
          /\ \A i \in 1 .. n - m + 1 : SubSeq(s, m, n)[i] = s[m + i - 1]
      <4>1. m \in Int /\ n \in Int
        OBVIOUS
      <4> QED BY <3>2, <4>1, SubSeqProperties
    <3>4. Len(SubSeq(s, m, n)) = k
      BY <1>2, <2>1, <3>1, <3>3
    <3>5. ASSUME NEW i \in 1 .. k PROVE SubSeq(s, m, n)[i] = v[i]
      <4>1. i \in 1 .. n - m + 1 /\ m + i - 1 = a + i
        BY <1>2, <3>1
      <4>2. a + i \in 1 .. a + k + Len(after) /\ ~(a + i <= a) /\ a + i <= a + k /\ a + i - a = i
        BY <1>2
      <4>3. s[a + i] = v[i]
        BY <1>2, <4>2
      <4> QED BY <3>3, <4>1, <4>3
    <3> QED BY <1>1, <3>1, <3>3, <3>4, <3>5, SeqEqual
  <2> QED BY <2>5, <2>6 DEF s
<1> QED BY <1>6, <1>7

-----------------------------------------------------------------------------
(* Header lines. *)

\* Texts.
Texts == Seq(Letters)

\* What a text is made of.
LEMMA TextIs ==
  ASSUME NEW s \in Texts
  PROVE  /\ Len(s) \in Nat /\ DOMAIN s = 1 .. Len(s) /\ \A i \in 1 .. Len(s) : s[i] \in Letters
         /\ s # <<>> <=> Len(s) > 0
BY EmptySeq DEF Texts

\* Texts one after the other are a text.
LEMMA TextConcat ==
  \A s \in Texts, t \in Texts : s \o t \in Texts
BY ConcatProperties DEF Texts

\* Grouping does not matter.
LEMMA TextAssociative ==
  \A s \in Texts, t \in Texts, u \in Texts : (s \o t) \o u = s \o (t \o u)
BY ConcatAssociative DEF Texts

\* u is s and then t.
Follow(u, s, t) ==
  /\ u \in Texts /\ Len(u) = Len(s) + Len(t)
  /\ \A i \in 1 .. Len(s) : u[i] = s[i]
  /\ \A i \in 1 .. Len(t) : u[Len(s) + i] = t[i]
  /\ \A i \in 1 .. Len(u) : i \in 1 .. Len(s) \/ \E j \in 1 .. Len(t) : i = Len(s) + j

\* Five texts one after the other.
Regroups(k, a, b, v, z) == ((k \o (a \o b)) \o v) \o z = (k \o a) \o ((b \o v) \o z)

\* They may be grouped by the colon.
LEMMA TextRegrouped ==
  ASSUME NEW k, NEW a, NEW b, NEW v, NEW z,
         k \in Texts, a \in Texts, b \in Texts, v \in Texts, z \in Texts
  PROVE  Regroups(k, a, b, v, z)
<1>1. PICK ka : ka = k \o a
  OBVIOUS
<1>2. PICK bv : bv = b \o v
  OBVIOUS
<1>3. ka \in Texts
  BY <1>1, TextConcat
<1>0. bv \in Texts
  BY <1>2, TextConcat
<1>4. k \o (a \o b) = ka \o b
  BY <1>1, TextAssociative, ZenonT(40)
<1>5. (ka \o b) \o v = ka \o bv
  <2>1. (ka \o b) \o v = ka \o (b \o v)
    BY <1>3, TextAssociative
  <2> QED BY <1>2, <2>1
<1>6. (ka \o bv) \o z = ka \o (bv \o z)
  BY <1>3, <1>0, TextAssociative, ZenonT(40)
<1> QED BY <1>1, <1>2, <1>4, <1>5, <1>6 DEF Regroups

\* What a concatenation is.
LEMMA TextAt == \A s \in Texts, t \in Texts : Follow(s \o t, s, t)
<1> SUFFICES ASSUME NEW s \in Texts, NEW t \in Texts PROVE Follow(s \o t, s, t)
  OBVIOUS
<1> DEFINE u == s \o t
<1>1. PICK m \in Nat, n \in Nat : m = Len(s) /\ n = Len(t)
  BY DEF Texts
<1>2. /\ u \in Texts /\ Len(u) = m + n
      /\ \A i \in 1 .. m + n : u[i] = IF i <= m THEN s[i] ELSE t[i - m]
  BY <1>1, ConcatProperties DEF Texts
<1> HIDE DEF u
<1>3. \A i \in 1 .. m : u[i] = s[i]
  BY <1>2
<1>4. \A i \in 1 .. n : u[m + i] = t[i]
  BY <1>2
<1>5. ASSUME NEW i \in 1 .. m + n PROVE i \in 1 .. m \/ \E j \in 1 .. n : i = m + j
  <2>1. i > m => i - m \in 1 .. n /\ i = m + (i - m)
    OBVIOUS
  <2>2. i <= m => i \in 1 .. m
    OBVIOUS
  <2> QED BY <2>1, <2>2
<1> HIDE DEF u
<1>6. Follow(u, s, t)
  BY <1>1, <1>2, <1>3, <1>4, <1>5 DEF Follow
<1> QED BY <1>6 DEF u

\* A header field that a client writes.
WrittenFields == Lacking({":", "CR", "LF"}) \X Value

\* The texts that the module writes down.
LEMMA LettersSeq ==
  /\ Seq(STRING) \subseteq Texts /\ Seq(Blank) \subseteq Texts
  /\ "CR" \in Letters /\ "LF" \in Letters /\ ":" \in Letters /\ " " \in Letters
  /\ CRLF \in Texts /\ <<"CR">> \in Texts /\ <<"CR">> \in Seq(Blank)
  /\ <<" ">> \in Texts /\ <<" ">> \in Seq(Blank) /\ <<":">> \in Texts
  /\ <<":", " ">> \in Texts /\ <<>> \in Texts /\ <<>> \in Seq(Blank) /\ <<"LF">> \in Texts
<1>1. STRING \subseteq Letters /\ Blank \subseteq Letters
  BY DEF Letters
<1>2. "CR" \in Letters /\ "LF" \in Letters /\ ":" \in Letters /\ " " \in Letters
  BY DEF Letters, Blank
<1>3. "CR" \in Blank /\ " " \in Blank
  BY DEF Blank
<1>4. ASSUME NEW X, NEW c \in X, NEW d \in X
      PROVE  <<>> \in Seq(X) /\ <<c>> \in Seq(X) /\ <<c, d>> \in Seq(X)
  OBVIOUS
<1>5. Seq(STRING) \subseteq Texts /\ Seq(Blank) \subseteq Texts
  BY <1>1, SeqMonotonic DEF Texts
<1>6. /\ <<"CR", "LF">> \in Texts /\ <<"CR">> \in Texts /\ <<" ">> \in Texts /\ <<":">> \in Texts
      /\ <<":", " ">> \in Texts /\ <<>> \in Texts /\ <<"LF">> \in Texts
  BY <1>2, <1>4 DEF Texts
<1>7. <<"CR">> \in Seq(Blank) /\ <<" ">> \in Seq(Blank) /\ <<>> \in Seq(Blank)
  BY <1>3, <1>4
<1> QED BY <1>2, <1>5, <1>6, <1>7 DEF CRLF

\* The key and the value of a field, and the bytes they do not have.
LEMMA FieldTyped ==
  ASSUME NEW f \in WrittenFields
  PROVE  /\ f[1] \in Texts /\ f[2] \in Texts /\ f[2] \in Value
         /\ \A i \in 1 .. Len(f[1]) : f[1][i] \notin {":", "CR", "LF"}
         /\ \A i \in 1 .. Len(f[2]) : f[2][i] \notin {"CR", "LF"}
         /\ Len(f[1]) \in Nat /\ Len(f[2]) \in Nat
<1>1. f[1] \in Lacking({":", "CR", "LF"}) /\ f[2] \in Value
  BY DEF WrittenFields
<1>2. f[2] \in Lacking({"CR", "LF"})
  BY <1>1 DEF Value
<1>3. f[1] \in Seq(STRING) /\ f[2] \in Seq(STRING)
  BY <1>1, <1>2 DEF Lacking
<1>4. DOMAIN f[1] = 1 .. Len(f[1]) /\ DOMAIN f[2] = 1 .. Len(f[2])
  BY <1>3
<1>5. /\ \A i \in 1 .. Len(f[1]) : f[1][i] \notin {":", "CR", "LF"}
      /\ \A i \in 1 .. Len(f[2]) : f[2][i] \notin {"CR", "LF"}
  BY <1>1, <1>2, <1>4 DEF Lacking
<1>6. f[1] \in Texts /\ f[2] \in Texts
  BY <1>3, LettersSeq
<1>7. Len(f[1]) \in Nat /\ Len(f[2]) \in Nat
  BY <1>3
<1> QED BY <1>1, <1>5, <1>6, <1>7

\* A field's line, of no byte that ends a line.
LEMMA FieldLineTyped ==
  ASSUME NEW f \in WrittenFields
  PROVE  /\ FieldLine(f) \in Texts /\ Len(FieldLine(f)) \in Nat \ {0}
         /\ \A i \in 1 .. Len(FieldLine(f)) : FieldLine(f)[i] \notin {"CR", "LF"}
<1> DEFINE k == f[1]
           v == f[2]
           c == <<":", " ">>
<1>1. k \in Texts /\ v \in Texts /\ c \in Texts
  BY FieldTyped, LettersSeq
<1>2. /\ \A i \in 1 .. Len(k) : k[i] \notin {"CR", "LF"}
      /\ \A i \in 1 .. Len(v) : v[i] \notin {"CR", "LF"}
  BY FieldTyped
<1>3. Len(c) = 2 /\ \A i \in 1 .. Len(c) : c[i] \notin {"CR", "LF"}
  <2>1. Len(c) = 2 /\ c[1] = ":" /\ c[2] = " "
    OBVIOUS
  <2> HIDE DEF c
  <2>2. \A i \in 1 .. 2 : i = 1 \/ i = 2
    OBVIOUS
  <2> QED BY <2>1, <2>2
<1> HIDE DEF k, v, c
<1> DEFINE a == k \o c
           l == a \o v
<1>4. Follow(a, k, c) /\ a \in Texts
  BY <1>1, TextAt, TextConcat
<1>5. Follow(l, a, v) /\ l \in Texts
  BY <1>1, <1>4, TextAt, TextConcat
<1> HIDE DEF a, l
<1>6. \A i \in 1 .. Len(a) : a[i] \notin {"CR", "LF"}
  BY <1>2, <1>3, <1>4 DEF Follow
<1>7. \A i \in 1 .. Len(l) : l[i] \notin {"CR", "LF"}
  BY <1>2, <1>5, <1>6 DEF Follow
<1>8. Len(l) \in Nat \ {0}
  <2>1. Len(k) \in Nat /\ Len(v) \in Nat
    BY <1>1, TextIs
  <2> QED BY <1>3, <1>4, <1>5, <2>1 DEF Follow
<1>9. FieldLine(f) = l
  BY DEF FieldLine, a, l, k, v, c
<1> QED BY <1>5, <1>7, <1>8, <1>9

\* The byte pair after a key.
LEMMA PairIs ==
  ASSUME NEW X, NEW c \in X, NEW d \in X PROVE <<c, d>> = <<c>> \o <<d>>
<1>1. /\ <<c, d>> \in Seq(X) /\ Len(<<c, d>>) = 2 /\ <<c, d>>[1] = c /\ <<c, d>>[2] = d
      /\ <<c>> \in Seq(X) /\ Len(<<c>>) = 1 /\ <<c>>[1] = c
  OBVIOUS
<1> DEFINE s == <<c>>
           u == <<c, d>>
<1>2. /\ Append(s, d) \in Seq(X) /\ Len(Append(s, d)) = 2 /\ Append(s, d)[1] = c
      /\ Append(s, d)[2] = d /\ Append(s, d) = s \o <<d>>
  <2> HIDE DEF s
  <2>1. s \in Seq(X) /\ Len(s) = 1 /\ s[1] = c
    BY <1>1 DEF s
  <2>2. 1 \in 1 .. Len(s) /\ Len(s) + 1 = 2
    BY <2>1
  <2>3. Append(s, d) \in Seq(X) /\ Len(Append(s, d)) = Len(s) + 1
    BY <2>1, AppendProperties
  <2>4. Append(s, d) = s \o <<d>>
    BY <2>1, AppendIsConcat
  <2>5. Append(s, d)[1] = c /\ Append(s, d)[2] = d
    <3>1. Append(s, d)[Len(s) + 1] = d
      BY <2>1, AppendProperties
    <3>2. \A i \in 1 .. Len(s) : Append(s, d)[i] = s[i]
      BY <2>1, AppendProperties
    <3> QED BY <2>1, <2>2, <3>1, <3>2
  <2> QED BY <2>1, <2>3, <2>4, <2>5
<1>3. Append(s, d) = u
  <2> DEFINE a == Append(s, d)
  <2>1. a \in Seq(X) /\ u \in Seq(X) /\ Len(a) = Len(u) /\ \A i \in 1 .. Len(a) : a[i] = u[i]
    <3>1. \A i \in 1 .. 2 : i = 1 \/ i = 2
      OBVIOUS
    <3> HIDE DEF a, u
    <3>2. a \in Seq(X) /\ u \in Seq(X) /\ Len(a) = 2 /\ Len(u) = 2
      BY <1>1, <1>2 DEF a, u
    <3>3. a[1] = u[1] /\ a[2] = u[2]
      BY <1>1, <1>2 DEF a, u
    <3> QED BY <3>1, <3>2, <3>3
  <2> HIDE DEF a, u
  <2>2. a = u
    BY <2>1, SeqEqual
  <2> QED BY <2>2 DEF a
<1> QED BY <1>2, <1>3

\* The line of a field is cut at the colon.
LEMMA LineIs ==
  ASSUME NEW f \in WrittenFields, NEW z, z \in Texts
  PROVE  FieldLine(f) \o z = (f[1] \o <<":">>) \o ((<<" ">> \o f[2]) \o z)
<1>1. PICK k, a, b, v : k = f[1] /\ a = <<":">> /\ b = <<" ">> /\ v = f[2]
  OBVIOUS
<1>2. k \in Texts /\ v \in Texts /\ a \in Texts /\ b \in Texts
  BY <1>1, FieldTyped, LettersSeq
<1>3. FieldLine(f) = (k \o (a \o b)) \o v
  BY <1>1, LettersSeq, PairIs DEF FieldLine
<1>4. Regroups(k, a, b, v, z)
  BY <1>2, TextRegrouped
<1>5. ((k \o (a \o b)) \o v) \o z = (k \o a) \o ((b \o v) \o z)
  BY <1>4 DEF Regroups
<1> QED BY <1>1, <1>3, <1>5

\* The map with a field put into it.
Put(h, f) == [key \in DOMAIN h \cup {Key(f)} |-> IF key = Key(f) THEN f[2] ELSE h[key]]

\* The field that is written on a line is put into the map.
LEMMA LineInserted ==
  ASSUME NEW f \in WrittenFields, NEW after \in {<<>>, <<"CR">>}, NEW h
  PROVE  Inserted(h, FieldLine(f) \o after) = Put(h, f)
<1> DEFINE k == f[1]
           v == f[2]
           rest == <<" ">> \o v \o after
           l == (k \o <<":">>) \o rest
<1>1. /\ k \in Texts /\ v \in Texts /\ after \in Texts /\ after \in Seq(Blank)
      /\ \A i \in 1 .. Len(k) : k[i] # ":"
  BY FieldTyped, LettersSeq
<1>2. FieldLine(f) \o after = l
  BY <1>1, LineIs
<1>2a. k \in Texts /\ v \in Texts /\ after \in Texts
  BY <1>1
<1> HIDE DEF k, v
<1>3. /\ rest \in Texts /\ k \o <<":">> \in Texts /\ Len(k \o <<":">>) = Len(k) + 1
      /\ Len(k) \in Nat
      /\ \A i \in 1 .. Len(k) : (k \o <<":">>)[i] = k[i]
      /\ (k \o <<":">>)[Len(k) + 1] = ":"
  <2> DEFINE a == <<":">>
             b == <<" ">>
  <2>1. Len(a) = 1 /\ a[1] = ":" /\ a \in Texts /\ b \in Texts
    BY LettersSeq
  <2> HIDE DEF a, b
  <2>2. b \o v \in Texts
    BY <1>2a, <2>1, TextConcat
  <2>3. rest \in Texts
    BY <1>2a, <2>2, TextConcat DEF b
  <2> DEFINE ka == k \o a
  <2>5. Follow(ka, k, a)
    BY <1>2a, <2>1, TextAt
  <2>6. Len(k) \in Nat
    BY <1>2a, TextIs
  <2> HIDE DEF ka
  <2>7. /\ ka \in Texts /\ Len(ka) = Len(k) + 1 /\ ka[Len(k) + 1] = ":"
        /\ \A i \in 1 .. Len(k) : ka[i] = k[i]
    BY <2>1, <2>5 DEF Follow
  <2> QED BY <2>3, <2>6, <2>7 DEF a, ka
<1> HIDE DEF rest
<1>4. /\ l \in Texts /\ Len(l) = Len(k) + 1 + Len(rest)
      /\ \A i \in 1 .. Len(k) : l[i] = k[i]
      /\ l[Len(k) + 1] = ":"
      /\ Len(rest) \in Nat /\ DOMAIN l = 1 .. Len(l)
  <2> DEFINE ka == k \o <<":">>
  <2>1. /\ ka \in Texts /\ Len(ka) = Len(k) + 1 /\ \A i \in 1 .. Len(k) : ka[i] = k[i]
        /\ ka[Len(k) + 1] = ":"
    BY <1>3
  <2> HIDE DEF ka
  <2>2. Follow(ka \o rest, ka, rest)
    BY <1>3, <2>1, TextAt
  <2>3. Len(rest) \in Nat /\ ka \o rest \in Texts
    BY <1>3, <2>1, TextIs, TextConcat
  <2> DEFINE kar == ka \o rest
  <2> HIDE DEF kar
  <2>4. DOMAIN kar = 1 .. Len(kar)
    BY <2>3, TextIs DEF kar
  <2>5. Follow(kar, ka, rest) /\ Len(k) + 1 \in 1 .. Len(ka) /\ \A i \in 1 .. Len(k) : i \in 1 .. Len(ka)
    BY <1>3, <2>1, <2>2 DEF kar
  <2>6. /\ kar \in Texts /\ Len(kar) = Len(k) + 1 + Len(rest)
        /\ kar[Len(k) + 1] = ":" /\ \A i \in 1 .. Len(k) : kar[i] = k[i]
    BY <2>1, <2>5 DEF Follow
  <2> QED BY <2>3, <2>4, <2>6 DEF ka, kar
<1> DEFINE colons == {i \in DOMAIN l : l[i] = ":"}
<1>5. Colon(l) = Len(k) + 1
  <2> HIDE DEF l
  <2>1. Len(k) + 1 \in colons /\ colons \subseteq Int
    BY <1>3, <1>4
  <2>2. \A i \in colons : Len(k) + 1 <= i
    BY <1>1, <1>3, <1>4
  <2>3. Min(colons) = Len(k) + 1
    <3> HIDE DEF colons
    <3> QED BY <2>1, <2>2, MinIs
  <2> QED BY <2>3 DEF Colon
<1>6. ":" \in ToSet(l)
  <2> HIDE DEF l
  <2>1. Len(k) + 1 \in DOMAIN l /\ l[Len(k) + 1] = ":"
    BY <1>3, <1>4
  <2> QED BY <2>1 DEF ToSet
<1>7. SubSeq(l, 1, Colon(l) - 1) = k
  <2> DEFINE a == <<":">>
  <2>0. a \in Texts
    BY LettersSeq
  <2> HIDE DEF a
  <2>1. a \o rest \in Texts /\ (k \o a) \o rest = k \o (a \o rest)
    <3>1. k \in Texts /\ rest \in Texts
      BY <1>2a, <1>3
    <3> QED BY <2>0, <3>1, TextConcat, TextAssociative
  <2>2. Colon(l) - 1 = Len(k)
    BY <1>3, <1>5
  <2>3. SubSeq(k \o (a \o rest), 1, Len(k)) = k
    BY <1>2a, <2>1, PartsOfConcat DEF Texts
  <2> QED BY <2>1, <2>2, <2>3 DEF a
<1>8. SubSeq(l, Colon(l) + 1, Len(l)) = rest
  <2>1. SubSeq(l, Len(k \o <<":">>) + 1, Len(l)) = rest
    BY <1>3, PartsOfConcat DEF Texts
  <2> HIDE DEF l
  <2> QED BY <1>3, <1>5, <2>1
<1>9. Trimmed(rest) = v
  <2>1. v \in Value /\ <<" ">> \in Seq(Blank)
    BY FieldTyped, LettersSeq DEF v
  <2> QED BY <1>1, <2>1, TrimmedValue DEF rest
<1> HIDE DEF l
<1>10. Lowered(Trimmed(SubSeq(l, 1, Colon(l) - 1))) = Key(f)
  BY <1>7 DEF Key, k
<1> QED BY <1>2, <1>6, <1>8, <1>9, <1>10 DEF Inserted, Put, v

-----------------------------------------------------------------------------
(* The map of the header fields. *)

\* A set of numbers up to n has a greatest.
LEMMA GreatestOf ==
  ASSUME NEW n \in Nat, NEW S \in SUBSET (1 .. n), S # {}
  PROVE  \E x \in S : \A y \in S : y <= x
<1> DEFINE T == {n - x : x \in S}
<1>1. T \in SUBSET Nat /\ T # {}
  <2>1. \A x \in S : x \in Int /\ x <= n /\ n - x \in Nat
    OBVIOUS
  <2> QED BY <2>1
<1>2. PICK t \in T : \A u \in T : t <= u
  <2> HIDE DEF T
  <2> QED BY <1>1, LeastOf
<1>3. PICK x \in S : t = n - x
  OBVIOUS
<1>4. ASSUME NEW y \in S PROVE y <= x
  <2>1. n - y \in T
    OBVIOUS
  <2>2. n - x <= n - y
    BY <1>2, <1>3, <2>1
  <2> QED BY <2>2
<1> QED BY <1>4

\* No fields make no map.
LEMMA FieldsNone == Fields(<<>>) = [key \in {} |-> <<>>]
<1>1. DOMAIN <<>> = {}
  OBVIOUS
<1>2. {Key(<<>>[i]) : i \in DOMAIN <<>>} = {}
  BY <1>1
<1> QED BY <1>2 DEF Fields

\* Where a key is.
At(fields, key) == {i \in DOMAIN fields : Key(fields[i]) = key}

\* The map that is meant, with At.
LEMMA FieldsAre ==
  ASSUME NEW fields
  PROVE  Fields(fields) = [key \in {Key(fields[i]) : i \in DOMAIN fields} |->
                             fields[Max(At(fields, key))][2]]
BY DEF Fields, At

\* A field more replaces the value of its key.
LEMMA FieldsAppend ==
  ASSUME NEW X, NEW fields \in Seq(X), NEW f \in X
  PROVE  Fields(Append(fields, f)) = Put(Fields(fields), f)
<1> DEFINE longer == Append(fields, f)
           keys == {Key(fields[i]) : i \in DOMAIN fields}
<1>1. PICK n \in Nat : n = Len(fields)
  OBVIOUS
<1>2. /\ DOMAIN fields = 1 .. n /\ DOMAIN longer = 1 .. n + 1 /\ longer[n + 1] = f
      /\ \A i \in 1 .. n : longer[i] = fields[i]
  <2>1. longer \in Seq(X) /\ Len(longer) = n + 1
    BY <1>1, AppendProperties
  <2>2. DOMAIN fields = 1 .. n /\ DOMAIN longer = 1 .. n + 1
    BY <1>1, <2>1, LenProperties
  <2> QED BY <1>1, <2>2, AppendProperties
<1> HIDE DEF longer
<1>3. DOMAIN Fields(fields) = keys
  BY FieldsAre
<1>4. {Key(longer[i]) : i \in DOMAIN longer} = keys \cup {Key(f)}
  <2>1. \A i \in 1 .. n + 1 : i \in 1 .. n \/ i = n + 1
    OBVIOUS
  <2>2. n + 1 \in 1 .. n + 1 /\ \A i \in 1 .. n : i \in 1 .. n + 1
    OBVIOUS
  <2> QED BY <1>2, <2>1, <2>2
<1>5. longer[Max(At(longer, Key(f)))] = f
  <2> DEFINE S == At(longer, Key(f))
  <2>1. n + 1 \in S /\ S \subseteq Int /\ \A i \in S : i <= n + 1
    BY <1>2 DEF At
  <2> HIDE DEF S
  <2>2. Max(S) = n + 1
    BY <2>1, MaxIs
  <2> QED BY <1>2, <2>2 DEF S
<1>6. ASSUME NEW key \in keys, key # Key(f)
      PROVE  longer[Max(At(longer, key))] = fields[Max(At(fields, key))]
  <2> DEFINE S == At(fields, key)
  <2>1. At(longer, key) = S
    <3>1. \A i \in 1 .. n + 1 : i \in 1 .. n \/ i = n + 1
      OBVIOUS
    <3>2. \A i \in 1 .. n : i \in 1 .. n + 1
      OBVIOUS
    <3> QED BY <1>2, <1>6, <3>1, <3>2 DEF At
  <2>2. S \in SUBSET (1 .. n) /\ S # {}
    BY <1>2 DEF At
  <2> HIDE DEF S
  <2>3. PICK m \in S : \A y \in S : y <= m
    BY <2>2, GreatestOf
  <2>4. Max(S) = m /\ m \in 1 .. n
    <3>1. S \subseteq Int /\ \A i \in S : i <= m
      BY <2>2, <2>3
    <3> QED BY <2>2, <3>1, MaxIs
  <2> QED BY <1>2, <2>1, <2>4 DEF S
<1>7. Fields(longer) = [key \in keys \cup {Key(f)} |-> longer[Max(At(longer, key))][2]]
  BY <1>4, FieldsAre
<1>8. \A key \in keys : Fields(fields)[key] = fields[Max(At(fields, key))][2]
  BY FieldsAre
<1>9. \A key \in keys \cup {Key(f)} :
        longer[Max(At(longer, key))][2] = IF key = Key(f) THEN f[2] ELSE Fields(fields)[key]
  <2> HIDE DEF keys
  <2> TAKE key \in keys \cup {Key(f)}
  <2>1. CASE key = Key(f)
    BY <1>5, <2>1
  <2>2. CASE key # Key(f)
    BY <1>6, <1>8, <2>2
  <2> QED BY <2>1, <2>2
<1>10. Fields(longer) = [key \in keys \cup {Key(f)} |->
                           IF key = Key(f) THEN f[2] ELSE Fields(fields)[key]]
  <2> HIDE DEF keys
  <2> QED BY <1>7, <1>9
<1> HIDE DEF keys
<1> QED BY <1>3, <1>10 DEF longer, Put

-----------------------------------------------------------------------------
(* Lines. *)

\* A function of the elements of a sequence.
Image(g, s) == [i \in DOMAIN s |-> g[s[i]]]

\* The image of a sequence is a sequence.
LEMMA ImageIs ==
  ASSUME NEW X, NEW Y, NEW g \in [X -> Y], NEW s \in Seq(X)
  PROVE  Image(g, s) \in Seq(Y) /\ Len(Image(g, s)) = Len(s)
<1>1. PICK n \in Nat : n = Len(s) /\ DOMAIN s = 1 .. n
  OBVIOUS
<1>2. Image(g, s) = [i \in 1 .. n |-> g[s[i]]] /\ \A i \in 1 .. n : g[s[i]] \in Y
  BY <1>1 DEF Image
<1>3. Image(g, s) \in [1 .. n -> Y]
  BY <1>2
<1>4. Image(g, s) \in Seq(Y) /\ DOMAIN Image(g, s) = 1 .. n
  BY <1>3
<1>5. Len(Image(g, s)) = n
  <2>1. Len(Image(g, s)) \in Nat /\ DOMAIN Image(g, s) = 1 .. Len(Image(g, s))
    BY <1>4, LenProperties
  <2> QED BY <1>4, <2>1
<1> QED BY <1>1, <1>4, <1>5

\* One more element has one more image.
LEMMA ImageAppend ==
  ASSUME NEW X, NEW Y, NEW g \in [X -> Y], NEW s \in Seq(X), NEW e \in X
  PROVE  Image(g, Append(s, e)) = Append(Image(g, s), g[e])
<1> DEFINE longer == Append(s, e)
           a == Image(g, longer)
           b == Append(Image(g, s), g[e])
<1>1. /\ longer \in Seq(X) /\ Len(longer) = Len(s) + 1 /\ longer[Len(s) + 1] = e
      /\ \A i \in 1 .. Len(s) : longer[i] = s[i]
      /\ Len(s) \in Nat /\ DOMAIN s = 1 .. Len(s) /\ DOMAIN longer = 1 .. Len(s) + 1
  BY AppendProperties, LenProperties
<1> HIDE DEF longer
<1>2. a \in Seq(Y) /\ Len(a) = Len(s) + 1 /\ Image(g, s) \in Seq(Y) /\ Len(Image(g, s)) = Len(s)
  BY <1>1, ImageIs
<1>3. g[e] \in Y
  OBVIOUS
<1>4. /\ b \in Seq(Y) /\ Len(b) = Len(s) + 1 /\ b[Len(s) + 1] = g[e]
      /\ \A i \in 1 .. Len(s) : b[i] = Image(g, s)[i]
  BY <1>2, <1>3, AppendProperties
<1>5. /\ a[Len(s) + 1] = g[e] /\ \A i \in 1 .. Len(s) : a[i] = g[s[i]] /\ Image(g, s)[i] = g[s[i]]
  BY <1>1 DEF Image
<1> HIDE DEF a, b
<1>6. \A i \in 1 .. Len(a) : a[i] = b[i]
  <2>1. \A i \in 1 .. Len(s) + 1 : i \in 1 .. Len(s) \/ i = Len(s) + 1
    BY <1>1
  <2> QED BY <1>2, <1>4, <1>5, <2>1
<1>7. a = b
  BY <1>2, <1>4, <1>6, SeqEqual
<1> QED BY <1>7 DEF a, b, longer

\* The image of nothing is nothing.
LEMMA ImageEmpty == ASSUME NEW g PROVE Image(g, <<>>) = <<>>
BY DEF Image

\* The line of a field, and as split cuts it.
Ended == [f \in WrittenFields |-> FieldLine(f) \o CRLF]
CutLine == [f \in WrittenFields |-> FieldLine(f) \o <<"CR">>]

\* Both are functions from fields to texts.
LEMMA LinesTyped == Ended \in [WrittenFields -> Texts] /\ CutLine \in [WrittenFields -> Texts]
<1>1. \A f \in WrittenFields : FieldLine(f) \o CRLF \in Texts /\ FieldLine(f) \o <<"CR">> \in Texts
  BY FieldLineTyped, LettersSeq, TextConcat
<1> QED BY <1>1 DEF Ended, CutLine

\* The lines of the fields, joined.
LEMMA FieldLinesAre ==
  ASSUME NEW fields \in Seq(WrittenFields) PROVE FieldLines(fields) = Joined(Image(Ended, fields))
<1>1. \A i \in DOMAIN fields : Ended[fields[i]] = FieldLine(fields[i]) \o CRLF
  BY DEF Ended
<1> QED BY <1>1 DEF FieldLines, Image

\* No fields have no lines.
LEMMA FieldLinesEmpty == FieldLines(<<>>) = <<>>
<1>1. <<>> \in Seq(WrittenFields)
  OBVIOUS
<1> QED BY <1>1, FieldLinesAre, ImageEmpty, JoinedEmpty

\* They are a text.
LEMMA FieldLinesTexts == ASSUME NEW fields \in Seq(WrittenFields) PROVE FieldLines(fields) \in Texts
<1>1. Image(Ended, fields) \in Seq(Seq(Letters))
  BY LinesTyped, ImageIs DEF Texts
<1>2. Joined(Image(Ended, fields)) \in Texts
  BY <1>1, JoinedSeq DEF Texts
<1> QED BY <1>2, FieldLinesAre

\* One more field is one more line.
LEMMA FieldLinesAppend ==
  ASSUME NEW fields \in Seq(WrittenFields), NEW f \in WrittenFields
  PROVE  /\ FieldLines(fields) \in Texts
         /\ FieldLines(Append(fields, f)) = FieldLines(fields) \o (FieldLine(f) \o CRLF)
<1>1. Append(fields, f) \in Seq(WrittenFields)
  BY AppendProperties
<1>2. Image(Ended, Append(fields, f)) = Append(Image(Ended, fields), Ended[f])
  BY LinesTyped, ImageAppend
<1>3. Image(Ended, fields) \in Seq(Seq(Letters)) /\ Ended[f] \in Seq(Letters)
  BY LinesTyped, ImageIs DEF Texts
<1>4. Joined(Append(Image(Ended, fields), Ended[f])) = Joined(Image(Ended, fields)) \o Ended[f]
  BY <1>3, JoinedAppend
<1>5. Joined(Image(Ended, fields)) \in Texts
  BY <1>3, JoinedSeq DEF Texts
<1>6. Ended[f] = FieldLine(f) \o CRLF
  BY DEF Ended
<1> QED BY <1>1, <1>2, <1>4, <1>5, <1>6, FieldLinesAre

\* Fields that are read line by line make the map that is meant.
LEMMA HeadersOnLines ==
  \A fields \in Seq(WrittenFields) : HeadersOn(Image(CutLine, fields)) = Fields(fields)
<1> DEFINE Good == {fields \in Seq(WrittenFields) :
                      HeadersOn(Image(CutLine, fields)) = Fields(fields)}
<1>1. <<>> \in Good
  BY ImageEmpty, HeadersOnNone, FieldsNone, EmptySeq
<1>2. ASSUME NEW fields \in Seq(WrittenFields), NEW f \in WrittenFields, fields \in Good
      PROVE  Append(fields, f) \in Good
  <2>1. Append(fields, f) \in Seq(WrittenFields)
    BY AppendProperties
  <2>2. Image(CutLine, Append(fields, f)) = Append(Image(CutLine, fields), CutLine[f])
    BY LinesTyped, ImageAppend
  <2>3. Image(CutLine, fields) \in Seq(Texts) /\ CutLine[f] \in Texts
    BY LinesTyped, ImageIs
  <2>4. HeadersOn(Append(Image(CutLine, fields), CutLine[f])) = Inserted(Fields(fields), CutLine[f])
    BY <1>2, <2>3, HeadersOnAppend
  <2>5. Inserted(Fields(fields), FieldLine(f) \o <<"CR">>) = Fields(Append(fields, f))
    <3>1. <<"CR">> \in {<<>>, <<"CR">>}
      OBVIOUS
    <3>2. Inserted(Fields(fields), FieldLine(f) \o <<"CR">>) = Put(Fields(fields), f)
      BY <3>1, LineInserted
    <3>3. Fields(Append(fields, f)) = Put(Fields(fields), f)
      BY FieldsAppend
    <3> QED BY <3>2, <3>3
  <2>6. CutLine[f] = FieldLine(f) \o <<"CR">>
    BY DEF CutLine
  <2> QED BY <2>1, <2>2, <2>4, <2>5, <2>6
<1>3. Seq(WrittenFields) \subseteq Good
  <2> HIDE DEF Good
  <2> QED BY <1>1, <1>2, SeqInduction
<1> QED BY <1>3

\* A text and a piece after it, split.
Lengthens(s, piece, separators) ==
  Split(s \o piece, separators) =
    Append(Front(Split(s, separators)), Last(Split(s, separators)) \o piece)

\* Bytes that are no separators make the last piece longer (SplitMore).
LEMMA SplitLonger ==
  ASSUME NEW s, NEW piece, NEW separators, s \in Texts, piece \in Texts,
         \A i \in 1 .. Len(piece) : piece[i] \notin separators
  PROVE  Lengthens(s, piece, separators)
<1>1. piece \in Seq(Letters) /\ s \in Seq(Letters) /\ DOMAIN piece = 1 .. Len(piece)
  BY TextIs DEF Texts
<1>2. \A i \in DOMAIN piece : piece[i] \notin separators
  BY <1>1
<1>3. \A p \in Seq(Letters) : (\A i \in DOMAIN p : p[i] \notin separators) =>
        Lengthens(s, p, separators)
  BY <1>1, SplitMore DEF Lengthens
<1> QED BY <1>1, <1>2, <1>3

\* A text and a byte after it, split.
CutAt(s, c, separators) ==
  Split(Append(s, c), separators) = Cut(Split(s, separators), c, separators)

\* One more byte cuts the pieces (SplitAppend).
LEMMA SplitOn ==
  ASSUME NEW s, NEW c, NEW separators, s \in Texts, c \in Letters
  PROVE  CutAt(s, c, separators) /\ Split(s, separators) \in Pieces(Letters)
<1>1. s \in Seq(Letters)
  BY DEF Texts
<1>2. \A d \in Letters : CutAt(s, d, separators) /\ Split(s, separators) \in Pieces(Letters)
  BY <1>1, SplitAppend DEF CutAt
<1> QED BY <1>2

\* A piece after a separator, or a longer one.
LEMMA SplitAfter ==
  ASSUME NEW s \in Texts, NEW c \in Letters, NEW separators, c \in separators,
         NEW piece \in Texts, \A i \in 1 .. Len(piece) : piece[i] \notin separators
  PROVE  Split(Append(s, c) \o piece, separators) = Append(Split(s, separators), piece)
<1> DEFINE pieces == Split(s, separators)
<1>1. pieces \in Pieces(Letters) /\ CutAt(s, c, separators)
  BY SplitOn
<1>2. Split(Append(s, c), separators) = Append(pieces, <<>>)
  BY <1>1 DEF CutAt, Cut
<1>3. Append(s, c) \in Texts /\ pieces \in Seq(Texts)
  BY <1>1, AppendProperties DEF Texts, Pieces
<1> HIDE DEF pieces
<1>4. Front(Append(pieces, <<>>)) = pieces /\ Last(Append(pieces, <<>>)) = <<>>
  BY <1>3, LettersSeq, FrontOfAppend
<1>5. <<>> \o piece = piece
  BY ConcatEmptySeq DEF Texts
<1>6. Lengthens(Append(s, c), piece, separators)
  BY <1>3, SplitLonger
<1> QED BY <1>2, <1>4, <1>5, <1>6 DEF pieces, Lengthens

\* A text without separators is one piece.
LEMMA SplitOne ==
  ASSUME NEW separators, NEW piece \in Texts, \A i \in 1 .. Len(piece) : piece[i] \notin separators
  PROVE  Split(piece, separators) = <<piece>>
<1>1. <<>> \in Texts /\ <<>> \o piece = piece
  BY LettersSeq, ConcatEmptySeq DEF Texts
<1>2. Lengthens(<<>>, piece, separators)
  BY <1>1, SplitLonger
<1>3. Front(<< <<>> >>) = <<>> /\ Last(<< <<>> >>) = <<>>
  <2>1. Append(<<>>, <<>>) = << <<>> >>
    OBVIOUS
  <2>2. <<>> \in Seq(Texts) /\ <<>> \in Texts
    BY LettersSeq, EmptySeq
  <2>3. Front(Append(<<>>, <<>>)) = <<>> /\ Last(Append(<<>>, <<>>)) = <<>>
    BY <2>2, FrontOfAppend
  <2> QED BY <2>1, <2>3
<1>4. Append(<<>>, piece) = <<piece>>
  OBVIOUS
<1>5. Split(<<>>, separators) = << <<>> >>
  BY SplitEmpty
<1> QED BY <1>1, <1>2, <1>3, <1>4, <1>5 DEF Lengthens

-----------------------------------------------------------------------------
(* The header lines, split. *)

\* Such a line has no line feed, and with one it is the line.
LEMMA CutLinePiece ==
  ASSUME NEW f \in WrittenFields
  PROVE  /\ CutLine[f] \in Texts /\ \A i \in 1 .. Len(CutLine[f]) : CutLine[f][i] \notin {"LF"}
         /\ Ended[f] = Append(CutLine[f], "LF")
<1> DEFINE l == FieldLine(f)
           c == <<"CR">>
           d == <<"LF">>
<1>1. l \in Texts /\ \A i \in 1 .. Len(l) : l[i] \notin {"CR", "LF"}
  BY FieldLineTyped
<1>2. c \in Texts /\ d \in Texts /\ Len(c) = 1 /\ c[1] = "CR"
  <2>1. d \in Texts
    BY LettersSeq
  <2> QED BY <2>1, LettersSeq
<1>3. CutLine[f] = l \o c /\ Ended[f] = l \o CRLF
  BY DEF CutLine, Ended
<1>4. CRLF = c \o d
  BY LettersSeq, PairIs DEF CRLF
<1> HIDE DEF l, c
<1>5. l \o c \in Texts /\ Follow(l \o c, l, c)
  BY <1>1, <1>2, TextAt, TextConcat
<1> DEFINE lc == l \o c
<1> HIDE DEF lc
<1>6. \A i \in 1 .. Len(lc) : lc[i] \notin {"LF"}
  <2>1. Follow(lc, l, c)
    BY <1>5 DEF lc
  <2>2. \A i \in 1 .. Len(c) : c[i] \notin {"LF"}
    <3>1. \A i \in 1 .. 1 : i = 1
      OBVIOUS
    <3> QED BY <1>2, <3>1
  <2> QED BY <1>1, <2>1, <2>2 DEF Follow
<1>7. (l \o c) \o d = l \o (c \o d)
  BY <1>1, <1>2, TextAssociative
<1>8. Append(lc, "LF") = lc \o d
  BY <1>5, LettersSeq, AppendIsConcat DEF lc, Texts
<1> QED BY <1>3, <1>4, <1>5, <1>6, <1>7, <1>8 DEF lc

\* Cut at the line feeds, the lines of the fields are pieces, and nothing comes after.
LEMMA SplitFieldLines ==
  \A fields \in Seq(WrittenFields) :
    Split(FieldLines(fields), {"LF"}) = Append(Image(CutLine, fields), <<>>)
<1> DEFINE Good == {fields \in Seq(WrittenFields) :
                      Split(FieldLines(fields), {"LF"}) = Append(Image(CutLine, fields), <<>>)}
<1>1. <<>> \in Good
  <2>1. Append(<<>>, <<>>) = << <<>> >> /\ <<>> \in Seq(WrittenFields)
    OBVIOUS
  <2> QED BY <2>1, FieldLinesEmpty, ImageEmpty, SplitEmpty
<1>2. ASSUME NEW fields \in Seq(WrittenFields), NEW f \in WrittenFields, fields \in Good
      PROVE  Append(fields, f) \in Good
  <2>1. Append(fields, f) \in Seq(WrittenFields)
    BY AppendProperties
  <2>2. PICK s : s = FieldLines(fields)
    OBVIOUS
  <2>3. PICK p : p = CutLine[f]
    OBVIOUS
  <2>4. s \in Texts /\ FieldLines(Append(fields, f)) = s \o Ended[f]
    <3>1. Ended[f] = FieldLine(f) \o CRLF
      BY DEF Ended
    <3> QED BY <2>2, <3>1, FieldLinesAppend
  <2>5. p \in Texts /\ Ended[f] = Append(p, "LF") /\ \A i \in 1 .. Len(p) : p[i] \notin {"LF"}
    BY <2>3, CutLinePiece
  <2>6. s \o Append(p, "LF") = Append(s \o p, "LF") /\ s \o p \in Texts
    <3>1. s \in Seq(Letters) /\ p \in Seq(Letters) /\ "LF" \in Letters
      BY <2>4, <2>5, LettersSeq DEF Texts
    <3>2. s \o Append(p, "LF") = Append(s \o p, "LF")
      BY <3>1, AppendConcat
    <3> QED BY <2>4, <2>5, <3>2, TextConcat
  <2> DEFINE lines == Image(CutLine, fields)
  <2>7. lines \in Seq(Texts) /\ Split(s, {"LF"}) = Append(lines, <<>>)
    BY <1>2, <2>2, LinesTyped, ImageIs
  <2> HIDE DEF lines
  <2>8. Split(s \o p, {"LF"}) = Append(lines, p)
    <3>1. Front(Append(lines, <<>>)) = lines /\ Last(Append(lines, <<>>)) = <<>>
      BY <2>7, LettersSeq, FrontOfAppend
    <3>2. <<>> \o p = p
      BY <2>5, ConcatEmptySeq DEF Texts
    <3>3. Lengthens(s, p, {"LF"})
      BY <2>4, <2>5, SplitLonger
    <3> QED BY <2>7, <3>1, <3>2, <3>3 DEF Lengthens
  <2>9. Split(Append(s \o p, "LF"), {"LF"}) = Append(Split(s \o p, {"LF"}), <<>>)
    <3>1. "LF" \in Letters /\ "LF" \in {"LF"}
      BY LettersSeq
    <3>2. CutAt(s \o p, "LF", {"LF"})
      BY <2>6, <3>1, SplitOn
    <3> QED BY <3>1, <3>2 DEF Cut, CutAt
  <2>10. Image(CutLine, Append(fields, f)) = Append(lines, p)
    BY <2>3, LinesTyped, ImageAppend DEF lines
  <2> QED BY <2>1, <2>4, <2>5, <2>6, <2>8, <2>9, <2>10
<1>3. Seq(WrittenFields) \subseteq Good
  <2> HIDE DEF Good
  <2> QED BY <1>1, <1>2, SeqInduction
<1> QED BY <1>3

\* What is between the request line and the end of the headers is the map of the fields.
LEMMA HeadersAreRead ==
  ASSUME NEW fields \in Seq(WrittenFields), NEW f \in WrittenFields
  PROVE  HeadersIn(FieldLines(fields) \o FieldLine(f)) = Fields(Append(fields, f))
<1>1. PICK s : s = FieldLines(fields)
  OBVIOUS
<1>2. PICK p : p = FieldLine(f)
  OBVIOUS
<1>3. s \in Texts /\ p \in Texts /\ \A i \in 1 .. Len(p) : p[i] \notin {"LF"}
  BY <1>1, <1>2, FieldLinesAppend, FieldLineTyped
<1> DEFINE lines == Image(CutLine, fields)
<1>4. lines \in Seq(Texts) /\ Split(s, {"LF"}) = Append(lines, <<>>)
  BY <1>1, SplitFieldLines, LinesTyped, ImageIs
<1>5. HeadersOn(lines) = Fields(fields)
  BY HeadersOnLines
<1> HIDE DEF lines
<1>6. Split(s \o p, {"LF"}) = Append(lines, p)
  <2>1. Front(Append(lines, <<>>)) = lines /\ Last(Append(lines, <<>>)) = <<>>
    BY <1>4, LettersSeq, FrontOfAppend
  <2>2. <<>> \o p = p
    BY <1>3, ConcatEmptySeq DEF Texts
  <2>3. Lengthens(s, p, {"LF"})
    BY <1>3, SplitLonger
  <2> QED BY <1>4, <2>1, <2>2, <2>3 DEF Lengthens
<1>7. HeadersOn(Append(lines, p)) = Inserted(Fields(fields), p)
  BY <1>3, <1>4, <1>5, HeadersOnAppend
<1>8. Inserted(Fields(fields), p) = Put(Fields(fields), f)
  <2>1. <<>> \in {<<>>, <<"CR">>} /\ p \o <<>> = p
    BY <1>3, ConcatEmptySeq DEF Texts
  <2>2. Inserted(Fields(fields), FieldLine(f) \o <<>>) = Put(Fields(fields), f)
    BY <2>1, LineInserted
  <2> QED BY <1>2, <2>1, <2>2
<1> QED BY <1>1, <1>2, <1>6, <1>7, <1>8, FieldsAppend DEF HeadersIn

-----------------------------------------------------------------------------
(* The words of the request line. *)

\* A word is a text that is not empty and has no blank.
LEMMA TokenIs ==
  ASSUME NEW w \in Token
  PROVE  w \in Texts /\ w # <<>> /\ \A i \in 1 .. Len(w) : w[i] \notin Blank
<1>1. w \in Seq(STRING) /\ w # <<>> /\ \A i \in DOMAIN w : w[i] \notin Blank
  BY DEF Token, Lacking
<1>2. w \in Texts
  BY <1>1, LettersSeq
<1> QED BY <1>1, <1>2, TextIs

\* The words, each but the first with the space before it.
Spaced(words) == [i \in DOMAIN words |-> IF i = 1 THEN words[i] ELSE <<" ">> \o words[i]]

\* They are as many texts as words.
LEMMA SpacedIs ==
  ASSUME NEW words \in Seq(Token)
  PROVE  Spaced(words) \in Seq(Texts) /\ Len(Spaced(words)) = Len(words)
<1>1. PICK n \in Nat : n = Len(words) /\ DOMAIN words = 1 .. n
  OBVIOUS
<1>2. \A i \in 1 .. n : words[i] \in Texts /\ <<" ">> \o words[i] \in Texts
  <2> TAKE i \in 1 .. n
  <2>1. words[i] \in Token
    BY <1>1
  <2>2. words[i] \in Texts
    BY <2>1, TokenIs
  <2> QED BY <2>2, LettersSeq, TextConcat
<1>3. Spaced(words) \in [1 .. n -> Texts]
  BY <1>1, <1>2 DEF Spaced
<1>4. Spaced(words) \in Seq(Texts) /\ DOMAIN Spaced(words) = 1 .. n
  BY <1>3
<1>5. Len(Spaced(words)) = n
  <2>1. Len(Spaced(words)) \in Nat /\ DOMAIN Spaced(words) = 1 .. Len(Spaced(words))
    BY <1>4, LenProperties
  <2> QED BY <1>4, <2>1
<1> QED BY <1>1, <1>4, <1>5

\* The last word, with the blank before it.
LastOf(words, w) == IF words = <<>> THEN w ELSE <<" ">> \o w

\* One more word is one more of them.
LEMMA SpacedAppend ==
  ASSUME NEW words \in Seq(Token), NEW w \in Token
  PROVE  /\ Spaced(Append(words, w)) = Append(Spaced(words), LastOf(words, w))
         /\ LastOf(words, w) \in Texts
<1> DEFINE longer == Append(words, w)
           a == Spaced(longer)
           l == LastOf(words, w)
           b == Append(Spaced(words), l)
<1>1. PICK n \in Nat : n = Len(words)
  OBVIOUS
<1>2. /\ longer \in Seq(Token) /\ Len(longer) = n + 1 /\ longer[n + 1] = w
      /\ \A i \in 1 .. n : longer[i] = words[i]
      /\ DOMAIN words = 1 .. n /\ DOMAIN longer = 1 .. n + 1
  BY <1>1, AppendProperties, LenProperties
<1> HIDE DEF longer
<1>3. a \in Seq(Texts) /\ Len(a) = n + 1 /\ Spaced(words) \in Seq(Texts) /\ Len(Spaced(words)) = n
  BY <1>1, <1>2, SpacedIs
<1>4. l \in Texts
  <2>1. w \in Texts
    BY TokenIs
  <2> QED BY <2>1, LettersSeq, TextConcat DEF LastOf
<1>5. words = <<>> <=> n = 0
  BY <1>1, EmptySeq
<1>6. a[n + 1] = l
  <2>1. n + 1 \in DOMAIN longer /\ (n + 1 = 1 <=> n = 0)
    BY <1>2
  <2>2. a[n + 1] = IF n + 1 = 1 THEN w ELSE <<" ">> \o w
    BY <1>2, <2>1 DEF Spaced
  <2> QED BY <1>5, <2>1, <2>2 DEF LastOf
<1>7. \A i \in 1 .. n : a[i] = Spaced(words)[i]
  <2>1. \A i \in 1 .. n : i \in 1 .. n + 1
    OBVIOUS
  <2> QED BY <1>2, <2>1 DEF Spaced
<1> HIDE DEF l, a
<1>8. b \in Seq(Texts) /\ Len(b) = n + 1 /\ b[n + 1] = l /\ \A i \in 1 .. n : b[i] = Spaced(words)[i]
  BY <1>3, <1>4, AppendProperties
<1> HIDE DEF b
<1>9. \A i \in 1 .. Len(a) : a[i] = b[i]
  <2>1. \A i \in 1 .. n + 1 : i \in 1 .. n \/ i = n + 1
    OBVIOUS
  <2> QED BY <1>3, <1>6, <1>7, <1>8, <2>1
<1>10. a = b
  BY <1>3, <1>8, <1>9, SeqEqual
<1> QED BY <1>4, <1>10 DEF a, b, l, longer

\* One more word makes the request line longer.
LEMMA RequestLineAppend ==
  ASSUME NEW words \in Seq(Token), NEW w \in Token
  PROVE  /\ RequestLine(words) \in Texts
         /\ RequestLine(Append(words, w)) = RequestLine(words) \o LastOf(words, w)
<1>1. /\ RequestLine(words) = Joined(Spaced(words))
      /\ RequestLine(Append(words, w)) = Joined(Spaced(Append(words, w)))
  BY DEF RequestLine, Spaced
<1>2. Spaced(words) \in Seq(Seq(Letters)) /\ LastOf(words, w) \in Seq(Letters)
  BY SpacedIs, SpacedAppend DEF Texts
<1>3. Joined(Append(Spaced(words), LastOf(words, w))) = Joined(Spaced(words)) \o LastOf(words, w)
  BY <1>2, JoinedAppend
<1>4. Joined(Spaced(words)) \in Texts
  BY <1>2, JoinedSeq DEF Texts
<1> QED BY <1>1, <1>3, <1>4, SpacedAppend

\* No words make an empty request line.
LEMMA RequestLineNone == RequestLine(<<>>) = <<>>
<1>1. Spaced(<<>>) = <<>>
  BY DEF Spaced
<1> QED BY <1>1, JoinedEmpty DEF RequestLine, Spaced

\* The words are the pieces between blanks.
LEMMA SplitWords ==
  \A words \in Seq(Token) : words # <<>> => Split(RequestLine(words), Blank) = words
<1> DEFINE Good == {words \in Seq(Token) :
                      words # <<>> => Split(RequestLine(words), Blank) = words}
<1>1. <<>> \in Good
  BY EmptySeq
<1>2. ASSUME NEW words \in Seq(Token), NEW w \in Token, words \in Good PROVE Append(words, w) \in Good
  <2>1. Append(words, w) \in Seq(Token)
    BY AppendProperties
  <2>2. w \in Texts /\ \A i \in 1 .. Len(w) : w[i] \notin Blank
    BY TokenIs
  <2>3. PICK s : s = RequestLine(words)
    OBVIOUS
  <2>4. s \in Texts /\ RequestLine(Append(words, w)) = s \o LastOf(words, w)
    BY <2>3, RequestLineAppend
  <2>5. CASE words = <<>>
    <3>1. s = <<>> /\ s \o w = w /\ LastOf(words, w) = w
      BY <2>2, <2>3, <2>5, RequestLineNone, ConcatEmptySeq DEF LastOf, Texts
    <3>2. Split(w, Blank) = <<w>>
      BY <2>2, SplitOne
    <3>3. Append(<<>>, w) = <<w>>
      OBVIOUS
    <3> QED BY <2>1, <2>4, <2>5, <3>1, <3>2, <3>3
  <2>6. CASE words # <<>>
    <3>1. Split(s, Blank) = words
      BY <1>2, <2>3, <2>6
    <3>2. " " \in Letters /\ " " \in Blank
      BY LettersSeq DEF Blank
    <3>3. Split(Append(s, " ") \o w, Blank) = Append(Split(s, Blank), w)
      BY <2>2, <2>4, <3>2, SplitAfter
    <3>4. Append(s, " ") \o w = s \o LastOf(words, w)
      <4>1. PICK b : b = <<" ">>
        OBVIOUS
      <4>2. b \in Texts
        BY <4>1, LettersSeq
      <4>3. Append(s, " ") = s \o b
        BY <2>4, <3>2, <4>1, AppendIsConcat DEF Texts
      <4>4. (s \o b) \o w = s \o (b \o w)
        BY <2>2, <2>4, <4>2, TextAssociative
      <4> QED BY <2>6, <4>1, <4>3, <4>4 DEF LastOf
    <3> QED BY <2>1, <2>4, <3>1, <3>3, <3>4
  <2> QED BY <2>5, <2>6
<1>3. Seq(Token) \subseteq Good
  <2> HIDE DEF Good
  <2> QED BY <1>1, <1>2, SeqInduction
<1> QED BY <1>3

\* split_whitespace returns the words that were written.
LEMMA WordsAreRead ==
  ASSUME NEW words \in Seq(Token) PROVE SplitWhitespace(RequestLine(words)) = words
<1>1. CASE words = <<>>
  <2>1. Split(<<>>, Blank) = << <<>> >>
    BY SplitEmpty
  <2>2. ToSet(<< <<>> >>) \ {<<>>} = {}
    BY DEF ToSet
  <2>3. Members(<< <<>> >>, {}) = <<>>
    <3>1. <<>> \in Seq({<<>>}) /\ <<>> \in {<<>>} /\ Append(<<>>, <<>>) = << <<>> >> /\ <<>> \notin {}
      OBVIOUS
    <3>2. Members(Append(<<>>, <<>>), {}) =
            IF <<>> \in {} THEN Append(Members(<<>>, {}), <<>>) ELSE Members(<<>>, {})
      BY <3>1, MembersAppend
    <3> QED BY <3>1, <3>2, MembersEmpty
  <2> QED BY <1>1, <2>1, <2>2, <2>3, RequestLineNone DEF SplitWhitespace
<1>2. CASE words # <<>>
  <2> DEFINE W == {words[i] : i \in DOMAIN words}
  <2>1. Split(RequestLine(words), Blank) = words
    BY <1>2, SplitWords
  <2>2. ToSet(words) = W
    BY DEF ToSet
  <2>3. \A i \in DOMAIN words : words[i] # <<>>
    BY TokenIs
  <2>4. W \ {<<>>} = W
    BY <2>3
  <2>5. words \in Seq(W)
    OBVIOUS
  <2>6. Members(words, W) = words
    <3> HIDE DEF W
    <3> QED BY <2>5, MembersAll
  <2> QED BY <2>1, <2>2, <2>4, <2>6 DEF SplitWhitespace
<1> QED BY <1>1, <1>2

\* The request line has no byte that ends a line.
LEMMA RequestLineBytes ==
  \A words \in Seq(Token) :
    /\ RequestLine(words) \in Texts
    /\ \A i \in 1 .. Len(RequestLine(words)) : RequestLine(words)[i] \notin {"CR", "LF"}
<1> DEFINE Good == {words \in Seq(Token) :
                      /\ RequestLine(words) \in Texts
                      /\ \A i \in 1 .. Len(RequestLine(words)) :
                           RequestLine(words)[i] \notin {"CR", "LF"}}
<1>1. <<>> \in Good
  <2>1. Len(<<>>) = 0 /\ <<>> \in Seq(Token) /\ 1 .. 0 = {}
    OBVIOUS
  <2> QED BY <2>1, RequestLineNone, LettersSeq
<1>2. ASSUME NEW words \in Seq(Token), NEW w \in Token, words \in Good PROVE Append(words, w) \in Good
  <2>1. Append(words, w) \in Seq(Token)
    BY AppendProperties
  <2>2. w \in Texts /\ \A i \in 1 .. Len(w) : w[i] \notin {"CR", "LF"}
    BY TokenIs DEF Blank
  <2>3. PICK s : s = RequestLine(words)
    OBVIOUS
  <2>4. PICK t : t = LastOf(words, w)
    OBVIOUS
  <2>5. s \in Texts /\ t \in Texts /\ RequestLine(Append(words, w)) = s \o t
    BY <2>3, <2>4, RequestLineAppend, SpacedAppend
  <2>6. \A i \in 1 .. Len(s) : s[i] \notin {"CR", "LF"}
    BY <1>2, <2>3
  <2>7. \A i \in 1 .. Len(t) : t[i] \notin {"CR", "LF"}
    <3>1. CASE words = <<>>
      BY <2>2, <2>4, <3>1 DEF LastOf
    <3>2. CASE words # <<>>
      <4>1. PICK b : b = <<" ">>
        OBVIOUS
      <4>2. b \in Texts /\ \A i \in 1 .. Len(b) : b[i] \notin {"CR", "LF"}
        <5>1. Len(<<" ">>) = 1 /\ <<" ">>[1] = " "
          OBVIOUS
        <5>2. Len(b) = 1 /\ b[1] = " "
          BY <4>1, <5>1
        <5>3. \A i \in 1 .. 1 : i = 1
          OBVIOUS
        <5>4. b \in Texts
          BY <4>1, LettersSeq
        <5> QED BY <5>2, <5>3, <5>4
      <4>3. t = b \o w
        BY <2>4, <3>2, <4>1 DEF LastOf
      <4>4. Follow(t, b, w)
        BY <2>2, <4>2, <4>3, TextAt
      <4> QED BY <2>2, <4>2, <4>4 DEF Follow
    <3> QED BY <3>1, <3>2
  <2> DEFINE u == s \o t
  <2>8. Follow(u, s, t) /\ u \in Texts
    BY <2>5, TextAt, TextConcat
  <2> HIDE DEF u
  <2>9. \A i \in 1 .. Len(u) : u[i] \notin {"CR", "LF"}
    BY <2>6, <2>7, <2>8 DEF Follow
  <2> QED BY <2>1, <2>5, <2>8, <2>9 DEF u
<1>3. Seq(Token) \subseteq Good
  <2> HIDE DEF Good
  <2> QED BY <1>1, <1>2, SeqInduction
<1> QED BY <1>3

-----------------------------------------------------------------------------
(* Where the headers end. *)

\* No line that is empty comes before the end of the lines.
NoEmptyLine(w) == \A i \in 1 .. Len(w) - 2 : w[i] = "CR" => w[i + 2] # "CR"
EndsLine(w) == Len(w) > 0 => w[Len(w)] # "CR"

\* The bytes of an end of line.
LEMMA CRLFIs ==
  /\ CRLF \in Texts /\ Len(CRLF) = 2 /\ CRLF[1] = "CR" /\ CRLF[2] = "LF"
  /\ \A i \in 1 .. 2 : i = 1 \/ i = 2
<1>1. CRLF \in Texts
  BY LettersSeq
<1>2. Len(CRLF) = 2 /\ CRLF[1] = "CR" /\ CRLF[2] = "LF"
  BY DEF CRLF
<1>3. \A i \in 1 .. 2 : i = 1 \/ i = 2
  OBVIOUS
<1> QED BY <1>1, <1>2, <1>3

\* A line and its end.
LEMMA LineEnded ==
  ASSUME NEW l \in Texts, \A i \in 1 .. Len(l) : l[i] \notin {"CR", "LF"}, NEW e, e = l \o CRLF
  PROVE  /\ e \in Texts /\ Len(e) = Len(l) + 2 /\ Len(l) \in Nat
         /\ \A i \in 1 .. Len(l) : e[i] = l[i] /\ e[i] # "CR"
         /\ e[Len(l) + 1] = "CR" /\ e[Len(l) + 2] = "LF"
<1>1. PICK c : c = CRLF
  OBVIOUS
<1>2. c \in Texts /\ Len(c) = 2 /\ c[1] = "CR" /\ c[2] = "LF"
  BY <1>1, CRLFIs
<1>3. Follow(e, l, c)
  BY <1>1, <1>2, TextAt
<1>4. Len(l) \in Nat
  BY TextIs
<1>5. 1 \in 1 .. Len(c) /\ 2 \in 1 .. Len(c)
  BY <1>2
<1> QED BY <1>2, <1>3, <1>4, <1>5 DEF Follow

\* One more line leaves no empty line behind.
LEMMA LineAdded ==
  ASSUME NEW w \in Texts, NoEmptyLine(w), EndsLine(w),
         NEW l \in Texts, \A i \in 1 .. Len(l) : l[i] \notin {"CR", "LF"},
         Len(w) = 0 \/ Len(l) > 0,
         NEW u, u = w \o (l \o CRLF)
  PROVE  u \in Texts /\ NoEmptyLine(u) /\ EndsLine(u)
<1>1. PICK e : e = l \o CRLF
  OBVIOUS
<1>2. /\ e \in Texts /\ Len(e) = Len(l) + 2 /\ Len(l) \in Nat
      /\ \A i \in 1 .. Len(l) : e[i] # "CR"
      /\ e[Len(l) + 1] = "CR" /\ e[Len(l) + 2] = "LF"
  BY <1>1, LineEnded
<1>3. Follow(u, w, e) /\ u \in Texts
  BY <1>1, <1>2, TextAt, TextConcat
<1>4. PICK a \in Nat, n \in Nat : a = Len(w) /\ n = Len(l)
  BY <1>2, TextIs
<1>5. /\ Len(u) = a + n + 2
      /\ \A i \in 1 .. a : u[i] = w[i]
      /\ \A i \in 1 .. n + 2 : u[a + i] = e[i]
  BY <1>2, <1>3, <1>4 DEF Follow
<1>6. u[a + n + 2] # "CR"
  <2>1. n + 2 \in 1 .. n + 2 /\ a + (n + 2) = a + n + 2
    OBVIOUS
  <2> QED BY <1>2, <1>4, <1>5, <2>1
<1>7. EndsLine(u)
  BY <1>5, <1>6 DEF EndsLine
<1>8. ASSUME NEW i \in 1 .. a + n, u[i] = "CR" PROVE u[i + 2] # "CR"
  <2>1. CASE i + 2 <= a
    <3>1. i \in 1 .. Len(w) - 2 /\ i \in 1 .. a /\ i + 2 \in 1 .. a
      BY <1>4, <2>1
    <3>2. w[i] = "CR" /\ u[i + 2] = w[i + 2]
      BY <1>5, <1>8, <3>1
    <3> QED BY <3>1, <3>2 DEF NoEmptyLine
  <2>2. CASE i + 2 > a /\ i <= a
    <3>1. n > 0 /\ a > 0
      BY <1>4, <2>2
    <3>2. CASE i = a
      <4>1. u[i] = w[a] /\ w[a] # "CR"
        BY <1>4, <1>5, <3>1, <3>2 DEF EndsLine
      <4> QED BY <1>8, <4>1
    <3>3. CASE i # a
      <4>1. i + 2 = a + 1 /\ 1 \in 1 .. n + 2 /\ 1 \in 1 .. n
        BY <2>2, <3>1, <3>3
      <4>2. u[a + 1] = e[1] /\ e[1] # "CR"
        BY <1>2, <1>4, <1>5, <4>1
      <4> QED BY <4>1, <4>2
    <3> QED BY <3>2, <3>3
  <2>3. CASE i > a
    <3>1. PICK j \in Int : j = i - a
      OBVIOUS
    <3>2. j \in 1 .. n /\ j \in 1 .. n + 2 /\ i = a + j
      BY <2>3, <3>1
    <3>3. u[i] = e[j] /\ e[j] # "CR"
      BY <1>2, <1>4, <1>5, <3>2
    <3> QED BY <1>8, <3>3
  <2>4. i + 2 <= a \/ (i + 2 > a /\ i <= a) \/ i > a
    OBVIOUS
  <2> QED BY <2>1, <2>2, <2>3, <2>4
<1>9. NoEmptyLine(u)
  <2>1. Len(u) - 2 = a + n
    BY <1>5
  <2> QED BY <1>8, <2>1 DEF NoEmptyLine
<1> QED BY <1>3, <1>7, <1>9

\* All lines of a request, without the empty one.
LEMMA LinesOfRequest ==
  ASSUME NEW l \in Texts, \A i \in 1 .. Len(l) : l[i] \notin {"CR", "LF"}
  PROVE  \A fields \in Seq(WrittenFields) :
           LET u == (l \o CRLF) \o FieldLines(fields)
           IN  u \in Texts /\ NoEmptyLine(u) /\ EndsLine(u)
<1> DEFINE U(fields) == (l \o CRLF) \o FieldLines(fields)
           Good == {fields \in Seq(WrittenFields) :
                      U(fields) \in Texts /\ NoEmptyLine(U(fields)) /\ EndsLine(U(fields))}
<1>0. PICK e : e = l \o CRLF
  OBVIOUS
<1>1. e \in Texts /\ NoEmptyLine(e) /\ EndsLine(e)
  <2>1. PICK w : w = <<>>
    OBVIOUS
  <2>2. w \in Texts /\ Len(w) = 0
    BY <2>1, LettersSeq
  <2>3. NoEmptyLine(w) /\ EndsLine(w)
    BY <2>2 DEF NoEmptyLine, EndsLine
  <2>4. e \in Texts
    BY <1>0, LettersSeq, TextConcat
  <2>5. e = w \o (l \o CRLF)
    BY <1>0, <2>1, <2>4, ConcatEmptySeq DEF Texts
  <2> QED BY <2>2, <2>3, <2>5, LineAdded
<1>2. <<>> \in Good
  <2>1. U(<<>>) = e
    BY <1>0, <1>1, FieldLinesEmpty, ConcatEmptySeq DEF Texts
  <2> HIDE DEF U
  <2> QED BY <1>1, <2>1, EmptySeq
<1>3. ASSUME NEW fields \in Seq(WrittenFields), NEW f \in WrittenFields, fields \in Good
      PROVE  Append(fields, f) \in Good
  <2>1. Append(fields, f) \in Seq(WrittenFields)
    BY AppendProperties
  <2>2. PICK x, y, z : x = FieldLines(fields) /\ y = FieldLine(f) /\ z = y \o CRLF
    OBVIOUS
  <2>3. x \in Texts /\ y \in Texts /\ z \in Texts /\ FieldLines(Append(fields, f)) = x \o z
    BY <2>2, FieldLinesAppend, FieldLineTyped, LettersSeq, TextConcat
  <2>4. PICK w : w = e \o x
    OBVIOUS
  <2>5. w \in Texts /\ NoEmptyLine(w) /\ EndsLine(w)
    BY <1>0, <1>3, <2>2, <2>4
  <2>6. w \o z = e \o (x \o z)
    BY <1>1, <2>3, <2>4, TextAssociative
  <2>7. U(Append(fields, f)) = w \o z
    BY <1>0, <2>3, <2>6
  <2>8. Len(y) > 0 /\ \A i \in 1 .. Len(y) : y[i] \notin {"CR", "LF"}
    BY <2>2, FieldLineTyped
  <2>9. PICK u : u = w \o z
    OBVIOUS
  <2>10. u \in Texts /\ NoEmptyLine(u) /\ EndsLine(u)
    BY <2>2, <2>3, <2>5, <2>8, <2>9, LineAdded
  <2> HIDE DEF U
  <2> QED BY <2>1, <2>7, <2>9, <2>10
<1>4. Seq(WrittenFields) \subseteq Good
  <2> HIDE DEF Good
  <2> QED BY <1>2, <1>3, SeqInduction
<1> QED BY <1>4

-----------------------------------------------------------------------------
(* The parts of the text of a request. *)

\* t is a head, the end of the headers and a body.
Ends(t, head, body) ==
  /\ t \in Texts
  /\ Len(t) = Len(head) + 4 + Len(body)
  /\ \A i \in 1 .. Len(head) : t[i] = head[i]
  /\ t[Len(head) + 1] = "CR" /\ t[Len(head) + 2] = "LF"
  /\ t[Len(head) + 3] = "CR" /\ t[Len(head) + 4] = "LF"
  /\ \A i \in 1 .. Len(body) : t[Len(head) + 4 + i] = body[i]
  /\ \A i \in 1 .. Len(head) : t[i] = "CR" => t[i + 2] # "CR"

\* And the head is the line l and the lines d.
Laid(t, l, d, head, body) ==
  /\ l \in Texts /\ d \in Texts /\ head \in Texts /\ body \in Texts
  /\ head = (l \o CRLF) \o d
  /\ Ends(t, head, body)

\* A head without an empty line, the empty line and a body are laid out so.
LEMMA HeadLaid ==
  ASSUME NEW head \in Texts, NEW body \in Texts, NEW u, u = head \o CRLF, NoEmptyLine(u),
         NEW v, v = u \o CRLF, NEW t, t = v \o body
  PROVE  Ends(t, head, body)
<1>1. PICK c : c = CRLF
  OBVIOUS
<1>2. c \in Texts /\ Len(c) = 2 /\ c[1] = "CR" /\ c[2] = "LF" /\ 1 \in 1 .. Len(c) /\ 2 \in 1 .. Len(c)
  BY <1>1, CRLFIs
<1>3. Follow(u, head, c) /\ u \in Texts
  BY <1>1, <1>2, TextAt, TextConcat
<1>4. Follow(v, u, c) /\ v \in Texts
  BY <1>1, <1>2, <1>3, TextAt, TextConcat
<1>5. Follow(t, v, body) /\ t \in Texts
  BY <1>4, TextAt, TextConcat
<1>6. PICK h \in Nat, k \in Nat : h = Len(head) /\ k = Len(body)
  BY TextIs
<1>7. /\ Len(u) = h + 2 /\ \A i \in 1 .. h : u[i] = head[i]
      /\ u[h + 1] = "CR" /\ u[h + 2] = "LF"
  BY <1>2, <1>3, <1>6 DEF Follow
<1>8. /\ Len(v) = h + 4 /\ \A i \in 1 .. h + 2 : v[i] = u[i]
      /\ v[h + 3] = "CR" /\ v[h + 4] = "LF"
  <2>1. h + 2 + 1 = h + 3 /\ h + 2 + 2 = h + 4
    OBVIOUS
  <2> QED BY <1>2, <1>4, <1>7, <2>1 DEF Follow
<1>9. /\ Len(t) = h + 4 + k /\ \A i \in 1 .. h + 4 : t[i] = v[i]
      /\ \A i \in 1 .. k : t[h + 4 + i] = body[i]
  BY <1>5, <1>6, <1>8, ZenonT(40) DEF Follow
<1>10. \A i \in 1 .. h + 2 : t[i] = u[i]
  <2>1. \A i \in 1 .. h + 2 : i \in 1 .. h + 4
    OBVIOUS
  <2> QED BY <1>8, <1>9, <2>1
<1>11. \A i \in 1 .. h : t[i] = head[i]
  <2>1. \A i \in 1 .. h : i \in 1 .. h + 2
    OBVIOUS
  <2> QED BY <1>7, <1>10, <2>1
<1>12. t[h + 1] = "CR" /\ t[h + 2] = "LF" /\ t[h + 3] = "CR" /\ t[h + 4] = "LF"
  <2>1. h + 1 \in 1 .. h + 2 /\ h + 2 \in 1 .. h + 2 /\ h + 3 \in 1 .. h + 4 /\ h + 4 \in 1 .. h + 4
    OBVIOUS
  <2> QED BY <1>7, <1>8, <1>9, <1>10, <2>1
<1>13. ASSUME NEW i \in 1 .. h, t[i] = "CR" PROVE t[i + 2] # "CR"
  <2>1. i \in 1 .. Len(u) - 2 /\ i \in 1 .. h + 2 /\ i + 2 \in 1 .. h + 2
    BY <1>7
  <2>2. u[i] = "CR" => u[i + 2] # "CR"
    BY <2>1 DEF NoEmptyLine
  <2> QED BY <1>10, <1>13, <2>1, <2>2
<1> QED BY <1>5, <1>6, <1>9, <1>11, <1>12, <1>13 DEF Ends

\* The text of a request is laid out so, and its lines mean its fields.
LEMMA TextLaid ==
  ASSUME NEW r, WellWritten(r), r.fields # <<>>
  PROVE  \E d, head :
           /\ Laid(Text(r), RequestLine(r.words), d, head, r.body)
           /\ HeadersIn(d) = Fields(r.fields)
<1>1. r.words \in Seq(Token) /\ r.fields \in Seq(WrittenFields) /\ r.body \in Texts
  BY LettersSeq DEF WellWritten, WrittenFields
<1>2. PICK fs \in Seq(WrittenFields), f \in WrittenFields : r.fields = Append(fs, f)
  BY <1>1, SequenceEmptyOrAppend
<1>3. PICK l, c, x, y : l = RequestLine(r.words) /\ c = CRLF /\ x = FieldLines(fs) /\ y = FieldLine(f)
  OBVIOUS
<1>4. l \in Texts /\ \A i \in 1 .. Len(l) : l[i] \notin {"CR", "LF"}
  BY <1>1, <1>3, RequestLineBytes
<1>5. c \in Texts /\ x \in Texts /\ y \in Texts
  BY <1>3, CRLFIs, FieldLinesAppend, FieldLineTyped
<1>6. PICK e, d, yc : e = l \o c /\ d = x \o y /\ yc = y \o c
  OBVIOUS
<1>7. e \in Texts /\ d \in Texts /\ yc \in Texts
  BY <1>4, <1>5, <1>6, TextConcat
<1>8. PICK fl : fl = FieldLines(r.fields)
  OBVIOUS
<1>9. fl = x \o yc
  BY <1>2, <1>3, <1>6, <1>8, FieldLinesAppend
<1>10. fl = d \o c
  BY <1>5, <1>6, <1>9, TextAssociative
<1>11. PICK u : u = e \o fl
  OBVIOUS
<1>12. NoEmptyLine(u)
  BY <1>1, <1>3, <1>4, <1>6, <1>8, <1>11, LinesOfRequest
<1>13. PICK head : head = e \o d
  OBVIOUS
<1>14. head \in Texts /\ u = head \o c
  <2>1. (e \o d) \o c = e \o (d \o c)
    BY <1>5, <1>7, TextAssociative, ZenonT(40)
  <2>2. e \o d \in Texts
    BY <1>7, TextConcat
  <2> QED BY <1>10, <1>11, <1>13, <2>1, <2>2
<1>15. PICK v, t : v = u \o c /\ t = v \o r.body
  OBVIOUS
<1>16. Text(r) = t
  BY <1>3, <1>6, <1>8, <1>11, <1>15 DEF Text
<1>17. Laid(t, l, d, head, r.body)
  <2>1. head = (l \o CRLF) \o d
    BY <1>3, <1>6, <1>13
  <2>2. u = head \o CRLF /\ v = u \o CRLF
    BY <1>3, <1>14, <1>15
  <2>3. Ends(t, head, r.body)
    BY <1>1, <1>12, <1>14, <1>15, <2>2, HeadLaid
  <2> QED BY <1>1, <1>4, <1>7, <1>14, <2>1, <2>3 DEF Laid
<1>18. HeadersIn(d) = Fields(r.fields)
  BY <1>2, <1>3, <1>6, HeadersAreRead
<1> QED BY <1>3, <1>16, <1>17, <1>18

-----------------------------------------------------------------------------
(* What parse finds. *)

\* p is the stretch of s from a on.
Stretches(s, a, p) ==
  SubSeq(s, a, a + Len(p) - 1) = p <=> \A j \in 1 .. Len(p) : s[a + j - 1] = p[j]

\* A stretch is a text when its bytes are.
LEMMA StretchIs ==
  ASSUME NEW s \in Texts, NEW p \in Texts, NEW a \in Nat,
         a >= 1, a + Len(p) - 1 <= Len(s)
  PROVE  Stretches(s, a, p)
<1>0. PICK n \in Nat : n = Len(p)
  BY TextIs
<1>1. PICK b \in Int : b = a + n - 1
  OBVIOUS
<1>2. PICK q : q = SubSeq(s, a, b)
  OBVIOUS
<1>3. \A i \in a .. b : s[i] \in Letters
  <2>1. \A i \in a .. b : i \in 1 .. Len(s)
    BY <1>0, <1>1, TextIs
  <2> QED BY <2>1, TextIs
<1>4. /\ q \in Seq(Letters) /\ Len(q) = n
      /\ \A j \in 1 .. n : q[j] = s[a + j - 1]
  <2>1. a \in Int /\ b \in Int
    OBVIOUS
  <2>2. /\ SubSeq(s, a, b) \in Seq(Letters) /\ Len(SubSeq(s, a, b)) = IF a <= b THEN b - a + 1 ELSE 0
        /\ \A i \in 1 .. b - a + 1 : SubSeq(s, a, b)[i] = s[a + i - 1]
    BY <1>3, <2>1, SubSeqProperties
  <2>3. b - a + 1 = n /\ (IF a <= b THEN b - a + 1 ELSE 0) = n
    BY <1>0, <1>1
  <2> QED BY <1>2, <2>2, <2>3
<1>5. q = p => \A j \in 1 .. n : s[a + j - 1] = p[j]
  BY <1>4
<1>6. ASSUME \A j \in 1 .. n : s[a + j - 1] = p[j] PROVE q = p
  <2>1. p \in Seq(Letters) /\ Len(q) = Len(p) /\ \A j \in 1 .. Len(q) : q[j] = p[j]
    BY <1>0, <1>4, <1>6 DEF Texts
  <2> QED BY <1>4, <2>1, SeqEqual
<1> QED BY <1>0, <1>1, <1>2, <1>5, <1>6 DEF Stretches

\* Where str::find finds the end of a line.
LEMMA EndsOfLines ==
  ASSUME NEW s \in Texts
  PROVE  Occurrences(CRLF, s) = {i \in 1 .. Len(s) - 1 : s[i] = "CR" /\ s[i + 1] = "LF"}
<1>1. PICK c : c = CRLF
  OBVIOUS
<1>2. c \in Texts /\ Len(c) = 2 /\ c[1] = "CR" /\ c[2] = "LF"
  BY <1>1, CRLFIs
<1>3. PICK m \in Nat : m = Len(s)
  BY TextIs
<1>4. ASSUME NEW i \in 1 .. m - 1
      PROVE  SubSeq(s, i, i + 2 - 1) = c <=> s[i] = "CR" /\ s[i + 1] = "LF"
  <2>1. i \in Nat /\ i >= 1 /\ i + Len(c) - 1 <= Len(s)
    BY <1>2, <1>3
  <2>0. Stretches(s, i, c)
    BY <1>2, <2>1, StretchIs
  <2>2. SubSeq(s, i, i + 2 - 1) = c <=> \A j \in 1 .. 2 : s[i + j - 1] = c[j]
    BY <1>2, <2>0 DEF Stretches
  <2>3. (\A j \in 1 .. 2 : s[i + j - 1] = c[j]) <=> s[i] = c[1] /\ s[i + 1] = c[2]
    <3>1. i + 1 - 1 = i /\ i + 2 - 1 = i + 1 /\ 1 \in 1 .. 2 /\ 2 \in 1 .. 2
      OBVIOUS
    <3>2. \A j \in 1 .. 2 : j = 1 \/ j = 2
      OBVIOUS
    <3> QED BY <3>1, <3>2
  <2> QED BY <1>2, <2>2, <2>3
<1>5. Len(s) - Len(c) + 1 = m - 1
  BY <1>2, <1>3
<1> QED BY <1>1, <1>2, <1>3, <1>4, <1>5 DEF Occurrences

\* And where it finds the end of the headers.
LEMMA EndsOfHeaders ==
  ASSUME NEW s \in Texts
  PROVE  Occurrences(CRLF \o CRLF, s) =
           {i \in 1 .. Len(s) - 3 : /\ s[i] = "CR" /\ s[i + 1] = "LF"
                                    /\ s[i + 2] = "CR" /\ s[i + 3] = "LF"}
<1>1. PICK c : c = CRLF
  OBVIOUS
<1>2. c \in Texts /\ Len(c) = 2 /\ c[1] = "CR" /\ c[2] = "LF"
  BY <1>1, CRLFIs
<1>3. PICK p : p = c \o c
  OBVIOUS
<1>4. Follow(p, c, c) /\ p \in Texts
  BY <1>2, <1>3, TextAt, TextConcat
<1>5. Len(p) = 4 /\ p[1] = "CR" /\ p[2] = "LF" /\ p[3] = "CR" /\ p[4] = "LF"
  <2>1. 1 \in 1 .. 2 /\ 2 \in 1 .. 2 /\ 2 + 1 = 3 /\ 2 + 2 = 4
    OBVIOUS
  <2> QED BY <1>2, <1>4, <2>1 DEF Follow
<1>6. PICK m \in Nat : m = Len(s)
  BY TextIs
<1>7. ASSUME NEW i \in 1 .. m - 3
      PROVE  SubSeq(s, i, i + 4 - 1) = p <=>
               s[i] = "CR" /\ s[i + 1] = "LF" /\ s[i + 2] = "CR" /\ s[i + 3] = "LF"
  <2>1. i \in Nat /\ i >= 1 /\ i + Len(p) - 1 <= Len(s)
    BY <1>5, <1>6
  <2>0. Stretches(s, i, p)
    BY <1>4, <2>1, StretchIs
  <2>2. SubSeq(s, i, i + 4 - 1) = p <=> \A j \in 1 .. 4 : s[i + j - 1] = p[j]
    BY <1>5, <2>0 DEF Stretches
  <2>3. (\A j \in 1 .. 4 : s[i + j - 1] = p[j]) <=>
          s[i] = p[1] /\ s[i + 1] = p[2] /\ s[i + 2] = p[3] /\ s[i + 3] = p[4]
    <3>1. /\ i + 1 - 1 = i /\ i + 2 - 1 = i + 1 /\ i + 3 - 1 = i + 2 /\ i + 4 - 1 = i + 3
          /\ 1 \in 1 .. 4 /\ 2 \in 1 .. 4 /\ 3 \in 1 .. 4 /\ 4 \in 1 .. 4
      OBVIOUS
    <3>2. \A j \in 1 .. 4 : j = 1 \/ j = 2 \/ j = 3 \/ j = 4
      OBVIOUS
    <3> QED BY <3>1, <3>2
  <2> QED BY <1>5, <2>2, <2>3
<1>8. Len(s) - Len(p) + 1 = m - 3
  BY <1>5, <1>6
<1>9. Occurrences(p, s) = {i \in 1 .. m - 3 : SubSeq(s, i, i + 4 - 1) = p}
  BY <1>5, <1>6, <1>8 DEF Occurrences
<1>10. Occurrences(p, s) =
         {i \in 1 .. m - 3 : s[i] = "CR" /\ s[i + 1] = "LF" /\ s[i + 2] = "CR" /\ s[i + 3] = "LF"}
  BY <1>7, <1>9
<1> QED BY <1>1, <1>3, <1>6, <1>10

\* b and t are the same where both are.
Agrees(b, t) == \A i \in 1 .. Len(b) : i <= Len(t) => b[i] = t[i]

\* The headers are found once they have arrived, and not before.
LEMMA HeadFound ==
  ASSUME NEW t, NEW head \in Texts, NEW body \in Texts, Ends(t, head, body),
         NEW b \in Texts, Agrees(b, t),
         NEW S, S = Occurrences(CRLF \o CRLF, b)
  PROVE  /\ Len(b) < Len(head) + 4 => S = {}
         /\ Len(b) >= Len(head) + 4 =>
              S # {} /\ Min(S) = Len(head) + 1 /\ SubSeq(b, 1, Len(head)) = head
<1>1. PICK h \in Nat, k \in Nat, m \in Nat : h = Len(head) /\ k = Len(body) /\ m = Len(b)
  BY TextIs
<1>2. S = {i \in 1 .. m - 3 : /\ b[i] = "CR" /\ b[i + 1] = "LF"
                              /\ b[i + 2] = "CR" /\ b[i + 3] = "LF"}
  BY <1>1, EndsOfHeaders
<1>3. /\ t \in Texts /\ Len(t) = h + 4 + k
      /\ \A i \in 1 .. h : t[i] = head[i]
      /\ t[h + 1] = "CR" /\ t[h + 2] = "LF" /\ t[h + 3] = "CR" /\ t[h + 4] = "LF"
      /\ \A i \in 1 .. h : t[i] = "CR" => t[i + 2] # "CR"
  BY <1>1 DEF Ends
<1>4. \A i \in 1 .. m : i <= h + 4 + k => b[i] = t[i]
  BY <1>1, <1>3 DEF Agrees
<1>5. ASSUME NEW i \in S PROVE h + 1 <= i /\ i <= m - 3
  <2>1. i \in 1 .. m - 3 /\ i \in 1 .. m /\ i + 2 \in 1 .. m /\ b[i] = "CR" /\ b[i + 2] = "CR"
    BY <1>2
  <2>2. SUFFICES ASSUME i <= h PROVE FALSE
    BY <2>1
  <2>3. i \in 1 .. h /\ i <= h + 4 + k /\ i + 2 <= h + 4 + k
    BY <2>1, <2>2
  <2>4. t[i] = "CR" /\ t[i + 2] = "CR"
    BY <1>4, <2>1, <2>3
  <2> QED BY <1>3, <2>3, <2>4
<1>6. CASE m < h + 4
  <2>1. S = {}
    <3> SUFFICES ASSUME NEW i \in S PROVE FALSE
      OBVIOUS
    <3>1. i \in 1 .. m - 3
      BY <1>2
    <3> QED BY <1>5, <1>6, <3>1
  <2> QED BY <1>1, <1>6, <2>1
<1>7. CASE m >= h + 4
  <2>1. /\ h + 1 \in 1 .. m /\ h + 2 \in 1 .. m /\ h + 3 \in 1 .. m /\ h + 4 \in 1 .. m
        /\ h + 1 <= h + 4 + k /\ h + 2 <= h + 4 + k /\ h + 3 <= h + 4 + k /\ h + 4 <= h + 4 + k
    BY <1>7
  <2>2. b[h + 1] = "CR" /\ b[h + 2] = "LF" /\ b[h + 3] = "CR" /\ b[h + 4] = "LF"
    BY <1>3, <1>4, <2>1
  <2>3. h + 1 \in S
    <3>1. h + 1 \in 1 .. m - 3 /\ (h + 1) + 1 = h + 2 /\ (h + 1) + 2 = h + 3 /\ (h + 1) + 3 = h + 4
      BY <1>7
    <3> QED BY <1>2, <2>2, <3>1
  <2>4. S \subseteq Int /\ \A i \in S : h + 1 <= i
    <3>1. S \subseteq Int
      BY <1>2
    <3> QED BY <1>5, <3>1
  <2>5. Min(S) = h + 1
    BY <2>3, <2>4, MinIs
  <2>6. SubSeq(b, 1, h) = head
    <3>1. \A j \in 1 .. h : b[1 + j - 1] = head[j]
      <4>1. \A j \in 1 .. h : 1 + j - 1 = j /\ j \in 1 .. m /\ j <= h + 4 + k
        BY <1>7
      <4> QED BY <1>3, <1>4, <4>1
    <3>2. 1 \in Nat /\ 1 >= 1 /\ 1 + Len(head) - 1 <= Len(b) /\ 1 + h - 1 = h
      BY <1>1, <1>7
    <3>3. Stretches(b, 1, head)
      BY <3>2, StretchIs
    <3> QED BY <1>1, <3>1, <3>2, <3>3 DEF Stretches
  <2> QED BY <1>1, <1>7, <2>3, <2>5, <2>6
<1> QED BY <1>6, <1>7

\* No end of a line is in l.
Unbroken(l) == \A i \in 1 .. Len(l) : l[i] \notin {"CR", "LF"}

\* The head is the line l and the lines d.
Heads(head, l, d) == head = (l \o CRLF) \o d

\* S is where lines end in head: l is before the first of them, d after it.
FirstLine(S, head, l, d) ==
  /\ S # {} /\ Min(S) = Len(l) + 1 /\ SubSeq(head, 1, Len(l)) = l
  /\ SubSeq(head, Len(l) + 3, Len(head)) = d

\* The request line is found, and the lines after it.
LEMMA LineFound ==
  ASSUME NEW l \in Texts, Unbroken(l), NEW d \in Texts,
         NEW head, Heads(head, l, d), NEW S, S = Occurrences(CRLF, head)
  PROVE  FirstLine(S, head, l, d)
<1>0. head = (l \o CRLF) \o d
  BY DEF Heads
<1>1. PICK c, e : c = CRLF /\ e = l \o c
  OBVIOUS
<1>2. /\ e \in Texts /\ Len(e) = Len(l) + 2
      /\ \A i \in 1 .. Len(l) : e[i] = l[i] /\ e[i] # "CR"
      /\ e[Len(l) + 1] = "CR" /\ e[Len(l) + 2] = "LF"
  BY <1>1, LineEnded, ZenonT(40) DEF Unbroken
<1>3. Follow(head, e, d) /\ head \in Texts
  BY <1>0, <1>1, <1>2, TextAt, TextConcat
<1>4. PICK a \in Nat, n \in Nat : a = Len(l) /\ n = Len(d)
  BY TextIs
<1>5. /\ Len(head) = a + 2 + n
      /\ \A i \in 1 .. a + 2 : head[i] = e[i]
  BY <1>2, <1>3, <1>4 DEF Follow
<1>6. /\ \A i \in 1 .. a : head[i] # "CR"
      /\ head[a + 1] = "CR" /\ head[a + 2] = "LF"
  <2>1. a + 1 \in 1 .. a + 2 /\ a + 2 \in 1 .. a + 2 /\ \A i \in 1 .. a : i \in 1 .. a + 2
    OBVIOUS
  <2> QED BY <1>2, <1>4, <1>5, <2>1
<1>7. S = {i \in 1 .. a + 2 + n - 1 : head[i] = "CR" /\ head[i + 1] = "LF"}
  <2>1. Len(head) - 1 = a + 2 + n - 1
    BY <1>5
  <2>2. Occurrences(CRLF, head) = {i \in 1 .. Len(head) - 1 : head[i] = "CR" /\ head[i + 1] = "LF"}
    BY <1>3, EndsOfLines
  <2> QED BY <2>1, <2>2
<1>8. a + 1 \in S
  <2>1. a + 1 \in 1 .. a + 2 + n - 1 /\ (a + 1) + 1 = a + 2
    OBVIOUS
  <2> QED BY <1>6, <1>7, <2>1
<1>9. S \subseteq Int /\ \A i \in S : a + 1 <= i
  <2>1. \A i \in S : i \in 1 .. a + 2 + n - 1 /\ head[i] = "CR"
    BY <1>7
  <2>2. \A i \in S : i \notin 1 .. a
    BY <1>6, <2>1
  <2> QED BY <2>1, <2>2
<1>10. Min(S) = a + 1
  BY <1>8, <1>9, MinIs
<1>11. SubSeq(head, Len(e) + 1, Len(head)) = d
  <2>1. head = e \o d
    BY <1>0, <1>1
  <2> QED BY <1>2, <2>1, PartsOfConcat DEF Texts
<1>12. Len(e) + 1 = Len(l) + 3
  BY <1>2, <1>4
<1>13. SubSeq(head, 1, Len(l)) = l
  <2>1. l \o (c \o d) = head /\ c \o d \in Texts
    <3>1. c \in Texts
      BY <1>1, CRLFIs
    <3>2. (l \o c) \o d = l \o (c \o d)
      BY <3>1, TextAssociative
    <3> QED BY <1>0, <1>1, <3>1, <3>2, TextConcat
  <2>2. PICK g : g = c \o d
    OBVIOUS
  <2>3. SubSeq(l \o g, 1, Len(l)) = l
    BY <2>1, <2>2, PartsOfConcat DEF Texts
  <2> QED BY <2>1, <2>2, <2>3
<1> QED BY <1>4, <1>8, <1>10, <1>11, <1>12, <1>13 DEF FirstLine

-----------------------------------------------------------------------------
(* What parse returns. *)

\* The body is what follows the headers, once all of it is there.
LEMMA BodyFound ==
  ASSUME NEW t, NEW head \in Texts, NEW body \in Texts, Ends(t, head, body),
         NEW b \in Texts, Agrees(b, t)
  PROVE  Body(b, Len(head) + 1 + 4, Len(body)) =
           IF Len(b) < Len(t) THEN Incomplete ELSE [body |-> body, consumed |-> Len(t)]
<1>1. PICK h \in Nat, k \in Nat, m \in Nat : h = Len(head) /\ k = Len(body) /\ m = Len(b)
  BY TextIs
<1>2. /\ t \in Texts /\ Len(t) = h + 4 + k
      /\ \A i \in 1 .. k : t[h + 4 + i] = body[i]
  BY <1>1 DEF Ends
<1>3. PICK a \in Nat : a = h + 1 + 4
  OBVIOUS
<1>4. a + k - 1 = h + 4 + k
  BY <1>3
<1>5. ASSUME m >= h + 4 + k PROVE SubSeq(b, a, a + k - 1) = body
  <2>1. \A i \in 1 .. k : b[a + i - 1] = body[i]
    <3> TAKE i \in 1 .. k
    <3>1. a + i - 1 = h + 4 + i /\ h + 4 + i \in 1 .. m /\ h + 4 + i <= h + 4 + k
      BY <1>3, <1>5
    <3>2. b[h + 4 + i] = t[h + 4 + i]
      BY <1>1, <1>2, <3>1 DEF Agrees
    <3> QED BY <1>2, <3>1, <3>2
  <2>2. a >= 1 /\ a + Len(body) - 1 <= Len(b)
    BY <1>1, <1>3, <1>5
  <2>3. Stretches(b, a, body)
    BY <2>2, StretchIs
  <2> QED BY <1>1, <2>1, <2>3 DEF Stretches
<1>6. Body(b, a, k) = IF m < h + 4 + k THEN Incomplete
                      ELSE [body |-> SubSeq(b, a, a + k - 1), consumed |-> h + 4 + k]
  BY <1>1, <1>4 DEF Body
<1>7. Body(b, a, k) = IF m < h + 4 + k THEN Incomplete
                      ELSE [body |-> body, consumed |-> h + 4 + k]
  <2>1. CASE m < h + 4 + k
    BY <1>6, <2>1
  <2>2. CASE m >= h + 4 + k
    BY <1>5, <1>6, <2>2
  <2> QED BY <2>1, <2>2
<1> QED BY <1>1, <1>2, <1>3, <1>7

\* What is to be returned of a buffer with the bytes of r first.
Due(b, r) ==
  IF ~Utf8(b) THEN Invalid
  ELSE IF Len(b) < HeadLength(r) THEN Incomplete
  ELSE IF Len(b) < Len(Text(r)) /\ Meant(r) # Invalid THEN Incomplete
  ELSE Meant(r)

\* parse returns what is due as soon as, and as long as, the bytes are those of r.
LEMMA ParseFinds ==
  ASSUME NEW r, WellWritten(r), r.fields # <<>>, NEW b \in Texts, Agrees(b, Text(r))
  PROVE  Parse(b) = Due(b, r)
<1>1. PICK t, l, d, head, body, words, fields :
        /\ t = Text(r) /\ l = RequestLine(r.words) /\ body = r.body
        /\ words = r.words /\ fields = Fields(r.fields)
        /\ Laid(t, l, d, head, body) /\ HeadersIn(d) = fields
  BY TextLaid
<1>2. /\ words \in Seq(Token) /\ ContentLength(fields) = Len(body)
  BY <1>1 DEF WellWritten
<1>3. /\ l \in Texts /\ d \in Texts /\ head \in Texts /\ body \in Texts
      /\ head = (l \o CRLF) \o d /\ Ends(t, head, body)
  BY <1>1 DEF Laid
<1>4. PICK h \in Nat, k \in Nat, m \in Nat, a \in Nat, n \in Nat :
        h = Len(head) /\ k = Len(body) /\ m = Len(b) /\ a = Len(l) /\ n = Len(words)
  <2>1. Len(head) \in Nat /\ Len(body) \in Nat /\ Len(b) \in Nat /\ Len(l) \in Nat
    BY <1>3, TextIs
  <2>2. Len(words) \in Nat
    BY <1>2
  <2> QED BY <2>1, <2>2
<1>5. Len(t) = h + 4 + k /\ HeadLength(r) = h + 4
  <2>1. Len(t) = h + 4 + k
    BY <1>3, <1>4 DEF Ends
  <2> QED BY <1>1, <1>4, <2>1 DEF HeadLength
<1>6. PICK ends : ends = Occurrences(CRLF \o CRLF, b)
  OBVIOUS
<1>7. PICK data : data = SubSeq(b, 1, Min(ends) - 1)
  OBVIOUS
<1>8. PICK lines : lines = Occurrences(CRLF, data)
  OBVIOUS
<1>9. PICK parts : parts = SplitWhitespace(SubSeq(data, 1, Min(lines) - 1))
  OBVIOUS
<1>10. PICK headers : headers = HeadersIn(SubSeq(data, Min(lines) + 2, Len(data)))
  OBVIOUS
<1>11. PICK found : found = Body(b, Min(ends) + 4, ContentLength(headers))
  OBVIOUS
<1>12. Parse(b) = IF ~Utf8(b) THEN Invalid
                  ELSE IF ends = {} \/ lines = {} THEN Incomplete
                  ELSE IF Len(parts) < 3 THEN Invalid
                  ELSE IF found = Incomplete THEN Incomplete
                  ELSE [kind |-> "Ok", words |-> SubSeq(parts, 1, 3), headers |-> headers,
                        body |-> found.body, consumed |-> found.consumed]
  BY <1>6, <1>7, <1>8, <1>9, <1>10, <1>11 DEF Parse
<1>13. /\ m < h + 4 => ends = {}
       /\ m >= h + 4 => ends # {} /\ Min(ends) = h + 1 /\ SubSeq(b, 1, h) = head
  BY <1>1, <1>3, <1>4, <1>6, HeadFound
<1>14. Meant(r) = IF n < 3 THEN Invalid
                  ELSE [kind |-> "Ok", words |-> SubSeq(words, 1, 3), headers |-> fields,
                        body |-> body, consumed |-> h + 4 + k]
  BY <1>1, <1>4, <1>5 DEF Meant
<1>15. Due(b, r) = IF ~Utf8(b) THEN Invalid
                   ELSE IF m < h + 4 THEN Incomplete
                   ELSE IF m < h + 4 + k /\ Meant(r) # Invalid THEN Incomplete
                   ELSE Meant(r)
  BY <1>1, <1>4, <1>5 DEF Due
<1>16. CASE m < h + 4
  BY <1>12, <1>13, <1>15, <1>16
<1>17. CASE m >= h + 4
  <2>1. ends # {} /\ Min(ends) = h + 1 /\ Min(ends) - 1 = h /\ data = head
    BY <1>7, <1>13, <1>17
  <2>2. Unbroken(l)
    BY <1>1, <1>2, RequestLineBytes DEF Unbroken
  <2>0. Heads(head, l, d)
    BY <1>3 DEF Heads
  <2>3. lines # {} /\ Min(lines) = a + 1 /\ SubSeq(head, 1, a) = l /\ SubSeq(head, a + 3, Len(head)) = d
    <3>1. lines = Occurrences(CRLF, head)
      BY <1>8, <2>1
    <3>2. FirstLine(lines, head, l, d)
      BY <1>3, <2>0, <2>2, <3>1, LineFound
    <3> QED BY <1>4, <3>2 DEF FirstLine
  <2>4. Min(lines) - 1 = a /\ Min(lines) + 2 = a + 3
    BY <2>3
  <2>5. parts = words
    <3>1. parts = SplitWhitespace(l)
      BY <1>9, <2>1, <2>3, <2>4
    <3> QED BY <1>1, <1>2, <3>1, WordsAreRead
  <2>6. headers = fields
    BY <1>1, <1>10, <2>1, <2>3, <2>4
  <2>7. found = IF m < h + 4 + k THEN Incomplete ELSE [body |-> body, consumed |-> h + 4 + k]
    <3>1. found = Body(b, Len(head) + 1 + 4, Len(body))
      BY <1>2, <1>4, <1>11, <2>1, <2>6
    <3>2. Body(b, Len(head) + 1 + 4, Len(body)) =
            IF Len(b) < Len(t) THEN Incomplete ELSE [body |-> body, consumed |-> Len(t)]
      BY <1>1, <1>3, BodyFound, ZenonT(40)
    <3> QED BY <1>4, <1>5, <3>1, <3>2
  <2>8. Parse(b) = IF ~Utf8(b) THEN Invalid
                   ELSE IF n < 3 THEN Invalid
                   ELSE IF found = Incomplete THEN Incomplete
                   ELSE [kind |-> "Ok", words |-> SubSeq(words, 1, 3), headers |-> fields,
                         body |-> found.body, consumed |-> found.consumed]
    BY <1>4, <1>12, <2>1, <2>3, <2>5, <2>6
  <2>9. CASE m < h + 4 + k
    <3>1. found = Incomplete
      BY <2>7, <2>9
    <3>2. n >= 3 => Meant(r) # Invalid
      BY <1>14 DEF Invalid
    <3> QED BY <1>14, <1>15, <1>17, <2>8, <2>9, <3>1, <3>2
  <2>10. CASE m >= h + 4 + k
    <3>1. found = [body |-> body, consumed |-> h + 4 + k]
      BY <2>7, <2>10
    <3>2. found # Incomplete /\ found.body = body /\ found.consumed = h + 4 + k
      <4>1. DOMAIN found = {"body", "consumed"} /\ DOMAIN Incomplete = {"kind"}
        BY <3>1 DEF Incomplete
      <4> QED BY <3>1, <4>1
    <3>3. Parse(b) = IF ~Utf8(b) THEN Invalid ELSE Meant(r)
      BY <1>14, <2>8, <3>2
    <3> QED BY <1>15, <1>17, <2>10, <3>3
  <2> QED BY <1>4, <2>9, <2>10
<1> QED BY <1>4, <1>16, <1>17

-----------------------------------------------------------------------------
(* Every request arrives. *)

\* The beginning of a text of whole characters is one, or ends within a character.
LEMMA Utf8Beginning ==
  ASSUME NEW b \in Texts, NEW c \in Texts, NEW s, s = b \o c, Utf8(s)
  PROVE  Utf8(b) <=> ~(b # <<>> /\ Last(b) = "lead")
<1>1. PICK m \in Nat, n \in Nat : m = Len(b) /\ n = Len(c) /\ DOMAIN b = 1 .. m
  BY TextIs
<1>2. Follow(s, b, c) /\ s \in Texts
  BY TextAt, TextConcat
<1>3. Len(s) = m + n /\ DOMAIN s = 1 .. m + n /\ \A i \in 1 .. m : s[i] = b[i]
  BY <1>1, <1>2, TextIs DEF Follow
<1>4. b # <<>> => m > 0 /\ Last(b) = b[m]
  BY <1>1, TextIs DEF Last
<1>5. ASSUME Utf8(b), b # <<>>, Last(b) = "lead" PROVE FALSE
  <2>1. m \in 1 .. m /\ b[m] = "lead"
    BY <1>4, <1>5
  <2>2. m < m
    BY <1>1, <1>5, <2>1 DEF Utf8
  <2> QED BY <2>2
<1>6. ASSUME ~(b # <<>> /\ Last(b) = "lead") PROVE Utf8(b)
  <2>1. ASSUME NEW i \in 1 .. m, b[i] = "lead" PROVE i < m /\ b[i + 1] = "cont"
    <3>1. b # <<>>
      BY <1>1, TextIs
    <3>2. i # m
      BY <1>4, <1>6, <2>1, <3>1
    <3>3. i + 1 \in 1 .. m /\ i \in 1 .. m + n /\ i < m
      BY <3>2
    <3>4. s[i] = "lead"
      BY <1>3, <2>1
    <3>5. s[i + 1] = "cont"
      BY <1>3, <3>3, <3>4 DEF Utf8
    <3> QED BY <1>3, <3>3, <3>5
  <2>2. ASSUME NEW i \in 1 .. m, b[i] = "cont" PROVE i > 1 /\ b[i - 1] = "lead"
    <3>1. i \in 1 .. m + n /\ s[i] = "cont"
      BY <1>3, <2>2
    <3>2. i > 1 /\ s[i - 1] = "lead"
      BY <1>3, <3>1 DEF Utf8
    <3>3. i - 1 \in 1 .. m
      BY <3>2
    <3> QED BY <1>3, <3>2, <3>3
  <2> QED BY <1>1, <2>1, <2>2 DEF Utf8
<1> QED BY <1>5, <1>6

\* The character at i is whole.
Whole(u, i) ==
  /\ u[i] = "lead" => i < Len(u) /\ u[i + 1] = "cont"
  /\ u[i] = "cont" => i > 1 /\ u[i - 1] = "lead"

\* Texts of whole characters one after the other are one.
LEMMA Utf8Concat ==
  ASSUME NEW s \in Texts, NEW t \in Texts, Utf8(s), Utf8(t), NEW u, u = s \o t
  PROVE  Utf8(u)
<1>1. PICK m \in Nat, n \in Nat :
        m = Len(s) /\ n = Len(t) /\ DOMAIN s = 1 .. m /\ DOMAIN t = 1 .. n
  BY TextIs
<1>2. Follow(u, s, t) /\ u \in Texts
  BY TextAt, TextConcat
<1>3. /\ Len(u) = m + n /\ DOMAIN u = 1 .. m + n
      /\ \A i \in 1 .. m : u[i] = s[i]
      /\ \A i \in 1 .. n : u[m + i] = t[i]
  BY <1>1, <1>2, TextIs DEF Follow
<1>4. ASSUME NEW i \in 1 .. m
      PROVE  Whole(u, i)
  <2>1. /\ s[i] = "lead" => i < m /\ s[i + 1] = "cont"
        /\ s[i] = "cont" => i > 1 /\ s[i - 1] = "lead"
    BY <1>1 DEF Utf8
  <2>2. i < m => i + 1 \in 1 .. m
    OBVIOUS
  <2>3. i > 1 => i - 1 \in 1 .. m
    OBVIOUS
  <2>4. u[i] = s[i] /\ (i < m => u[i + 1] = s[i + 1]) /\ (i > 1 => u[i - 1] = s[i - 1])
    BY <1>3, <2>2, <2>3
  <2>5. i < m => i < m + n
    OBVIOUS
  <2> QED BY <1>3, <2>1, <2>4, <2>5 DEF Whole
<1>5. ASSUME NEW i \in 1 .. n
      PROVE  Whole(u, m + i)
  <2>1. /\ t[i] = "lead" => i < n /\ t[i + 1] = "cont"
        /\ t[i] = "cont" => i > 1 /\ t[i - 1] = "lead"
    BY <1>1 DEF Utf8
  <2>2. i < n => i + 1 \in 1 .. n /\ m + i + 1 = m + (i + 1)
    OBVIOUS
  <2>3. i > 1 => i - 1 \in 1 .. n /\ m + i - 1 = m + (i - 1)
    OBVIOUS
  <2>4. /\ u[m + i] = t[i] /\ (i < n => u[m + i + 1] = t[i + 1])
        /\ (i > 1 => u[m + i - 1] = t[i - 1])
    BY <1>3, <2>2, <2>3
  <2>5. (i < n => m + i < m + n) /\ (i > 1 => m + i > 1)
    OBVIOUS
  <2> QED BY <1>3, <2>1, <2>4, <2>5 DEF Whole
<1>6. \A i \in 1 .. m + n : i \in 1 .. m \/ \E j \in 1 .. n : i = m + j
  <2> TAKE i \in 1 .. m + n
  <2>1. CASE i > m
    <3>1. i - m \in 1 .. n /\ i = m + (i - m)
      BY <2>1
    <3> QED BY <3>1
  <2> QED BY <2>1
<1>7. ASSUME NEW i \in 1 .. m + n
      PROVE  Whole(u, i)
  <2>1. CASE i \in 1 .. m
    BY <1>4, <2>1
  <2>2. CASE \E j \in 1 .. n : i = m + j
    <3>1. PICK j \in 1 .. n : i = m + j
      BY <2>2
    <3>2. Whole(u, m + j)
      BY <1>5
    <3> QED BY <3>1, <3>2
  <2> QED BY <1>6, <2>1, <2>2
<1> QED BY <1>3, <1>7 DEF Utf8, Whole

\* The text of a request is a text.
LEMMA TextTyped ==
  ASSUME NEW r, WellWritten(r) PROVE Text(r) \in Texts
<1>1. r.words \in Seq(Token) /\ r.fields \in Seq(WrittenFields) /\ r.body \in Texts
  BY LettersSeq DEF WellWritten, WrittenFields
<1>2. PICK l, c, f : l = RequestLine(r.words) /\ c = CRLF /\ f = FieldLines(r.fields)
  OBVIOUS
<1>3. l \in Texts /\ c \in Texts /\ f \in Texts
  <2>1. f \in Texts
    BY <1>1, <1>2, FieldLinesTexts
  <2> QED BY <1>1, <1>2, <2>1, RequestLineBytes, CRLFIs
<1>4. PICK x, y, z, t : x = l \o c /\ y = x \o f /\ z = y \o c /\ t = z \o r.body
  OBVIOUS
<1>5. t \in Texts
  BY <1>1, <1>3, <1>4, TextConcat
<1> QED BY <1>2, <1>4, <1>5 DEF Text

\* s begins with t.
StartsWith(s, t) == Len(t) <= Len(s) /\ \A i \in 1 .. Len(t) : s[i] = t[i]

\* What comes after does not change how a text begins.
LEMMA StartsWithConcat ==
  ASSUME NEW s \in Texts, NEW t \in Texts, NEW v \in Texts, NEW u, u = s \o v, StartsWith(s, t)
  PROVE  StartsWith(u, t)
<1>1. PICK m \in Nat, n \in Nat, k \in Nat : m = Len(s) /\ n = Len(t) /\ k = Len(v)
  BY TextIs
<1>2. Follow(u, s, v)
  BY TextAt
<1>3. Len(u) = m + k /\ \A i \in 1 .. m : u[i] = s[i]
  BY <1>1, <1>2 DEF Follow
<1>4. n <= m /\ \A i \in 1 .. n : s[i] = t[i] /\ i \in 1 .. m
  BY <1>1 DEF StartsWith
<1> QED BY <1>1, <1>3, <1>4 DEF StartsWith

\* What has arrived and what is coming are what was written, all of it text, and begin
\* with the first request.
ArrivingInOrder ==
  /\ asked \in Seq(Requests) /\ read_buf \in Texts /\ coming \in Texts
  /\ Utf8(read_buf \o coming)
  /\ asked = <<>> => read_buf = <<>> /\ coming = <<>>
  /\ asked # <<>> => StartsWith(read_buf \o coming, Text(Head(asked)))

\* At first nothing was written.
LEMMA ArrivingAtFirst == ParserInit => ArrivingInOrder
<1> SUFFICES ASSUME ParserInit PROVE ArrivingInOrder
  OBVIOUS
<1>1. asked \in Seq(Requests) /\ read_buf \in Texts /\ coming \in Texts
  <2>1. asked \in Seq(Requests)
    BY DEF ParserInit
  <2> QED BY <2>1, LettersSeq DEF ParserInit
<1>2. read_buf \o coming = <<>>
  BY DEF ParserInit
<1>3. Utf8(<<>>)
  BY DEF Utf8
<1> QED BY <1>1, <1>2, <1>3 DEF ArrivingInOrder, ParserInit

\* A request is written after what is on its way (HttpParser::WriteRequest).
LEMMA WriteRequestKeeps ==
  ASSUME ArrivingInOrder, NEW r \in Requests, WriteRequest(r)
  PROVE  ArrivingInOrder'
<1>1. WellWritten(r)
  BY ParserAssumption
<1>2. PICK t, s, u : t = Text(r) /\ s = read_buf \o coming /\ u = s \o t
  OBVIOUS
<1>3. t \in Texts /\ Utf8(t)
  BY <1>1, <1>2, TextTyped DEF WellWritten
<1>4. read_buf \in Texts /\ coming \in Texts /\ s \in Texts /\ Utf8(s)
  BY <1>2, TextConcat DEF ArrivingInOrder
<1>5. asked' = Append(asked, r) /\ coming' = coming \o t /\ read_buf' = read_buf
  BY <1>2 DEF WriteRequest
<1>6. asked' \in Seq(Requests) /\ asked' # <<>>
  BY <1>5 DEF ArrivingInOrder
<1>7. coming' \in Texts /\ read_buf' \in Texts
  BY <1>3, <1>4, <1>5, TextConcat
<1>8. read_buf' \o coming' = u
  <2>1. (read_buf \o coming) \o t = read_buf \o (coming \o t)
    BY <1>3, <1>4, TextAssociative
  <2> QED BY <1>2, <1>5, <2>1
<1>9. Utf8(u)
  BY <1>2, <1>3, <1>4, Utf8Concat
<1>10. StartsWith(u, Text(Head(asked')))
  <2>1. CASE asked = <<>>
    <3>1. read_buf = <<>> /\ coming = <<>>
      BY <2>1 DEF ArrivingInOrder
    <3>2. s = <<>>
      BY <1>2, <3>1
    <3>3. u = t
      BY <1>2, <1>3, <3>2 DEF Texts
    <3>4. Head(asked') = r
      BY <1>5, <2>1
    <3>5. StartsWith(t, t)
      BY <1>3, TextIs DEF StartsWith
    <3> QED BY <1>2, <3>3, <3>4, <3>5
  <2>2. CASE asked # <<>>
    <3>1. Head(asked') = Head(asked) /\ Head(asked) \in Requests
      BY <1>5, <2>2 DEF ArrivingInOrder
    <3>2. Text(Head(asked)) \in Texts
      BY <3>1, ParserAssumption, TextTyped
    <3>3. StartsWith(s, Text(Head(asked)))
      BY <1>2, <2>2 DEF ArrivingInOrder
    <3>4. StartsWith(u, Text(Head(asked)))
      BY <1>2, <1>3, <1>4, <3>2, <3>3, StartsWithConcat
    <3> QED BY <3>1, <3>4
  <2> QED BY <2>1, <2>2
<1> QED BY <1>6, <1>7, <1>8, <1>9, <1>10 DEF ArrivingInOrder

\* A byte moves from the way to the buffer.
LEMMA ReceiveKeeps ==
  ASSUME ArrivingInOrder, Receive
  PROVE  ArrivingInOrder'
<1>1. read_buf \in Seq(Letters) /\ coming \in Seq(Letters) /\ coming # <<>>
  BY DEF ArrivingInOrder, Receive, Texts
<1>2. read_buf' = Append(read_buf, Head(coming)) /\ coming' = Tail(coming) /\ asked' = asked
  BY DEF Receive
<1>3. read_buf' \in Texts /\ coming' \in Texts
  BY <1>1, <1>2 DEF Texts
<1>4. read_buf' \o coming' = read_buf \o coming
  BY <1>1, <1>2, MovedOver
<1>5. asked # <<>>
  BY <1>1 DEF ArrivingInOrder
<1> QED BY <1>2, <1>3, <1>4, <1>5 DEF ArrivingInOrder

\* In that order, the first request is parsed to what is meant.
LEMMA ArrivingGivesRequests == ArrivingInOrder => RequestsArrive
<1> SUFFICES ASSUME ArrivingInOrder, asked # <<>>, Head(asked).fields # <<>>
             PROVE  Parse(read_buf) =
                      IF read_buf # <<>> /\ Last(read_buf) = "lead" THEN Invalid
                      ELSE IF Len(read_buf) < HeadLength(Head(asked)) THEN Incomplete
                      ELSE IF Len(read_buf) < Len(Text(Head(asked))) /\ Meant(Head(asked)) # Invalid
                           THEN Incomplete
                      ELSE Meant(Head(asked))
  BY DEF RequestsArrive
<1>1. PICK r, b, s, t : r = Head(asked) /\ b = read_buf /\ s = read_buf \o coming /\ t = Text(r)
  OBVIOUS
<1>2. r \in Requests /\ WellWritten(r) /\ r.fields # <<>> /\ t \in Texts
  <2>1. r \in Requests /\ r.fields # <<>>
    BY <1>1 DEF ArrivingInOrder
  <2> QED BY <1>1, <2>1, ParserAssumption, TextTyped
<1>3. b \in Texts /\ coming \in Texts /\ Utf8(s) /\ StartsWith(s, t)
  BY <1>1 DEF ArrivingInOrder
<1>4. Agrees(b, t)
  <2>1. Follow(s, b, coming)
    BY <1>1, <1>3, TextAt
  <2>2. Len(b) \in Nat /\ Len(t) \in Nat
    BY <1>2, <1>3, TextIs
  <2>3. \A i \in 1 .. Len(b) : s[i] = b[i]
    BY <2>1 DEF Follow
  <2>4. \A i \in 1 .. Len(t) : s[i] = t[i]
    BY <1>3 DEF StartsWith
  <2> QED BY <2>2, <2>3, <2>4 DEF Agrees
<1>5. Parse(b) = Due(b, r)
  BY <1>1, <1>2, <1>3, <1>4, ParseFinds
<1>6. Utf8(b) <=> ~(b # <<>> /\ Last(b) = "lead")
  BY <1>1, <1>3, Utf8Beginning
<1> QED BY <1>1, <1>5, <1>6 DEF Due

\* The first request of a connection is parsed when all of it has arrived, to what the
\* client wrote, and not before (parser.rs lines 48-108), however its bytes arrive and
\* whatever arrives after them.
THEOREM RequestsAlwaysArrive == ParserSpec => []RequestsArrive
<1>1. ArrivingInOrder /\ [ParserNext]_parserVars => ArrivingInOrder'
  <2> SUFFICES ASSUME ArrivingInOrder, [ParserNext]_parserVars PROVE ArrivingInOrder'
    OBVIOUS
  <2>1. CASE \E r \in Requests : WriteRequest(r)
    BY <2>1, WriteRequestKeeps
  <2>2. CASE Receive
    BY <2>2, ReceiveKeeps
  <2>3. CASE UNCHANGED parserVars
    BY <2>3 DEF ArrivingInOrder, parserVars
  <2> QED BY <2>1, <2>2, <2>3 DEF ParserNext
<1> QED BY <1>1, ArrivingAtFirst, ArrivingGivesRequests, PTL DEF ParserSpec
=============================================================================
