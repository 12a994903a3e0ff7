---------------------- MODULE AlienIdAttestationProofs ----------------------
(***************************************************************************)
(* Proofs about AlienIdAttestation, for linkages of any lengths: SAS takes *)
(* what the SDK encodes, and a reader who walks the schema through it      *)
(* finds every field of the linkage where the encoder put it.              *)
(***************************************************************************)
EXTENDS AlienIdAttestation, AttestationLayoutProofs, WellFoundedInduction

(***************************************************************************)
(* A set of natural numbers has a least element.  The proofs about strings *)
(* below take a shortest counterexample.                                   *)
(***************************************************************************)
LEMMA LeastElement ==
    ASSUME NEW T, T \subseteq Nat, T # {}
    PROVE  \E m \in T : \A k \in T : m <= k
<1>1. IsWellFoundedOn(OpToRel(<, Nat), Nat)
  BY NatLessThanWellFounded
<1>2. PICK m \in T : \A k \in T : ~ (<<k, m>> \in OpToRel(<, Nat))
  BY <1>1, WFMin
<1>3. ASSUME NEW k \in T
      PROVE  m <= k
  <2>1. k \in Nat /\ m \in Nat
    BY <1>2
  <2>2. k < m => <<k, m>> \in OpToRel(<, Nat)
    BY <2>1 DEF OpToRel
  <2>3. ~ (k < m)
    BY <1>2, <2>2, Zenon
  <2> QED
    BY <2>1, <2>3
<1> QED
  BY <1>2, <1>3

-----------------------------------------------------------------------------
(***************************************************************************)
(* The recursive function of FlattenSeq: its value at i concatenates the   *)
(* first i sequences.                                                      *)
(***************************************************************************)
Flattens(f, seqs, n) ==
    /\ f \in [1..n -> Seq(Byte)]
    /\ \A i \in 1..n : f[i] = IF i = 1 THEN seqs[i] ELSE f[i - 1] \o seqs[i]

(***************************************************************************)
(* Such a function exists for every length: otherwise there would be a     *)
(* least length without one, and the function for the length before it     *)
(* could be extended.                                                      *)
(***************************************************************************)
LEMMA FlattensExists ==
    ASSUME NEW seqs \in Seq(Seq(Byte)), NEW n \in 0..Len(seqs)
    PROVE  \E f : Flattens(f, seqs, n)
<1> DEFINE T == {k \in 0..Len(seqs) : ~ \E f : Flattens(f, seqs, k)}
<1> SUFFICES ASSUME T # {}
             PROVE  FALSE
  OBVIOUS
<1>0. Len(seqs) \in Nat
  BY LenProperties
<1>1. T \subseteq Nat
  BY <1>0
<1>2. PICK m \in T : \A k \in T : m <= k
  <2> HIDE DEF T
  <2> QED
    BY <1>1, LeastElement
<1>3. m \in 0..Len(seqs) /\ m \in Nat /\ ~ \E f : Flattens(f, seqs, m)
  BY <1>1
<1>4. m # 0
  <2>1. Flattens([i \in 1..0 |-> << >>], seqs, 0)
    BY DEF Flattens
  <2> QED
    BY <1>3, <2>1
<1>5. PICK f : Flattens(f, seqs, m - 1)
  <2>1. m - 1 \in 0..Len(seqs) /\ ~ (m <= m - 1)
    BY <1>0, <1>3, <1>4
  <2>2. m - 1 \notin T
    BY <1>2, <2>1
  <2> QED
    BY <2>1, <2>2
<1> DEFINE g == [i \in 1..m |-> IF i < m THEN f[i]
                                ELSE IF i = 1 THEN seqs[i] ELSE f[i - 1] \o seqs[i]]
<1>6. \A i \in 1..m : seqs[i] \in Seq(Byte)
  BY <1>0, <1>3, ElementOfSeq
<1>7. \A i \in 1..m : g[i] \in Seq(Byte)
  <2> SUFFICES ASSUME NEW i \in 1..m
               PROVE  g[i] \in Seq(Byte)
    OBVIOUS
  <2>1. CASE i < m
    BY <1>3, <1>5, <2>1 DEF Flattens
  <2>2. CASE i = m /\ i = 1
    BY <1>3, <1>6, <2>2
  <2>3. CASE i = m /\ i # 1
    <3>1. i - 1 \in 1..(m - 1)
      BY <1>3, <2>3
    <3>2. f[i - 1] \in Seq(Byte) /\ seqs[i] \in Seq(Byte)
      BY <1>5, <1>6, <3>1 DEF Flattens
    <3>3. f[i - 1] \o seqs[i] \in Seq(Byte)
      BY <3>2, ConcatProperties
    <3>4. g[i] = f[i - 1] \o seqs[i]
      <4>1. ~ (i < m) /\ i # 1
        BY <1>3, <2>3
      <4> QED
        BY <4>1, Zenon
    <3> QED
      BY <3>3, <3>4
  <2> QED
    BY <1>3, <2>1, <2>2, <2>3
<1>8. \A i \in 1..m : g[i] = IF i = 1 THEN seqs[i] ELSE g[i - 1] \o seqs[i]
  <2> SUFFICES ASSUME NEW i \in 1..m
               PROVE  g[i] = IF i = 1 THEN seqs[i] ELSE g[i - 1] \o seqs[i]
    OBVIOUS
  <2>1. g[i] = IF i = 1 THEN seqs[i] ELSE f[i - 1] \o seqs[i]
    <3>1. CASE i < m
      <4>1. i \in 1..(m - 1)
        BY <1>3, <3>1
      <4>2. f[i] = IF i = 1 THEN seqs[i] ELSE f[i - 1] \o seqs[i]
        BY <1>5, <4>1 DEF Flattens
      <4> QED
        BY <3>1, <4>2, Zenon
    <3>2. CASE ~ (i < m)
      BY <3>2, Zenon
    <3> QED
      BY <3>1, <3>2
  <2>2. i # 1 => g[i - 1] = f[i - 1]
    <3> SUFFICES ASSUME i # 1
                 PROVE  g[i - 1] = f[i - 1]
      OBVIOUS
    <3>1. i - 1 \in 1..m /\ i - 1 < m
      BY <1>3
    <3> QED
      BY <3>1, Zenon
  <2> HIDE DEF g
  <2>3. CASE i = 1
    BY <2>1, <2>3
  <2>4. CASE i # 1
    BY <2>1, <2>2, <2>4, Zenon
  <2> QED
    BY <2>3, <2>4
<1>9. Flattens(g, seqs, m)
  BY <1>7, <1>8 DEF Flattens
<1> QED
  BY <1>3, <1>9

(***************************************************************************)
(* Byte sequences, however many, flatten to a byte sequence.               *)
(***************************************************************************)
LEMMA FlattenSeqType ==
    ASSUME NEW seqs \in Seq(Seq(Byte))
    PROVE  FlattenSeq(seqs) \in Seq(Byte)
<1> DEFINE N == Len(seqs)
           flatten == CHOOSE f : f = [i \in 1..N |-> IF i = 1 THEN seqs[i] ELSE f[i - 1] \o seqs[i]]
<1>0. N \in Nat
  BY LenProperties
<1>1. CASE N = 0
  <2>1. seqs = << >>
    BY <1>1, EmptySeq
  <2>2. FlattenSeq(seqs) = seqs
    BY <1>1 DEF FlattenSeq
  <2> QED
    BY <2>1, <2>2, EmptySeq
<1>2. CASE N # 0
  <2>1. PICK f : Flattens(f, seqs, N)
    BY <1>0, FlattensExists
  <2>2. f = [i \in 1..N |-> IF i = 1 THEN seqs[i] ELSE f[i - 1] \o seqs[i]]
    BY <2>1 DEF Flattens
  <2>3. flatten = [i \in 1..N |-> IF i = 1 THEN seqs[i] ELSE flatten[i - 1] \o seqs[i]]
    BY <2>2
  <2> HIDE DEF flatten
  <2>4. \A i \in 1..N : flatten[i] \in Seq(Byte)
    <3> DEFINE T == {i \in 1..N : flatten[i] \notin Seq(Byte)}
    <3> SUFFICES ASSUME T # {}
                 PROVE  FALSE
      OBVIOUS
    <3>1. T \subseteq Nat
      BY <1>0
    <3>2. PICK m \in T : \A k \in T : m <= k
      <4> HIDE DEF T
      <4> QED
        BY <3>1, LeastElement
    <3>3. m \in 1..N /\ m \in Nat /\ seqs[m] \in Seq(Byte)
      BY <1>0, ElementOfSeq
    <3>4. flatten[m] = IF m = 1 THEN seqs[m] ELSE flatten[m - 1] \o seqs[m]
      BY <2>3, <3>3
    <3>5. CASE m = 1
      BY <3>3, <3>4, <3>5
    <3>6. CASE m # 1
      <4>1. m - 1 \in 1..N /\ ~ (m <= m - 1)
        BY <1>0, <3>3, <3>6
      <4>2. flatten[m - 1] \in Seq(Byte)
        BY <3>2, <4>1
      <4>3. flatten[m - 1] \o seqs[m] \in Seq(Byte)
        BY <3>3, <4>2, ConcatProperties
      <4> QED
        BY <3>4, <3>6, <4>3
    <3> QED
      BY <3>5, <3>6
  <2>5. FlattenSeq(seqs) = flatten[N]
    BY <1>2 DEF FlattenSeq, flatten
  <2> QED
    BY <1>0, <1>2, <2>4, <2>5
<1> QED
  BY <1>1, <1>2

(***************************************************************************)
(* The UTF-8 form of a string of any length is a byte sequence.            *)
(***************************************************************************)
LEMMA BufferFromType ==
    ASSUME NEW string \in Strings
    PROVE  BufferFrom(string) \in Seq(Byte)
<1>1. string \in Seq(DOMAIN Utf8) /\ Utf8 \in [DOMAIN Utf8 -> Seq(Byte)]
  BY LinkageAssumption
<1>2. /\ Len(string) \in Nat /\ DOMAIN string = 1..Len(string)
      /\ \A i \in 1..Len(string) : string[i] \in DOMAIN Utf8
  BY <1>1, LenProperties, ElementOfSeq
<1>3. \A i \in 1..Len(string) : Utf8[string[i]] \in Seq(Byte)
  BY <1>1, <1>2
<1>4. [i \in DOMAIN string |-> Utf8[string[i]]] \in Seq(Seq(Byte))
  BY <1>2, <1>3
<1> QED
  BY <1>4, FlattenSeqType DEF BufferFrom

-----------------------------------------------------------------------------
(***************************************************************************)
(* The walk of validate_data, field by field: the recursive function       *)
(* unfolds.                                                                *)
(***************************************************************************)
LEMMA FieldEndsUnrolled ==
    ASSUME NEW bytes
    PROVE  LET end == FieldEnds(bytes)
           IN  /\ end[0] = 0
               /\ \A n \in 1..6 : end[n] = end[n - 1] + FieldSize(SCHEMA_LAYOUT[n], bytes, end[n - 1])
<1> DEFINE next(from, n) == from + FieldSize(SCHEMA_LAYOUT[n], bytes, from)
           e1 == next(0, 1)
           e2 == next(e1, 2)
           e3 == next(e2, 3)
           e4 == next(e3, 4)
           e5 == next(e4, 5)
           e6 == next(e5, 6)
           witness == [n \in 0..6 |-> IF n = 0 THEN 0 ELSE IF n = 1 THEN e1
                        ELSE IF n = 2 THEN e2 ELSE IF n = 3 THEN e3 ELSE IF n = 4 THEN e4
                        ELSE IF n = 5 THEN e5 ELSE e6]
           end == CHOOSE f : f = [n \in 0..Len(SCHEMA_LAYOUT) |->
                                      IF n = 0 THEN 0 ELSE next(f[n - 1], n)]
<1>0. Len(SCHEMA_LAYOUT) = 6
  BY DEF SCHEMA_LAYOUT
<1>1. FieldEnds(bytes) = end
  BY DEF FieldEnds
<1> HIDE DEF next
<1>2. witness = [n \in 0..6 |-> IF n = 0 THEN 0 ELSE next(witness[n - 1], n)]
  <2> SUFFICES ASSUME NEW n \in 0..6
               PROVE  witness[n] = IF n = 0 THEN 0 ELSE next(witness[n - 1], n)
    OBVIOUS
  <2>1. n \in {0, 1, 2, 3, 4, 5, 6}
    OBVIOUS
  <2> QED
    BY <2>1
<1>3. end = [n \in 0..6 |-> IF n = 0 THEN 0 ELSE next(end[n - 1], n)]
  BY <1>0, <1>2
<1> HIDE DEF end
<1>4. end[0] = 0 /\ \A n \in 1..6 : end[n] = next(end[n - 1], n)
  BY <1>3
<1> QED
  BY <1>1, <1>4 DEF next

(***************************************************************************)
(* A front of a sequence of bytes, element by element.                     *)
(***************************************************************************)
LEMMA PrefixElements ==
    ASSUME NEW front \in Seq(Byte), NEW all \in Seq(Byte)
    PROVE  /\ Len(front) \in Nat /\ Len(all) \in Nat
           /\ IsPrefix(front, all) <=> /\ Len(front) <= Len(all)
                                      /\ \A i \in 1..Len(front) : all[i] = front[i]
<1>1. Len(front) \in Nat /\ Len(all) \in Nat
  BY LenProperties
<1>2. SubSeq(front, 1, Len(front)) = front
  BY SubSeqFull
<1>3. ASSUME Len(front) <= Len(all)
      PROVE  SubSeq(all, 1, Len(front)) = front <=> \A i \in 1..Len(front) : all[i] = front[i]
  <2>1. \A i \in 1..Len(front) : all[i] \in Byte
    BY <1>1, <1>3, ElementOfSeq
  <2>2. /\ SubSeq(all, 1, Len(front)) \in Seq(Byte)
        /\ Len(SubSeq(all, 1, Len(front))) = Len(front)
        /\ \A i \in 1..Len(front) : SubSeq(all, 1, Len(front))[i] = all[i]
    <3>1. /\ SubSeq(all, 1, Len(front)) \in Seq(Byte)
          /\ Len(SubSeq(all, 1, Len(front)))
                 = IF 1 <= Len(front) THEN Len(front) - 1 + 1 ELSE 0
          /\ \A i \in 1..(Len(front) - 1 + 1) :
                 SubSeq(all, 1, Len(front))[i] = all[1 + i - 1]
      BY <1>1, <2>1, SubSeqProperties
    <3> QED
      BY <1>1, <3>1
  <2>3. ASSUME \A i \in 1..Len(front) : all[i] = front[i]
        PROVE  SubSeq(all, 1, Len(front)) = front
    BY <2>2, <2>3, SeqEqual
  <2> QED
    BY <2>2, <2>3
<1> QED
  BY <1>1, <1>2, <1>3 DEF IsPrefix

(***************************************************************************)
(* A concatenation starts with its first part, and so does whatever starts *)
(* with the concatenation.                                                 *)
(***************************************************************************)
LEMMA FirstPartIsPrefix ==
    ASSUME NEW s \in Seq(Byte), NEW t \in Seq(Byte), NEW all \in Seq(Byte),
           IsPrefix(s \o t, all)
    PROVE  s \o t \in Seq(Byte) /\ IsPrefix(s, all)
<1> DEFINE front == s \o t
<1>1. /\ front \in Seq(Byte) /\ Len(front) = Len(s) + Len(t)
      /\ Len(s) \in Nat /\ Len(t) \in Nat
      /\ \A i \in 1..Len(s) : front[i] = s[i]
  BY ConcatElements
<1> HIDE DEF front
<1>2. IsPrefix(front, all)
  BY DEF front
<1>3. /\ Len(front) <= Len(all) /\ Len(all) \in Nat
      /\ \A i \in 1..Len(front) : all[i] = front[i]
  BY <1>1, <1>2, PrefixElements
<1>4. Len(s) <= Len(all) /\ \A i \in 1..Len(s) : all[i] = s[i]
  BY <1>1, <1>3
<1>5. IsPrefix(s, all)
  BY <1>4, PrefixElements
<1> QED
  BY <1>1, <1>5 DEF front

(***************************************************************************)
(* The whole data field is the longest of the prefixes that are walked.    *)
(***************************************************************************)
LEMMA IsOwnPrefix == \A s \in Seq(Byte) : IsPrefix(s, s)
  BY DEF IsPrefix

\* A field of the encoding whose length precedes it.
Prefixed(content) == u32LE(Len(content)) \o content

(***************************************************************************)
(* A field with its length before it, in bytes that start with what comes  *)
(* before the field and the field itself: the walk takes it whole, and the *)
(* reader finds its contents.                                              *)
(***************************************************************************)
LEMMA SizedFieldRead ==
    ASSUME NEW bytes \in Seq(Byte), NEW before \in Seq(Byte), NEW content \in Seq(Byte),
           Len(content) \in u32, NEW front, front = before \o Prefixed(content),
           IsPrefix(front, bytes), NEW type \in {"VecU8", "String"}
    PROVE  /\ Len(before) + FieldSize(type, bytes, Len(before)) = Len(front)
           /\ Slice(bytes, Len(before) + 2, Len(front)) = content
<1> DEFINE length == u32_to_le_bytes(Len(content))
           field == length \o content
           joined == before \o field
           from == Len(before)
<1>0. front = joined
  BY DEF Prefixed, u32LE
<1>1. /\ length \in Seq(Byte) /\ Len(length) = 2 /\ u32_from_le_bytes(length) = Len(content)
  BY u32RoundTrip
<1> HIDE DEF length
<1>2. /\ field \in Seq(Byte) /\ Len(field) = Len(length) + Len(content) /\ Len(content) \in Nat
      /\ \A i \in 1..Len(length) : field[i] = length[i]
      /\ \A i \in 1..Len(content) : field[Len(length) + i] = content[i]
  BY <1>1, ConcatElements
<1> HIDE DEF field
<1>3. /\ joined \in Seq(Byte) /\ Len(joined) = from + Len(field) /\ from \in Nat
      /\ \A i \in 1..Len(field) : joined[from + i] = field[i]
  BY <1>2, ConcatElements
<1> HIDE DEF joined, from
<1>4. /\ front \in Seq(Byte) /\ Len(front) = from + Len(field)
      /\ \A i \in 1..Len(field) : front[from + i] = field[i]
  BY <1>0, <1>3
<1>5. /\ Len(front) <= Len(bytes) /\ Len(bytes) \in Nat
      /\ \A i \in 1..Len(front) : bytes[i] = front[i]
  BY <1>3, <1>4, PrefixElements
<1>6. Len(field) = 2 + Len(content) /\ Len(front) = from + (2 + Len(content))
  BY <1>1, <1>2, <1>3, <1>4
<1>7. \A i \in 1..Len(field) : bytes[from + i] = field[i]
  <2> SUFFICES ASSUME NEW i \in 1..Len(field)
               PROVE  bytes[from + i] = field[i]
    OBVIOUS
  <2>1. from + i \in 1..Len(front) /\ front[from + i] = field[i]
    BY <1>2, <1>3, <1>4, <1>6
  <2> QED
    BY <1>5, <2>1
<1>8. u32_from_le_bytes(Slice(bytes, from, from + 2)) = Len(content) /\ from + 2 <= Len(bytes)
  <2>1. from + 2 <= Len(bytes)
    BY <1>2, <1>3, <1>4, <1>5, <1>6
  <2>2. /\ Slice(bytes, from, from + 2)[1] = bytes[from + 1]
        /\ Slice(bytes, from, from + 2)[2] = bytes[from + 2]
    BY <1>3, <1>4, <2>1, SliceOfTwo
  <2>3. bytes[from + 1] = length[1] /\ bytes[from + 2] = length[2]
    BY <1>1, <1>2, <1>6, <1>7
  <2> QED
    BY <1>1, <2>1, <2>2, <2>3 DEF u32_from_le_bytes
<1>9. FieldSize(type, bytes, from) = 2 + Len(content)
  <2>1. ~ (from + 2 > Len(bytes))
    BY <1>3, <1>4, <1>5, <1>8
  <2>2. type # "U8" /\ type # "U64" /\ Sized(type)
    BY DEF Sized
  <2> QED
    BY <1>8, <2>1, <2>2 DEF FieldSize
<1>10. Slice(bytes, from + 2, from + (2 + Len(content))) = content
  <2> DEFINE read == SubSeq(bytes, (from + 2) + 1, from + (2 + Len(content)))
  <2>1. \A i \in ((from + 2) + 1)..(from + (2 + Len(content))) : bytes[i] \in Byte
    <3>1. \A i \in 1..Len(bytes) : bytes[i] \in Byte
      BY ElementOfSeq
    <3> QED
      BY <1>2, <1>3, <1>4, <1>5, <1>6, <3>1
  <2>2. /\ read \in Seq(Byte)
        /\ Len(read) = IF (from + 2) + 1 <= from + (2 + Len(content))
                       THEN (from + (2 + Len(content))) - ((from + 2) + 1) + 1 ELSE 0
        /\ \A i \in 1..((from + (2 + Len(content))) - ((from + 2) + 1) + 1) :
               read[i] = bytes[((from + 2) + 1) + i - 1]
    BY <1>2, <1>3, <1>4, <2>1, SubSeqProperties
  <2> HIDE DEF read
  <2>3. Len(read) = Len(content) /\ \A i \in 1..Len(content) : read[i] = bytes[from + (2 + i)]
    <3>1. from \in Nat /\ Len(content) \in Nat
      BY <1>2, <1>3
    <3> QED
      BY <2>2, <3>1
  <2>4. \A i \in 1..Len(content) : bytes[from + (2 + i)] = content[i]
    <3> SUFFICES ASSUME NEW i \in 1..Len(content)
                 PROVE  bytes[from + (2 + i)] = content[i]
      OBVIOUS
    <3>1. 2 + i \in 1..Len(field)
      BY <1>2, <1>6
    <3>2. field[2 + i] = content[i]
      BY <1>1, <1>2
    <3> QED
      BY <1>7, <3>1, <3>2
  <2>5. read = content
    BY <2>2, <2>3, <2>4, SeqEqual
  <2> QED
    BY <2>5 DEF Slice, read
<1> QED
  BY <1>3, <1>6, <1>9, <1>10 DEF from

\* The sizes of the other fields do not depend on the bytes.
LEMMA PlainFieldSizes ==
    \A bytes, from : FieldSize("U8", bytes, from) = 1 /\ FieldSize("U64", bytes, from) = 4
<1> SUFFICES ASSUME NEW bytes, NEW from
             PROVE  FieldSize("U8", bytes, from) = 1 /\ FieldSize("U64", bytes, from) = 4
  OBVIOUS
<1>1. "U8" # "U64" /\ ~ Sized("U8") /\ ~ Sized("U64")
  BY DEF Sized
<1> QED
  BY <1>1 DEF FieldSize

\* A field with its length is a sequence of bytes.
LEMMA SizedBytesType ==
    ASSUME NEW content \in Seq(Byte), Len(content) \in u32
    PROVE  Prefixed(content) \in Seq(Byte)
<1>1. u32_to_le_bytes(Len(content)) \in Seq(Byte)
  BY u32RoundTrip
<1> QED
  BY <1>1, ConcatElements DEF Prefixed, u32LE

(***************************************************************************)
(* A timestamp that the encoder writes as an i64 is read back as the u64   *)
(* of the schema; a negative one wraps.                                    *)
(***************************************************************************)
LEMMA TimestampReadBack ==
    ASSUME NEW n \in i64
    PROVE  /\ i64LE(n) \in Seq(Byte) /\ Len(i64LE(n)) = 4
           /\ u64_from_le_bytes(i64LE(n)) = IF n >= 0 THEN n ELSE n + LongWord
  BY i64RoundTrip DEF i64LE

(***************************************************************************)
(* What the SDK encodes passes the check of SAS, and each field of the     *)
(* schema is read back from it.                                            *)
(***************************************************************************)
LEMMA EncodedReadBack ==
    ASSUME NEW params \in AlienIdAttestationData, Encodable(params)
    PROVE  LET bytes == encodeAlienIdAttestationData(params)
           IN  /\ bytes \in Seq(Byte) /\ validate_data(bytes)
               /\ \A n \in DOMAIN SCHEMA_FIELD_NAMES :
                      DecodedField(bytes, n) = AsRead(params)[SCHEMA_FIELD_NAMES[n]]
<1> DEFINE address == params.alienAccountAddress
           version == params.alienIDVersion % Base
           chain == BufferFrom(params.alienChainId)
           wallet == BufferFrom(params.solanaAddress)
           proof == params.linkageProof
           time == params.timestamp
           read == IF time >= 0 THEN time ELSE time + LongWord
           q1 == Prefixed(address)
           q2 == q1 \o <<version>>
           q3 == q2 \o Prefixed(chain)
           q4 == q3 \o Prefixed(wallet)
           q5 == q4 \o Prefixed(proof)
           bytes == q5 \o i64LE(time)
           end == FieldEnds(bytes)
           none == << >>
<1>1. /\ address \in Seq(Byte) /\ Len(address) \in u32
      /\ chain \in Seq(Byte) /\ Len(chain) \in u32
      /\ wallet \in Seq(Byte) /\ Len(wallet) \in u32
      /\ proof \in Seq(Byte) /\ Len(proof) \in u32
  <2>1. address \in Seq(Byte) /\ proof \in Seq(Byte)
    BY LinkageAssumption DEF AlienIdAttestationData
  <2>2. chain \in Seq(Byte) /\ wallet \in Seq(Byte)
    BY BufferFromType DEF AlienIdAttestationData
  <2> QED
    BY <2>1, <2>2 DEF Encodable
<1>2. version \in Byte /\ <<version>> \in Seq(Byte)
  <2>1. params.alienIDVersion \in Int /\ Base \in Nat /\ Base > 1
    BY LinkageAssumption, LayoutAssumption DEF AlienIdAttestationData
  <2>2. version \in 0..(Base - 1)
    BY <2>1
  <2> QED
    BY <2>2 DEF Byte
<1>3. i64LE(time) \in Seq(Byte) /\ Len(i64LE(time)) = 4 /\ u64_from_le_bytes(i64LE(time)) = read
  BY TimestampReadBack DEF Encodable
<1>4. encodeAlienIdAttestationData(params) = bytes
  BY DEF encodeAlienIdAttestationData, Prefixed
<1>5. /\ AsRead(params).alienAccountAddress = address /\ AsRead(params).alienIDVersion = version
      /\ AsRead(params).alienChainId = chain /\ AsRead(params).solanaAddress = wallet
      /\ AsRead(params).linkageProof = proof /\ AsRead(params).timestamp = read
  BY DEF AsRead, AlienIdAttestationData
<1>6. /\ end[0] = 0
      /\ end[1] = end[0] + FieldSize("VecU8", bytes, end[0])
      /\ end[2] = end[1] + FieldSize("U8", bytes, end[1])
      /\ end[3] = end[2] + FieldSize("String", bytes, end[2])
      /\ end[4] = end[3] + FieldSize("String", bytes, end[3])
      /\ end[5] = end[4] + FieldSize("VecU8", bytes, end[4])
      /\ end[6] = end[5] + FieldSize("U64", bytes, end[5])
  <2> HIDE DEF bytes
  <2>1. /\ end[0] = 0
        /\ \A n \in 1..6 : end[n] = end[n - 1] + FieldSize(SCHEMA_LAYOUT[n], bytes, end[n - 1])
    BY FieldEndsUnrolled
  <2> HIDE DEF end
  <2> QED
    BY <2>1 DEF SCHEMA_LAYOUT
<1> HIDE DEF address, version, chain, wallet, proof, time, read
<1>7. /\ q1 \in Seq(Byte) /\ q2 \in Seq(Byte) /\ q3 \in Seq(Byte) /\ q4 \in Seq(Byte)
      /\ q5 \in Seq(Byte) /\ bytes \in Seq(Byte)
  <2>1. q1 \in Seq(Byte)
    BY <1>1, SizedBytesType
  <2>2. q2 \in Seq(Byte)
    BY <1>2, <2>1, ConcatElements
  <2>3. q3 \in Seq(Byte)
    BY <1>1, <2>2, SizedBytesType, ConcatElements
  <2>4. q4 \in Seq(Byte)
    BY <1>1, <2>3, SizedBytesType, ConcatElements
  <2>5. q5 \in Seq(Byte)
    BY <1>1, <2>4, SizedBytesType, ConcatElements
  <2>6. bytes \in Seq(Byte)
    BY <1>3, <2>5, ConcatElements
  <2> QED
    BY <2>1, <2>2, <2>3, <2>4, <2>5, <2>6
<1>8. /\ q1 = none \o Prefixed(address) /\ q2 = q1 \o <<version>>
      /\ q3 = q2 \o Prefixed(chain) /\ q4 = q3 \o Prefixed(wallet)
      /\ q5 = q4 \o Prefixed(proof) /\ bytes = q5 \o i64LE(time)
  BY <1>7, ConcatEmptySeq
<1>9. /\ Prefixed(address) \in Seq(Byte) /\ Prefixed(chain) \in Seq(Byte)
      /\ Prefixed(wallet) \in Seq(Byte) /\ Prefixed(proof) \in Seq(Byte)
      /\ none \in Seq(Byte) /\ Len(none) = 0
  BY <1>1, SizedBytesType, EmptySeq
<1>0. bytes = q5 \o i64LE(time) \o none
  BY <1>7, ConcatEmptySeq
<1> HIDE DEF none, q1, q2, q3, q4, q5, bytes, end
<1>10. /\ IsPrefix(q1, bytes) /\ IsPrefix(q2, bytes) /\ IsPrefix(q3, bytes)
       /\ IsPrefix(q4, bytes) /\ IsPrefix(q5, bytes)
  <2>1. IsPrefix(q5, bytes)
    BY <1>3, <1>7, <1>8, FirstPartIsPrefix, IsOwnPrefix
  <2>2. IsPrefix(q4, bytes)
    BY <1>7, <1>8, <1>9, <2>1, FirstPartIsPrefix
  <2>3. IsPrefix(q3, bytes)
    BY <1>7, <1>8, <1>9, <2>2, FirstPartIsPrefix
  <2>4. IsPrefix(q2, bytes)
    BY <1>7, <1>8, <1>9, <2>3, FirstPartIsPrefix
  <2>5. IsPrefix(q1, bytes)
    BY <1>2, <1>7, <1>8, <2>4, FirstPartIsPrefix
  <2> QED
    BY <2>1, <2>2, <2>3, <2>4, <2>5
<1>11. /\ Len(q1) \in Nat /\ Len(q2) \in Nat /\ Len(q3) \in Nat /\ Len(q4) \in Nat
       /\ Len(q5) \in Nat /\ Len(address) \in Nat /\ Len(chain) \in Nat
       /\ Len(wallet) \in Nat /\ Len(proof) \in Nat
  BY <1>1, <1>7, LenProperties
<1>12. end[1] = Len(q1) /\ Slice(bytes, end[0] + 2, end[1]) = address
  <2>1. end[1] = end[0] + FieldSize("VecU8", bytes, end[0])
    BY <1>6
  <2>2. /\ Len(none) + FieldSize("VecU8", bytes, Len(none)) = Len(q1)
        /\ Slice(bytes, Len(none) + 2, Len(q1)) = address
    <3>1. /\ bytes \in Seq(Byte) /\ none \in Seq(Byte) /\ q1 \in Seq(Byte)
          /\ IsPrefix(q1, bytes) /\ q1 = none \o Prefixed(address)
      BY <1>7, <1>8, <1>9, <1>10
    <3>2. address \in Seq(Byte) /\ Len(address) \in u32
      BY <1>1
    <3> QED
      BY <3>1, <3>2, SizedFieldRead
  <2> QED
    BY <1>6, <1>9, <2>1, <2>2
<1>13. end[2] = Len(q2) /\ bytes[end[2]] = version
  <2>1. /\ Len(q2) = Len(q1) + Len(<<version>>) /\ Len(<<version>>) = 1
        /\ \A i \in 1..Len(<<version>>) : q2[Len(q1) + i] = <<version>>[i]
    BY <1>2, <1>7, <1>8, ConcatElements
  <2>2. Len(q2) = Len(q1) + 1 /\ q2[Len(q1) + 1] = version
    BY <2>1
  <2>3. bytes[Len(q2)] = q2[Len(q2)]
    <3>1. \A i \in 1..Len(q2) : bytes[i] = q2[i]
      BY <1>7, <1>10, PrefixElements
    <3> QED
      BY <1>11, <2>2, <3>1
  <2>4. FieldSize("U8", bytes, end[1]) = 1
    BY PlainFieldSizes
  <2>5. end[2] = Len(q2)
    BY <1>6, <1>11, <1>12, <2>2, <2>4
  <2> QED
    BY <2>2, <2>3, <2>5
<1>14. end[3] = Len(q3) /\ Slice(bytes, end[2] + 2, end[3]) = chain
  <2>1. end[3] = end[2] + FieldSize("String", bytes, end[2])
    BY <1>6
  <2>2. /\ Len(q2) + FieldSize("String", bytes, Len(q2)) = Len(q3)
        /\ Slice(bytes, Len(q2) + 2, Len(q3)) = chain
    <3>1. /\ bytes \in Seq(Byte) /\ q2 \in Seq(Byte) /\ q3 \in Seq(Byte)
          /\ IsPrefix(q3, bytes) /\ q3 = q2 \o Prefixed(chain)
      BY <1>7, <1>8, <1>9, <1>10
    <3>2. chain \in Seq(Byte) /\ Len(chain) \in u32
      BY <1>1
    <3> QED
      BY <3>1, <3>2, SizedFieldRead
  <2> QED
    BY <1>13, <2>1, <2>2
<1>15. end[4] = Len(q4) /\ Slice(bytes, end[3] + 2, end[4]) = wallet
  <2>1. end[4] = end[3] + FieldSize("String", bytes, end[3])
    BY <1>6
  <2>2. /\ Len(q3) + FieldSize("String", bytes, Len(q3)) = Len(q4)
        /\ Slice(bytes, Len(q3) + 2, Len(q4)) = wallet
    <3>1. /\ bytes \in Seq(Byte) /\ q3 \in Seq(Byte) /\ q4 \in Seq(Byte)
          /\ IsPrefix(q4, bytes) /\ q4 = q3 \o Prefixed(wallet)
      BY <1>7, <1>8, <1>9, <1>10
    <3>2. wallet \in Seq(Byte) /\ Len(wallet) \in u32
      BY <1>1
    <3> QED
      BY <3>1, <3>2, SizedFieldRead
  <2> QED
    BY <1>14, <2>1, <2>2
<1>16. end[5] = Len(q5) /\ Slice(bytes, end[4] + 2, end[5]) = proof
  <2>1. end[5] = end[4] + FieldSize("VecU8", bytes, end[4])
    BY <1>6
  <2>2. /\ Len(q4) + FieldSize("VecU8", bytes, Len(q4)) = Len(q5)
        /\ Slice(bytes, Len(q4) + 2, Len(q5)) = proof
    <3>1. /\ bytes \in Seq(Byte) /\ q4 \in Seq(Byte) /\ q5 \in Seq(Byte)
          /\ IsPrefix(q5, bytes) /\ q5 = q4 \o Prefixed(proof)
      BY <1>7, <1>8, <1>9, <1>10
    <3>2. proof \in Seq(Byte) /\ Len(proof) \in u32
      BY <1>1
    <3> QED
      BY <3>1, <3>2, SizedFieldRead
  <2> QED
    BY <1>15, <2>1, <2>2
<1>17. /\ end[6] = Len(q5) + 4 /\ end[6] = Len(bytes)
       /\ u64_from_le_bytes(Slice(bytes, end[5], end[6])) = read
  <2> DEFINE last == i64LE(time)
  <2>1. last \in Seq(Byte) /\ Len(last) = 4 /\ u64_from_le_bytes(last) = read
    BY <1>3
  <2> HIDE DEF last
  <2>2. /\ Len(q5 \o last \o none) = Len(q5) + Len(last) + Len(none)
        /\ \A i \in 1..Len(last) :
               Slice(q5 \o last \o none, Len(q5), Len(q5) + Len(last))[i] = last[i]
    <3>1. q5 \in Seq(Byte) /\ last \in Seq(Byte) /\ none \in Seq(Byte)
      BY <1>7, <1>9, <2>1
    <3> QED
      BY <3>1, FieldReadBack, Zenon
  <2>3. bytes = q5 \o last \o none
    BY <1>0 DEF last
  <2>4. /\ Len(bytes) = Len(q5) + Len(last) + Len(none)
        /\ \A i \in 1..Len(last) : Slice(bytes, Len(q5), Len(q5) + Len(last))[i] = last[i]
    BY <2>2, <2>3, Zenon
  <2>5. /\ Len(bytes) = Len(q5) + 4
        /\ \A i \in 1..4 : Slice(bytes, Len(q5), Len(q5) + 4)[i] = last[i]
    BY <1>9, <1>11, <2>1, <2>4
  <2>6. FieldSize("U64", bytes, end[5]) = 4
    BY PlainFieldSizes
  <2>7. end[6] = Len(q5) + 4
    BY <1>6, <1>16, <2>6
  <2>8. u64_from_le_bytes(Slice(bytes, Len(q5), Len(q5) + 4)) = u64_from_le_bytes(last)
    BY <2>5, SameBytesSameValue
  <2> QED
    BY <1>16, <2>1, <2>5, <2>7, <2>8
<1>18. validate_data(bytes)
  BY <1>17 DEF validate_data, end, SCHEMA_LAYOUT
<1>19. /\ DecodedField(bytes, 1) = address /\ DecodedField(bytes, 2) = version
       /\ DecodedField(bytes, 3) = chain /\ DecodedField(bytes, 4) = wallet
       /\ DecodedField(bytes, 5) = proof /\ DecodedField(bytes, 6) = read
  <2>1. FieldEnds(bytes) = end
    BY DEF end
  <2> USE <2>1 DEF DecodedField, SCHEMA_LAYOUT, Sized
  <2>2. DecodedField(bytes, 1) = address
    BY <1>6, <1>12
  <2>3. DecodedField(bytes, 2) = version
    BY <1>13
  <2>4. DecodedField(bytes, 3) = chain
    BY <1>14
  <2>5. DecodedField(bytes, 4) = wallet
    BY <1>15
  <2>6. DecodedField(bytes, 5) = proof
    BY <1>16
  <2>7. DecodedField(bytes, 6) = read
    BY <1>17
  <2> QED
    BY <2>2, <2>3, <2>4, <2>5, <2>6, <2>7
<1>20. \A n \in DOMAIN SCHEMA_FIELD_NAMES :
          DecodedField(bytes, n) = AsRead(params)[SCHEMA_FIELD_NAMES[n]]
  <2> SUFFICES ASSUME NEW n \in DOMAIN SCHEMA_FIELD_NAMES
               PROVE  DecodedField(bytes, n) = AsRead(params)[SCHEMA_FIELD_NAMES[n]]
    OBVIOUS
  <2>1. n \in {1, 2, 3, 4, 5, 6}
    BY DEF SCHEMA_FIELD_NAMES
  <2> QED
    BY <1>5, <1>19, <2>1 DEF SCHEMA_FIELD_NAMES
<1> QED
  BY <1>4, <1>7, <1>18, <1>20

-----------------------------------------------------------------------------
(***************************************************************************)
(* The data field of an attestation account is the one it was made with.   *)
(***************************************************************************)
LEMMA DataFieldReadBack ==
    ASSUME NEW payload \in Seq(Byte), Len(payload) \in u32, NEW signer \in PublicKeys,
           NEW expiry \in Issuable, NEW tokenAccount \in PublicKeys
    PROVE  DataField(AttestationBytes(payload, signer, expiry, tokenAccount)) = payload
<1> DEFINE bytes == AttestationBytes(payload, signer, expiry, tokenAccount)
           first == base_offset + 2
<1>1. /\ data_field_len(bytes) = Len(payload)
      /\ \A i \in 1..Len(payload) : bytes[first + i] = payload[i]
      /\ Len(payload) \in Nat /\ first \in Nat
  BY LayoutReadBack, HeaderSize, LenProperties
<1>2. DataField(bytes) = SubSeq(bytes, first + 1, first + Len(payload))
  BY <1>1 DEF DataField, Slice
<1> HIDE DEF bytes, first
<1>3. \A i \in (first + 1)..(first + Len(payload)) : bytes[i] \in Byte
  <2> SUFFICES ASSUME NEW i \in (first + 1)..(first + Len(payload))
               PROVE  bytes[i] \in Byte
    OBVIOUS
  <2>1. i - first \in 1..Len(payload) /\ first + (i - first) = i
    BY <1>1
  <2>2. payload[i - first] \in Byte
    BY <2>1, ElementOfSeq
  <2> QED
    BY <1>1, <2>1, <2>2
<1> DEFINE read == SubSeq(bytes, first + 1, first + Len(payload))
<1>4. /\ read \in Seq(Byte)
      /\ Len(read) = IF first + 1 <= first + Len(payload)
                     THEN (first + Len(payload)) - (first + 1) + 1 ELSE 0
      /\ \A i \in 1..((first + Len(payload)) - (first + 1) + 1) :
             read[i] = bytes[(first + 1) + i - 1]
  BY <1>1, <1>3, SubSeqProperties
<1> HIDE DEF read
<1>5. Len(read) = Len(payload) /\ \A i \in 1..Len(payload) : read[i] = bytes[first + i]
  BY <1>1, <1>4
<1>6. read = payload
  BY <1>1, <1>4, <1>5, SeqEqual
<1> QED
  BY <1>2, <1>6 DEF read, bytes

-----------------------------------------------------------------------------
(***************************************************************************)
(* The inductive invariant: a draft holds a linkage that could be encoded, *)
(* and its encoding; the account of an attested linkage is laid out around *)
(* that encoding, with the expiry that SAS issued.                         *)
(***************************************************************************)
\* A transaction that is built and not yet landed.
DraftIsEncoding ==
    draft # NoLinkage =>
        /\ draft.params \in AlienIdAttestationData /\ Encodable(draft.params)
        /\ draft.bytes = encodeAlienIdAttestationData(draft.params)

\* An attestation that exists; a payload too long for its length is never sent.
AccountHoldsEncoding ==
    attested # NoLinkage =>
        /\ attested \in AlienIdAttestationData /\ Encodable(attested)
        /\ Len(encodeAlienIdAttestationData(attested)) \in u32
        /\ issued \in Issuable
        /\ \E signer, tokenAccount \in PublicKeys :
               data = AttestationBytes(encodeAlienIdAttestationData(attested),
                                       signer, issued, tokenAccount)

LinkageInv == DraftIsEncoding /\ AccountHoldsEncoding

(***************************************************************************)
(* Encoding establishes the first half; submitting carries it over to the  *)
(* account, whose bytes nobody but SAS writes; what is lost or closed      *)
(* leaves nothing to be said.                                              *)
(***************************************************************************)
LEMMA LinkageInvInductive == LinkageSpec => []LinkageInv
<1>1. LinkageInit => LinkageInv
  BY DEF LinkageInit, LinkageInv, DraftIsEncoding, AccountHoldsEncoding
<1>2. LinkageInv /\ [LinkageNext]_linkageVars => LinkageInv'
  <2> SUFFICES ASSUME LinkageInv, [LinkageNext]_linkageVars
               PROVE  LinkageInv'
    OBVIOUS
  <2> USE DEF LinkageInv
  <2>1. ASSUME NEW params \in AlienIdAttestationData, Encode(params)
        PROVE  LinkageInv'
    <3>1. /\ draft' = [params |-> params, bytes |-> encodeAlienIdAttestationData(params)]
          /\ Encodable(params)
          /\ UNCHANGED <<program, data, issued, attested>>
      BY <2>1 DEF Encode, layoutVars
    <3>2. DraftIsEncoding'
      BY <3>1 DEF DraftIsEncoding
    <3>3. AccountHoldsEncoding'
      BY <3>1 DEF AccountHoldsEncoding
    <3> QED
      BY <3>2, <3>3
  <2>2. ASSUME NEW signer \in PublicKeys, NEW tokenAccount \in PublicKeys, NEW expiry \in Issuable,
               Submit(signer, expiry, tokenAccount)
        PROVE  LinkageInv'
    <3>1. /\ draft # NoLinkage /\ draft' = NoLinkage /\ attested' = draft.params
          /\ Len(draft.bytes) \in u32 /\ issued' = expiry
          /\ data' = AttestationBytes(draft.bytes, signer, expiry, tokenAccount)
      BY <2>2 DEF Submit, CreateAttestation
    <3>2. DraftIsEncoding'
      BY <3>1 DEF DraftIsEncoding
    <3>3. AccountHoldsEncoding'
      BY <3>1 DEF DraftIsEncoding, AccountHoldsEncoding
    <3> QED
      BY <3>2, <3>3
  <2>3. CASE Abandon
    BY <2>3 DEF Abandon, layoutVars, DraftIsEncoding, AccountHoldsEncoding
  <2>4. CASE Close
    BY <2>4 DEF Close, DraftIsEncoding, AccountHoldsEncoding
  <2>5. CASE UNCHANGED linkageVars
    BY <2>5 DEF linkageVars, layoutVars, DraftIsEncoding, AccountHoldsEncoding
  <2> QED
    BY <2>1, <2>2, <2>3, <2>4, <2>5 DEF LinkageNext
<1> QED
  BY <1>1, <1>2, PTL DEF LinkageSpec

(***************************************************************************)
(* SAS accepts every linkage that the SDK can encode, of any lengths and   *)
(* any characters.                                                         *)
(***************************************************************************)
THEOREM EncodingIsAccepted == LinkageSpec => []EncodingNeverRefused
<1>1. LinkageInv => EncodingNeverRefused
  BY EncodedReadBack DEF LinkageInv, DraftIsEncoding, EncodingNeverRefused
<1> QED
  BY <1>1, LinkageInvInductive, PTL

(***************************************************************************)
(* Whoever decodes the attestation by the schema finds the linkage that    *)
(* was attested, and the hook finds its expiry.                            *)
(***************************************************************************)
THEOREM LinkageIsReadBack == LinkageSpec => []AttestedAsEncoded
<1>1. LinkageInv => AttestedAsEncoded
  <2> SUFFICES ASSUME LinkageInv, attested # NoLinkage
               PROVE  /\ \A n \in DOMAIN SCHEMA_FIELD_NAMES :
                             DecodedField(DataField(data), n) = AsRead(attested)[SCHEMA_FIELD_NAMES[n]]
                      /\ HookReads(data) = issued
    BY DEF AttestedAsEncoded
  <2> DEFINE payload == encodeAlienIdAttestationData(attested)
  <2>1. /\ attested \in AlienIdAttestationData /\ Encodable(attested)
        /\ Len(payload) \in u32 /\ issued \in Issuable
    BY DEF LinkageInv, AccountHoldsEncoding
  <2>2. PICK signer \in PublicKeys, tokenAccount \in PublicKeys :
            data = AttestationBytes(payload, signer, issued, tokenAccount)
    BY DEF LinkageInv, AccountHoldsEncoding
  <2>3. /\ payload \in Seq(Byte)
        /\ \A n \in DOMAIN SCHEMA_FIELD_NAMES :
               DecodedField(payload, n) = AsRead(attested)[SCHEMA_FIELD_NAMES[n]]
    BY <2>1, EncodedReadBack
  <2> HIDE DEF payload
  <2>4. DataField(data) = payload
    BY <2>1, <2>2, <2>3, DataFieldReadBack
  <2>5. HookReads(data) = issued
    BY <2>1, <2>2, <2>3, LayoutReadBack
  <2> QED
    BY <2>3, <2>4, <2>5
<1> QED
  BY <1>1, LinkageInvInductive, PTL

=============================================================================
