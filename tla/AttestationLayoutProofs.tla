----------------------- MODULE AttestationLayoutProofs -----------------------
(***************************************************************************)
(* Proofs about AttestationLayout, for any sizes of bytes and keys and any *)
(* contents: the offsets that transfer_hook computes are those that SAS    *)
(* writes at, and the length of an account never moves them.               *)
(***************************************************************************)
EXTENDS AttestationLayout, SequenceTheorems, TLAPS

(***************************************************************************)
(* Two digits, low one first, represent every number of their range.       *)
(***************************************************************************)
LEMMA DigitsRepresent ==
    ASSUME NEW base \in Nat, base > 1, NEW n \in 0..(base * base - 1)
    PROVE  /\ n % base \in 0..(base - 1) /\ n \div base \in 0..(base - 1)
           /\ (n % base) + base * (n \div base) = n
<1>1. n \in Nat /\ n < base * base
  OBVIOUS
<1>2. n % base \in 0..(base - 1) /\ (n % base) + base * (n \div base) = n /\ n \div base \in Nat
  BY <1>1
<1>3. n \div base < base
  <2> SUFFICES ASSUME n \div base >= base
               PROVE FALSE
    BY <1>1, <1>2
  <2>1. base * (n \div base) >= base * base
    BY <1>1, <1>2
  <2> QED
    BY <1>1, <1>2, <2>1
<1> QED
  BY <1>1, <1>2, <1>3

(***************************************************************************)
(* Integers of two and of four bytes have more values than one.            *)
(***************************************************************************)
LEMMA WordRange ==
    /\ Base \in Nat /\ Base > 1
    /\ Word \in Nat /\ Word > 1
    /\ LongWord \in Nat /\ LongWord > 1
<1>1. Base \in Nat /\ Base > 1
  BY LayoutAssumption
<1>2. Word \in Nat /\ Word > 1
  <2>1. Base * Base \in Nat /\ Base * Base >= Base
    BY <1>1
  <2> QED
    BY <1>1, <2>1 DEF Word
<1>3. LongWord \in Nat /\ LongWord > 1
  <2>1. Word * Word \in Nat /\ Word * Word >= Word
    BY <1>2
  <2> QED
    BY <1>2, <2>1 DEF LongWord
<1> QED
  BY <1>1, <1>2, <1>3

(***************************************************************************)
(* A u32 written in little-endian order is read back.                      *)
(***************************************************************************)
LEMMA u32RoundTrip ==
    ASSUME NEW n \in u32
    PROVE  /\ u32_to_le_bytes(n) \in Seq(Byte) /\ Len(u32_to_le_bytes(n)) = 2
           /\ u32_from_le_bytes(u32_to_le_bytes(n)) = n
<1>1. /\ n % Base \in Byte /\ n \div Base \in Byte
      /\ (n % Base) + Base * (n \div Base) = n
  BY DigitsRepresent, WordRange DEF u32, Word, Byte
<1> QED
  BY <1>1 DEF u32_to_le_bytes, u32_from_le_bytes

(***************************************************************************)
(* Two bytes read as a u32 stay within its range.                          *)
(***************************************************************************)
LEMMA u32Range ==
    ASSUME NEW bytes, bytes[1] \in Byte, bytes[2] \in Byte
    PROVE  u32_from_le_bytes(bytes) \in u32
<1>1. /\ bytes[1] \in Nat /\ bytes[2] \in Nat /\ Base \in Nat
      /\ bytes[1] <= Base - 1 /\ bytes[2] <= Base - 1
  BY LayoutAssumption DEF Byte
<1>2. Base * bytes[2] <= Base * (Base - 1)
  BY <1>1
<1>3. Base * (Base - 1) = Base * Base - Base
  BY <1>1
<1>4. Base * bytes[2] \in Nat
  BY <1>1
<1> QED
  BY <1>1, <1>2, <1>3, <1>4 DEF u32_from_le_bytes, u32, Word

(***************************************************************************)
(* Four bytes read as a u64 stay within its range.                         *)
(***************************************************************************)
LEMMA u64Range ==
    ASSUME NEW bytes, \A i \in 1..4 : bytes[i] \in Byte
    PROVE  u64_from_le_bytes(bytes) \in u64
<1> DEFINE low == u32_from_le_bytes(<<bytes[1], bytes[2]>>)
           high == u32_from_le_bytes(<<bytes[3], bytes[4]>>)
<1>1. bytes[1] \in Byte /\ bytes[2] \in Byte /\ bytes[3] \in Byte /\ bytes[4] \in Byte
  OBVIOUS
<1>2. low \in u32 /\ high \in u32
  <2>1. \A x, y \in Byte : u32_from_le_bytes(<<x, y>>) \in u32
    <3> SUFFICES ASSUME NEW x \in Byte, NEW y \in Byte
                 PROVE  u32_from_le_bytes(<<x, y>>) \in u32
      OBVIOUS
    <3> DEFINE pair == <<x, y>>
    <3>1. pair[1] \in Byte /\ pair[2] \in Byte
      OBVIOUS
    <3> HIDE DEF pair
    <3>2. u32_from_le_bytes(pair) \in u32
      BY <3>1, u32Range
    <3> QED
      BY <3>2 DEF pair
  <2> QED
    BY <1>1, <2>1
<1> HIDE DEF low, high
<1>3. /\ low \in Nat /\ high \in Nat /\ Word \in Nat
      /\ low <= Word - 1 /\ high <= Word - 1
  BY <1>2, WordRange DEF u32
<1>4. Word * high <= Word * (Word - 1)
  BY <1>3
<1>5. Word * (Word - 1) = Word * Word - Word
  BY <1>3
<1>6. Word * high \in Nat
  BY <1>3
<1>7. low + Word * high \in u64
  BY <1>3, <1>4, <1>5, <1>6 DEF u64, LongWord
<1> QED
  BY <1>7 DEF u64_from_le_bytes, low, high

(***************************************************************************)
(* Concatenation, element by element.                                      *)
(***************************************************************************)
LEMMA ConcatElements ==
    ASSUME NEW s \in Seq(Byte), NEW t \in Seq(Byte)
    PROVE  /\ s \o t \in Seq(Byte) /\ Len(s \o t) = Len(s) + Len(t)
           /\ Len(s) \in Nat /\ Len(t) \in Nat
           /\ \A i \in 1..Len(s) : (s \o t)[i] = s[i]
           /\ \A i \in 1..Len(t) : (s \o t)[Len(s) + i] = t[i]
<1>1. Len(s) \in Nat /\ Len(t) \in Nat
  BY LenProperties
<1>2. \A i \in 1..(Len(s) + Len(t)) : (s \o t)[i] = IF i <= Len(s) THEN s[i] ELSE t[i - Len(s)]
  BY ConcatProperties
<1>3. s \o t \in Seq(Byte) /\ Len(s \o t) = Len(s) + Len(t)
  BY ConcatProperties
<1> QED
  BY <1>1, <1>2, <1>3

(***************************************************************************)
(* A u64 is written as two u32, low one first, and read back.              *)
(***************************************************************************)
LEMMA u64RoundTrip ==
    ASSUME NEW n \in u64
    PROVE  /\ u64_to_le_bytes(n) \in Seq(Byte) /\ Len(u64_to_le_bytes(n)) = 4
           /\ u64_from_le_bytes(u64_to_le_bytes(n)) = n
<1> DEFINE low == u32_to_le_bytes(n % Word)
           high == u32_to_le_bytes(n \div Word)
           bytes == low \o high
<1>1. /\ n % Word \in u32 /\ n \div Word \in u32
      /\ (n % Word) + Word * (n \div Word) = n
  BY DigitsRepresent, WordRange DEF u64, LongWord, u32
<1>2. /\ low \in Seq(Byte) /\ Len(low) = 2 /\ u32_from_le_bytes(low) = n % Word
      /\ high \in Seq(Byte) /\ Len(high) = 2 /\ u32_from_le_bytes(high) = n \div Word
  BY <1>1, u32RoundTrip
<1> HIDE DEF low, high
<1>3. /\ bytes \in Seq(Byte) /\ Len(bytes) = 4
      /\ bytes[1] = low[1] /\ bytes[2] = low[2] /\ bytes[3] = high[1] /\ bytes[4] = high[2]
  <2>1. /\ bytes \in Seq(Byte) /\ Len(bytes) = Len(low) + Len(high)
        /\ \A i \in 1..Len(low) : bytes[i] = low[i]
        /\ \A i \in 1..Len(high) : bytes[Len(low) + i] = high[i]
    BY <1>2, ConcatElements
  <2> HIDE DEF bytes
  <2>2. /\ bytes[1] = low[1] /\ bytes[2] = low[2]
        /\ bytes[2 + 1] = high[1] /\ bytes[2 + 2] = high[2]
    BY <1>2, <2>1
  <2> QED
    BY <1>2, <2>1, <2>2
<1> HIDE DEF bytes
<1>4. /\ u32_from_le_bytes(<<bytes[1], bytes[2]>>) = u32_from_le_bytes(low)
      /\ u32_from_le_bytes(<<bytes[3], bytes[4]>>) = u32_from_le_bytes(high)
  BY <1>3 DEF u32_from_le_bytes
<1>5. u64_from_le_bytes(bytes) = n
  BY <1>1, <1>2, <1>4 DEF u64_from_le_bytes
<1> QED
  BY <1>3, <1>5 DEF u64_to_le_bytes, bytes, low, high

(***************************************************************************)
(* An i64 written in two's complement is read back, negative or not; read  *)
(* as a u64, a negative one is off by the number of values of a u64.       *)
(***************************************************************************)
LEMMA i64RoundTrip ==
    ASSUME NEW n \in i64
    PROVE  /\ i64_to_le_bytes(n) \in Seq(Byte) /\ Len(i64_to_le_bytes(n)) = 4
           /\ i64_from_le_bytes(i64_to_le_bytes(n)) = n
           /\ u64_from_le_bytes(i64_to_le_bytes(n)) = IF n >= 0 THEN n ELSE n + LongWord
<1> DEFINE m == n % LongWord
<1>0. LongWord > 0
  BY WordRange
<1>1. LongWord \in Nat /\ n \in Int /\ -LongWord <= 2 * n /\ 2 * n < LongWord
  BY WordRange DEF i64
<1>2. m \in u64
  <2>1. m \in 0..(LongWord - 1)
    BY <1>0, <1>1
  <2> QED
    BY <2>1 DEF u64
<1>3. m = IF n >= 0 THEN n ELSE n + LongWord
  <2>1. CASE n >= 0
    BY <1>0, <1>1, <2>1
  <2>2. CASE n < 0
    BY <1>0, <1>1, <2>2
  <2> QED
    BY <1>1, <2>1, <2>2
<1>4. u64_from_le_bytes(i64_to_le_bytes(n)) = m
  BY <1>2, u64RoundTrip DEF i64_to_le_bytes
<1>5. i64_to_le_bytes(n) \in Seq(Byte) /\ Len(i64_to_le_bytes(n)) = 4
  BY <1>2, u64RoundTrip DEF i64_to_le_bytes
<1>6. i64_from_le_bytes(i64_to_le_bytes(n)) = IF 2 * m < LongWord THEN m ELSE m - LongWord
  BY <1>4 DEF i64_from_le_bytes
<1> HIDE DEF m
<1> QED
  BY <1>0, <1>1, <1>3, <1>4, <1>5, <1>6

(***************************************************************************)
(* A Slice reads the bytes at its offset.                                  *)
(***************************************************************************)
LEMMA SliceElements ==
    ASSUME NEW bytes \in Seq(Byte), NEW n \in Nat, NEW size \in Nat, Len(bytes) >= n + size
    PROVE  \A i \in 1..size : Slice(bytes, n, n + size)[i] = bytes[n + i]
<1>1. \A i \in (n + 1)..(n + size) : bytes[i] \in Byte
  BY ElementOfSeq, LenProperties
<1>2. \A i \in 1..((n + size) - (n + 1) + 1) :
          SubSeq(bytes, n + 1, n + size)[i] = bytes[(n + 1) + i - 1]
  BY <1>1, SubSeqProperties
<1> QED
  BY <1>2 DEF Slice

(***************************************************************************)
(* The two bytes of a u32, one by one.                                     *)
(***************************************************************************)
LEMMA SliceOfTwo ==
    ASSUME NEW bytes \in Seq(Byte), NEW n \in Nat, Len(bytes) >= n + 2
    PROVE  /\ Slice(bytes, n, n + 2)[1] = bytes[n + 1]
           /\ Slice(bytes, n, n + 2)[2] = bytes[n + 2]
  BY SliceElements

(***************************************************************************)
(* The four bytes of a u64 or an i64.                                      *)
(***************************************************************************)
LEMMA SliceOfFour ==
    ASSUME NEW bytes \in Seq(Byte), NEW n \in Nat, Len(bytes) >= n + 4
    PROVE  \A i \in 1..4 : Slice(bytes, n, n + 4)[i] = bytes[n + i]
  BY SliceElements

(***************************************************************************)
(* What a u64 or an i64 is read as depends on its four bytes alone.        *)
(***************************************************************************)
LEMMA SameBytesSameValue ==
    ASSUME NEW bytes, NEW others, \A i \in 1..4 : bytes[i] = others[i]
    PROVE  /\ u64_from_le_bytes(bytes) = u64_from_le_bytes(others)
           /\ i64_from_le_bytes(bytes) = i64_from_le_bytes(others)
<1>1. /\ bytes[1] = others[1] /\ bytes[2] = others[2]
      /\ bytes[3] = others[3] /\ bytes[4] = others[4]
  OBVIOUS
<1>2. u64_from_le_bytes(bytes) = u64_from_le_bytes(others)
  BY <1>1 DEF u64_from_le_bytes
<1> QED
  BY <1>2 DEF i64_from_le_bytes

(***************************************************************************)
(* A field among others is read back at its offset.                        *)
(***************************************************************************)
LEMMA FieldReadBack ==
    ASSUME NEW before \in Seq(Byte), NEW field \in Seq(Byte), NEW after \in Seq(Byte)
    PROVE  /\ before \o field \o after \in Seq(Byte)
           /\ Len(before \o field \o after) = Len(before) + Len(field) + Len(after)
           /\ \A i \in 1..Len(field) :
                  Slice(before \o field \o after, Len(before), Len(before) + Len(field))[i] = field[i]
<1> DEFINE front == before \o field
           all == front \o after
           n == Len(before)
           size == Len(field)
<1>0. n \in Nat /\ size \in Nat
  BY LenProperties
<1>1. /\ front \in Seq(Byte) /\ Len(front) = n + size
      /\ \A i \in 1..size : front[n + i] = field[i]
  <2>1. /\ front \in Seq(Byte) /\ Len(front) = n + Len(field)
        /\ \A i \in 1..Len(field) : front[n + i] = field[i]
    BY ConcatElements
  <2> HIDE DEF front
  <2> QED
    BY <2>1
<1> HIDE DEF front, n, size
<1>2. /\ all \in Seq(Byte) /\ Len(all) = n + size + Len(after) /\ Len(after) \in Nat
      /\ \A i \in 1..size : all[n + i] = field[i]
  <2>1. /\ front \o after \in Seq(Byte) /\ Len(front \o after) = Len(front) + Len(after)
        /\ Len(after) \in Nat
        /\ \A i \in 1..Len(front) : (front \o after)[i] = front[i]
    BY <1>1, ConcatElements
  <2>2. \A i \in 1..size : n + i \in 1..Len(front)
    BY <1>0, <1>1
  <2> QED
    BY <1>1, <2>1, <2>2
<1> HIDE DEF all
<1>3. \A i \in 1..size : Slice(all, n, n + size)[i] = all[n + i]
  <2>1. all \in Seq(Byte) /\ Len(all) >= n + size
    BY <1>0, <1>2
  <2> QED
    BY <1>0, <2>1, SliceElements, Zenon
<1>4. /\ all \in Seq(Byte) /\ Len(all) = n + size + Len(after)
      /\ \A i \in 1..size : Slice(all, n, n + size)[i] = field[i]
  BY <1>2, <1>3
<1> QED
  BY <1>4 DEF front, all, n, size

(***************************************************************************)
(* The header takes as many bytes as transfer_hook counts, and starts with *)
(* the discriminator.                                                      *)
(***************************************************************************)
LEMMA HeaderSize ==
    /\ Header \in Seq(Byte) /\ Len(Header) = base_offset /\ base_offset \in Nat /\ base_offset > 1
    /\ Header[1] = ATTESTATION_DISCRIMINATOR
<1> DEFINE discriminator == <<ATTESTATION_DISCRIMINATOR>>
           s == discriminator \o Nonce
           t == s \o Credential
<1>1. /\ discriminator \in Seq(Byte) /\ Len(discriminator) = 1
      /\ discriminator[1] = ATTESTATION_DISCRIMINATOR
  BY LayoutAssumption
<1>2. /\ Nonce \in Seq(Byte) /\ Len(Nonce) = KeySize
      /\ Credential \in Seq(Byte) /\ Len(Credential) = KeySize
      /\ Schema \in Seq(Byte) /\ Len(Schema) = KeySize
      /\ KeySize \in Nat \ {0}
  BY LayoutAssumption
<1> HIDE DEF discriminator
<1>3. /\ s \in Seq(Byte) /\ Len(s) = Len(discriminator) + Len(Nonce)
      /\ \A i \in 1..Len(discriminator) : s[i] = discriminator[i]
  BY <1>1, <1>2, ConcatElements
<1> HIDE DEF s
<1>4. /\ t \in Seq(Byte) /\ Len(t) = Len(s) + Len(Credential)
      /\ \A i \in 1..Len(s) : t[i] = s[i]
  BY <1>2, <1>3, ConcatElements
<1> HIDE DEF t
<1>5. /\ t \o Schema \in Seq(Byte) /\ Len(t \o Schema) = Len(t) + Len(Schema)
      /\ \A i \in 1..Len(t) : (t \o Schema)[i] = t[i]
  BY <1>2, <1>4, ConcatElements
<1>6. Header = t \o Schema
  BY DEF Header, t, s, discriminator
<1> HIDE DEF t, s
<1>7. Len(t) = 1 + KeySize + KeySize /\ t[1] = ATTESTATION_DISCRIMINATOR
  BY <1>1, <1>2, <1>3, <1>4
<1>8. base_offset \in Nat /\ base_offset > 1
  BY <1>2 DEF base_offset
<1>9. Len(Header) = base_offset /\ Header[1] = ATTESTATION_DISCRIMINATOR
  BY <1>2, <1>5, <1>6, <1>7 DEF base_offset
<1> QED
  BY <1>5, <1>6, <1>8, <1>9

(***************************************************************************)
(* An attestation that SAS lays out is one to transfer_hook, and shows it  *)
(* the expiry that it was issued with, whatever is in its data field; and  *)
(* the data field is where the header and its length say.                  *)
(***************************************************************************)
LEMMA LayoutReadBack ==
    ASSUME NEW payload \in Seq(Byte), Len(payload) \in u32, NEW signer \in PublicKeys,
           NEW expiry \in Issuable, NEW tokenAccount \in PublicKeys
    PROVE  LET bytes == AttestationBytes(payload, signer, expiry, tokenAccount)
           IN  /\ bytes \in Seq(Byte) /\ bytes # << >> /\ HookReads(bytes) = expiry
               /\ data_field_len(bytes) = Len(payload)
               /\ \A i \in 1..Len(payload) : bytes[base_offset + 2 + i] = payload[i]
<1> DEFINE length == u32_to_le_bytes(Len(payload))
           a == Header \o length
           b == a \o payload
           c == b \o signer
           e == i64_to_le_bytes(expiry)
           bytes == c \o e \o tokenAccount
<1>1. /\ payload \in Seq(Byte) /\ Len(payload) \in u32 /\ Len(payload) \in Nat
      /\ signer \in Seq(Byte) /\ Len(signer) = KeySize
      /\ tokenAccount \in Seq(Byte) /\ Len(tokenAccount) = KeySize
      /\ KeySize \in Nat /\ expiry \in i64
  BY LayoutAssumption, LenProperties
<1>2. /\ length \in Seq(Byte) /\ Len(length) = 2 /\ u32_from_le_bytes(length) = Len(payload)
      /\ e \in Seq(Byte) /\ Len(e) = 4 /\ i64_from_le_bytes(e) = expiry
  BY <1>1, u32RoundTrip, i64RoundTrip
<1>3. AttestationBytes(payload, signer, expiry, tokenAccount) = bytes
  BY DEF AttestationBytes
<1> HIDE DEF length, e
<1>4. /\ a \in Seq(Byte) /\ Len(a) = base_offset + 2 /\ a[1] = ATTESTATION_DISCRIMINATOR
      /\ a[base_offset + 1] = length[1] /\ a[base_offset + 2] = length[2]
  <2>1. /\ \A i \in 1..Len(Header) : a[i] = Header[i]
        /\ \A i \in 1..Len(length) : a[Len(Header) + i] = length[i]
        /\ a \in Seq(Byte) /\ Len(a) = Len(Header) + Len(length)
    BY <1>2, HeaderSize, ConcatElements
  <2> HIDE DEF a
  <2> QED
    BY <1>2, <2>1, HeaderSize
<1> HIDE DEF a
<1>5. /\ b \in Seq(Byte) /\ Len(b) = Len(a) + Len(payload)
      /\ \A i \in 1..Len(a) : b[i] = a[i]
      /\ \A i \in 1..Len(payload) : b[Len(a) + i] = payload[i]
  BY <1>1, <1>4, ConcatElements
<1> HIDE DEF b
<1>6. /\ c \in Seq(Byte) /\ Len(c) = Len(b) + Len(signer)
      /\ \A i \in 1..Len(b) : c[i] = b[i]
  BY <1>1, <1>5, ConcatElements
<1> HIDE DEF c
<1>7. /\ bytes \in Seq(Byte) /\ Len(bytes) = Len(c) + 4 + Len(tokenAccount)
      /\ \A i \in 1..4 : Slice(bytes, Len(c), Len(c) + 4)[i] = e[i]
  <2>1. /\ tokenAccount \in Seq(Byte) /\ e \in Seq(Byte) /\ Len(e) = 4
        /\ c \in Seq(Byte) /\ Len(c) \in Nat
    BY <1>1, <1>2, <1>6, LenProperties
  <2>2. /\ bytes \in Seq(Byte) /\ Len(bytes) = Len(c) + Len(e) + Len(tokenAccount)
        /\ \A i \in 1..Len(e) : Slice(bytes, Len(c), Len(c) + Len(e))[i] = e[i]
    BY <2>1, FieldReadBack, Zenon
  <2> HIDE DEF bytes
  <2> QED
    BY <2>1, <2>2
<1>8. \A i \in 1..Len(c) : bytes[i] = c[i]
  <2> DEFINE f == c \o e
  <2>1. /\ f \in Seq(Byte) /\ Len(f) = Len(c) + Len(e) /\ Len(c) \in Nat
        /\ \A i \in 1..Len(c) : f[i] = c[i]
    BY <1>2, <1>6, ConcatElements
  <2> HIDE DEF f
  <2>2. \A i \in 1..Len(f) : (f \o tokenAccount)[i] = f[i]
    BY <1>1, <2>1, ConcatElements
  <2>3. \A i \in 1..Len(c) : (f \o tokenAccount)[i] = c[i]
    BY <1>2, <2>1, <2>2
  <2> QED
    BY <2>3 DEF f
<1>0. Len(c) = base_offset + 2 + Len(payload) + KeySize /\ Len(bytes) = Len(c) + 4 + KeySize
  BY <1>1, <1>4, <1>5, <1>6, <1>7
<1> HIDE DEF bytes
<1>9. \A i \in 1..(base_offset + 2) : bytes[i] = a[i]
  BY <1>1, <1>4, <1>5, <1>6, <1>8, <1>0, HeaderSize
<1>10. data_field_len(bytes) = Len(payload)
  <2>1. Len(bytes) >= base_offset + 2
    BY <1>1, <1>0, <1>7, HeaderSize
  <2>2. /\ Slice(bytes, base_offset, base_offset + 2)[1] = bytes[base_offset + 1]
        /\ Slice(bytes, base_offset, base_offset + 2)[2] = bytes[base_offset + 2]
    BY <1>7, <2>1, HeaderSize, SliceOfTwo
  <2>3. bytes[base_offset + 1] = length[1] /\ bytes[base_offset + 2] = length[2]
    BY <1>4, <1>9, HeaderSize
  <2> QED
    BY <1>2, <2>2, <2>3 DEF data_field_len, u32_from_le_bytes
<1>11. expiry_offset(bytes) = Len(c)
  BY <1>0, <1>10 DEF expiry_offset
<1>12. IsAttestation(bytes)
  <2>1. bytes[1] = ATTESTATION_DISCRIMINATOR
    BY <1>4, <1>9, HeaderSize
  <2> QED
    BY <1>1, <1>0, <1>7, <1>11, <2>1, HeaderSize DEF IsAttestation
<1>13. ExpiryRead(bytes) = expiry
  BY <1>2, <1>7, <1>11, SameBytesSameValue DEF ExpiryRead
<1>14. bytes # << >>
  BY <1>1, <1>0, <1>7, HeaderSize, EmptySeq
<1>15. \A i \in 1..Len(payload) : bytes[base_offset + 2 + i] = payload[i]
  <2> SUFFICES ASSUME NEW i \in 1..Len(payload)
               PROVE  bytes[base_offset + 2 + i] = payload[i]
    OBVIOUS
  <2>1. b[Len(a) + i] = payload[i] /\ Len(a) + i \in 1..Len(b) /\ Len(b) <= Len(c)
    BY <1>1, <1>4, <1>5, <1>6, HeaderSize
  <2>2. Len(a) + i \in 1..Len(c)
    BY <1>1, <1>4, <1>0, <2>1, HeaderSize
  <2>3. bytes[Len(a) + i] = payload[i]
    BY <1>6, <1>8, <2>1, <2>2
  <2> QED
    BY <1>4, <2>3
<1> QED
  BY <1>3, <1>7, <1>10, <1>12, <1>13, <1>14, <1>15 DEF HookReads

(***************************************************************************)
(* The payloads of the specification are among those.                      *)
(***************************************************************************)
LEMMA PayloadBytes == \A p \in Payloads : p \in Seq(Byte) /\ Len(p) \in u32
  BY LayoutAssumption

-----------------------------------------------------------------------------
(***************************************************************************)
(* A resized account is its old bytes, cut off or followed by zeros.       *)
(***************************************************************************)
LEMMA ResizedBytes ==
    ASSUME data \in Seq(Byte), NEW length \in Nat, Resize(length)
    PROVE  /\ data' \in Seq(Byte) /\ Len(data') = length
           /\ \A i \in 1..length : i <= Len(data) => data'[i] = data[i]
<1>1. Len(data) \in Nat /\ \A i \in 1..Len(data) : data[i] \in Byte
  BY LenProperties, ElementOfSeq
<1>2. 0 \in Byte
  BY LayoutAssumption DEF Byte
<1>3. \A i \in 1..length : (IF i <= Len(data) THEN data[i] ELSE 0) \in Byte
  BY <1>1, <1>2
<1>4. data' = [i \in 1..length |-> IF i <= Len(data) THEN data[i] ELSE 0]
  BY DEF Resize
<1> QED
  BY <1>3, <1>4

(***************************************************************************)
(* Accounts keep their layout.                                             *)
(***************************************************************************)
THEOREM LayoutTypeCorrect == LayoutSpec => []LayoutTypeOK
<1>1. LayoutInit => LayoutTypeOK
  BY DEF LayoutInit, LayoutTypeOK
<1>2. LayoutTypeOK /\ [LayoutNext]_layoutVars => LayoutTypeOK'
  <2> SUFFICES ASSUME LayoutTypeOK, [LayoutNext]_layoutVars
               PROVE  LayoutTypeOK'
    OBVIOUS
  <2>1. ASSUME NEW payload \in Payloads, NEW signer \in PublicKeys, NEW tokenAccount \in PublicKeys,
               NEW expiry \in Issuable, CreateAttestation(payload, signer, expiry, tokenAccount)
        PROVE  LayoutTypeOK'
    BY <2>1, PayloadBytes, LayoutReadBack DEF CreateAttestation, LayoutTypeOK
  <2>2. CASE CloseAttestation
    BY <2>2 DEF CloseAttestation, LayoutTypeOK
  <2>3. ASSUME NEW length \in 0..MaxLength, Resize(length)
        PROVE  LayoutTypeOK'
    <3>1. data' \in Seq(Byte)
      BY <2>3, ResizedBytes DEF LayoutTypeOK
    <3> QED
      BY <2>3, <3>1 DEF Resize, LayoutTypeOK
  <2>4. ASSUME NEW i \in DOMAIN data, NEW byte \in Byte, WriteByte(i, byte)
        PROVE  LayoutTypeOK'
    BY <2>4, ExceptSeq DEF WriteByte, LayoutTypeOK
  <2>5. CASE UNCHANGED layoutVars
    BY <2>5 DEF layoutVars, LayoutTypeOK
  <2> QED
    BY <2>1, <2>2, <2>3, <2>4, <2>5 DEF LayoutNext
<1> QED
  BY <1>1, <1>2, PTL DEF LayoutSpec

(***************************************************************************)
(* The expiry that transfer_hook reads of an account that SAS owns is the  *)
(* one SAS issued, for every length of the data field.                     *)
(***************************************************************************)
THEOREM ExpiryIsReadBack == LayoutSpec => []ExpiryReadBack
<1> DEFINE Inv == ExpiryReadBack /\ (program = "sas" => (issued = NotIssued <=> data = << >>))
<1>0. HookReads(<< >>) = Refused
  BY EmptySeq DEF HookReads, IsAttestation
<1>1. LayoutInit => Inv
  BY <1>0 DEF LayoutInit, ExpiryReadBack
<1>2. Inv /\ [LayoutNext]_layoutVars => Inv'
  <2> SUFFICES ASSUME Inv, [LayoutNext]_layoutVars
               PROVE  Inv'
    OBVIOUS
  <2>1. ASSUME NEW payload \in Payloads, NEW signer \in PublicKeys, NEW tokenAccount \in PublicKeys,
               NEW expiry \in Issuable, CreateAttestation(payload, signer, expiry, tokenAccount)
        PROVE  Inv'
    <3>1. data' # << >> /\ HookReads(data') = expiry /\ issued' = expiry
      BY <2>1, PayloadBytes, LayoutReadBack DEF CreateAttestation
    <3>2. expiry # NotIssued
      BY LayoutAssumption
    <3>3. HookReads(data)' = HookReads(data')
      BY DEF HookReads, IsAttestation, ExpiryRead, expiry_offset, data_field_len
    <3> QED
      BY <3>1, <3>2, <3>3 DEF ExpiryReadBack
  <2>2. CASE CloseAttestation
    <3>1. data' = << >> /\ issued' = NotIssued
      BY <2>2 DEF CloseAttestation
    <3> QED
      BY <1>0, <3>1 DEF ExpiryReadBack
  <2>3. ASSUME NEW length \in 0..MaxLength, Resize(length)
        PROVE  Inv'
    BY <2>3 DEF Resize, ExpiryReadBack
  <2>4. ASSUME NEW i \in DOMAIN data, NEW byte \in Byte, WriteByte(i, byte)
        PROVE  Inv'
    BY <2>4 DEF WriteByte, ExpiryReadBack
  <2>5. CASE UNCHANGED layoutVars
    BY <2>5 DEF layoutVars, ExpiryReadBack, HookReads
  <2> QED
    BY <2>1, <2>2, <2>3, <2>4, <2>5 DEF LayoutNext
<1> QED
  BY <1>1, <1>2, PTL DEF LayoutSpec

(***************************************************************************)
(* If the bytes of a shorter account come first in a longer one and both   *)
(* are attestations, both show the same expiry; and the longer one is an   *)
(* attestation if the shorter one is.                                      *)
(***************************************************************************)
LEMMA PrefixReadsSame ==
    ASSUME NEW short \in Seq(Byte), NEW long \in Seq(Byte), Len(short) <= Len(long),
           \A i \in 1..Len(short) : long[i] = short[i], IsAttestation(short)
    PROVE  HookReads(long) = HookReads(short)
<1>1. /\ Len(short) \in Nat /\ Len(long) \in Nat
      /\ base_offset \in Nat /\ base_offset > 1 /\ KeySize \in Nat
  BY LenProperties, HeaderSize, LayoutAssumption
<1>2. /\ Len(short) >= base_offset + 2 /\ Len(short) >= expiry_offset(short) + 4
      /\ Len(short) > 1 /\ short[1] = ATTESTATION_DISCRIMINATOR
  BY DEF IsAttestation
<1>3. data_field_len(short) \in Nat /\ data_field_len(long) = data_field_len(short)
  <2>1. /\ Slice(short, base_offset, base_offset + 2)[1] = short[base_offset + 1]
        /\ Slice(short, base_offset, base_offset + 2)[2] = short[base_offset + 2]
    BY <1>1, <1>2, SliceOfTwo
  <2>2. Len(long) >= base_offset + 2
    BY <1>1, <1>2
  <2>3. /\ Slice(long, base_offset, base_offset + 2)[1] = long[base_offset + 1]
        /\ Slice(long, base_offset, base_offset + 2)[2] = long[base_offset + 2]
    BY <1>1, <2>2, SliceOfTwo
  <2>4. /\ long[base_offset + 1] = short[base_offset + 1]
        /\ long[base_offset + 2] = short[base_offset + 2]
    <3>1. base_offset + 1 \in 1..Len(short) /\ base_offset + 2 \in 1..Len(short)
      BY <1>1, <1>2
    <3> QED
      BY <3>1
  <2>5. short[base_offset + 1] \in Byte /\ short[base_offset + 2] \in Byte
    <3>1. base_offset + 1 \in 1..Len(short) /\ base_offset + 2 \in 1..Len(short)
      BY <1>1, <1>2
    <3> QED
      BY <3>1, ElementOfSeq
  <2>6. u32_from_le_bytes(Slice(short, base_offset, base_offset + 2)) \in u32
    BY <2>1, <2>5, u32Range
  <2> QED
    BY <2>1, <2>3, <2>4, <2>6 DEF data_field_len, u32_from_le_bytes, u32
<1>4. /\ expiry_offset(long) = expiry_offset(short)
      /\ expiry_offset(short) \in Nat
  BY <1>1, <1>3 DEF expiry_offset
<1>5. IsAttestation(long)
  BY <1>1, <1>2, <1>4 DEF IsAttestation
<1>6. ExpiryRead(long) = ExpiryRead(short)
  <2> DEFINE n == expiry_offset(short)
  <2>1. n \in Nat /\ Len(short) >= n + 4 /\ Len(long) >= n + 4
    BY <1>1, <1>2, <1>4
  <2> HIDE DEF n
  <2>2. \A i \in 1..4 : Slice(short, n, n + 4)[i] = short[n + i]
    BY <2>1, SliceOfFour
  <2>3. \A i \in 1..4 : Slice(long, n, n + 4)[i] = long[n + i]
    BY <2>1, SliceOfFour
  <2>4. \A i \in 1..4 : long[n + i] = short[n + i]
    BY <1>1, <2>1
  <2>5. \A i \in 1..4 : Slice(long, n, n + 4)[i] = Slice(short, n, n + 4)[i]
    BY <2>2, <2>3, <2>4
  <2> QED
    BY <1>4, <2>5, SameBytesSameValue DEF ExpiryRead, n
<1> QED
  BY <1>5, <1>6 DEF HookReads

(***************************************************************************)
(* Growing or cutting an account never changes the expiry read of it.      *)
(***************************************************************************)
THEOREM LengthNeverMovesExpiry == LayoutSpec => LengthOnlyDecidesPresence
<1> DEFINE Kept ==
        /\ Len(data') > Len(data) /\ HookReads(data) # Refused => HookReads(data') = HookReads(data)
        /\ Len(data') < Len(data) /\ HookReads(data') # Refused => HookReads(data') = HookReads(data)
<1>0. HookReads(<< >>) = Refused /\ Len(<< >>) = 0
  BY EmptySeq DEF HookReads, IsAttestation
<1>1. LayoutTypeOK /\ [LayoutNext]_layoutVars => Kept
  <2> SUFFICES ASSUME LayoutTypeOK, [LayoutNext]_layoutVars
               PROVE  Kept
    OBVIOUS
  <2>0. data \in Seq(Byte) /\ Len(data) \in Nat
    BY LenProperties DEF LayoutTypeOK
  <2>1. ASSUME NEW payload \in Payloads, NEW signer \in PublicKeys, NEW tokenAccount \in PublicKeys,
               NEW expiry \in Issuable, CreateAttestation(payload, signer, expiry, tokenAccount)
        PROVE  Kept
    <3>1. data = << >> /\ Len(data') \in Nat
      BY <2>1, PayloadBytes, LayoutReadBack, LenProperties DEF CreateAttestation
    <3> QED
      BY <1>0, <3>1
  <2>2. CASE CloseAttestation
    <3>1. data' = << >>
      BY <2>2 DEF CloseAttestation
    <3> QED
      BY <1>0, <2>0, <3>1
  <2>3. ASSUME NEW length \in 0..MaxLength, Resize(length)
        PROVE  Kept
    <3>0. length \in Nat
      BY LayoutAssumption
    <3>1. /\ data' \in Seq(Byte) /\ Len(data') = length
          /\ \A i \in 1..length : i <= Len(data) => data'[i] = data[i]
      BY <2>0, <2>3, <3>0, ResizedBytes
    <3>2. ASSUME Len(data') > Len(data), HookReads(data) # Refused
          PROVE  HookReads(data') = HookReads(data)
      <4>1. IsAttestation(data) /\ \A i \in 1..Len(data) : data'[i] = data[i]
        BY <2>0, <3>0, <3>1, <3>2 DEF HookReads
      <4> QED
        BY <2>0, <3>0, <3>1, <3>2, <4>1, PrefixReadsSame
    <3>3. ASSUME Len(data') < Len(data), HookReads(data') # Refused
          PROVE  HookReads(data') = HookReads(data)
      <4>1. IsAttestation(data') /\ \A i \in 1..Len(data') : data[i] = data'[i]
        BY <2>0, <3>0, <3>1, <3>3 DEF HookReads
      <4> QED
        BY <2>0, <3>0, <3>1, <3>3, <4>1, PrefixReadsSame
    <3> QED
      BY <3>2, <3>3
  <2>4. ASSUME NEW i \in DOMAIN data, NEW byte \in Byte, WriteByte(i, byte)
        PROVE  Kept
    <3>1. Len(data') = Len(data)
      BY <2>0, <2>4, ExceptSeq, LenProperties DEF WriteByte
    <3> QED
      BY <2>0, <3>1
  <2>5. CASE UNCHANGED layoutVars
    BY <2>0, <2>5 DEF layoutVars
  <2> QED
    BY <2>1, <2>2, <2>3, <2>4, <2>5 DEF LayoutNext
<1> QED
  BY <1>1, LayoutTypeCorrect, PTL DEF LayoutSpec, LengthOnlyDecidesPresence

=============================================================================
