----------------------- MODULE AttestationViewProofs ------------------------
(***************************************************************************)
(* Proofs about AttestationView: for any sizes of bytes and keys and any   *)
(* payloads, what happens to the bytes of an attestation account is what   *)
(* TransferHook assumes of attestations.                                   *)
(***************************************************************************)
EXTENDS AttestationView, AttestationLayoutProofs

(***************************************************************************)
(* The two addresses are different.                                        *)
(***************************************************************************)
LEMMA AddressesDiffer == AddressUnder("sas") # AddressUnder("other")
  BY DEF AddressUnder, Accounts!attestation_address, Accounts!find_program_address

(***************************************************************************)
(* The addresses of TransferHook's attestations are these two.             *)
(***************************************************************************)
LEMMA AddressesOfIssuers ==
    /\ \A issuer \in Chain!Issuers : Chain!AttestationOf(issuer, Nonce) = AddressUnder(issuer.sas_program)
    /\ Chain!AttestationAddresses = {AddressUnder("sas"), AddressUnder("other")}
<1>1. \A issuer \in Chain!Issuers : Chain!AttestationOf(issuer, Nonce) = AddressUnder(issuer.sas_program)
  BY DEF Chain!Issuers, Chain!AttestationOf, AddressUnder,
         Chain!attestation_address, Chain!find_program_address,
         Accounts!attestation_address, Accounts!find_program_address
<1>2. Chain!AttestationAddresses = {AddressUnder(i.sas_program) : i \in Chain!Issuers}
  BY <1>1 DEF Chain!AttestationAddresses
<1>3. {i.sas_program : i \in Chain!Issuers} = {"sas", "other"}
  <2>1. \A p \in {"sas", "other"} :
            [credential |-> Credential, schema |-> Schema, sas_program |-> p] \in Chain!Issuers
    BY DEF Chain!Issuers
  <2>2. \A i \in Chain!Issuers : i.sas_program \in {"sas", "other"}
    BY DEF Chain!Issuers
  <2> QED
    BY <2>1, <2>2
<1>4. Chain!AttestationAddresses = {AddressUnder("sas"), AddressUnder("other")}
  BY <1>2, <1>3
<1> QED
  BY <1>1, <1>4

-----------------------------------------------------------------------------
(***************************************************************************)
(* Whatever the bytes of an attestation, what the hook reads of them is a  *)
(* signed integer of 64 bits.                                              *)
(***************************************************************************)
LEMMA ExpiryRange ==
    ASSUME NEW bytes \in Seq(Byte), IsAttestation(bytes)
    PROVE  ExpiryRead(bytes) \in i64
<1>1. /\ Len(bytes) \in Nat /\ base_offset \in Nat /\ KeySize \in Nat
      /\ Len(bytes) >= base_offset + 2 /\ Len(bytes) >= expiry_offset(bytes) + 4
  BY LenProperties, HeaderSize, LayoutAssumption DEF IsAttestation
<1>2. \A i \in 1..Len(bytes) : bytes[i] \in Byte
  BY ElementOfSeq
<1>3. data_field_len(bytes) \in u32
  <2>1. /\ Slice(bytes, base_offset, base_offset + 2)[1] = bytes[base_offset + 1]
        /\ Slice(bytes, base_offset, base_offset + 2)[2] = bytes[base_offset + 2]
    BY <1>1, SliceOfTwo
  <2>2. base_offset + 1 \in 1..Len(bytes) /\ base_offset + 2 \in 1..Len(bytes)
    BY <1>1
  <2>3. bytes[base_offset + 1] \in Byte /\ bytes[base_offset + 2] \in Byte
    BY <1>2, <2>2
  <2> QED
    BY <2>1, <2>3, u32Range DEF data_field_len
<1>4. expiry_offset(bytes) \in Nat
  BY <1>1, <1>3 DEF expiry_offset, u32
<1> DEFINE at == expiry_offset(bytes)
           field == Slice(bytes, at, at + 4)
           n == u64_from_le_bytes(field)
<1>5. n \in u64
  <2>1. at \in Nat /\ Len(bytes) >= at + 4
    BY <1>1, <1>4
  <2> HIDE DEF at
  <2>2. \A i \in 1..4 : field[i] = bytes[at + i]
    BY <2>1, SliceOfFour
  <2>3. \A i \in 1..4 : at + i \in 1..Len(bytes)
    BY <1>1, <2>1
  <2>4. \A i \in 1..4 : field[i] \in Byte
    BY <1>2, <2>2, <2>3
  <2> HIDE DEF field
  <2> QED
    BY <2>4, u64Range
<1>6. ExpiryRead(bytes) = IF 2 * n < LongWord THEN n ELSE n - LongWord
  BY DEF ExpiryRead, i64_from_le_bytes
<1> HIDE DEF n
<1> QED
  BY <1>5, <1>6, WordRange DEF u64, i64

(***************************************************************************)
(* So bytes are always something that TransferHook knows of.               *)
(***************************************************************************)
LEMMA SeenType ==
    ASSUME NEW bytes \in Seq(Byte)
    PROVE  Seen(bytes) \in Contents /\ Seen(bytes) # NoAccount
<1>1. 0 \in i64
  BY WordRange DEF i64
<1>2. Seen(bytes) \in Contents
  BY <1>1, ExpiryRange DEF Seen, Contents, IsAttestation
<1> QED
  BY <1>2, ViewAssumption

(***************************************************************************)
(* The issuer whose attestation the account may hold.                      *)
(***************************************************************************)
AccountIssuer == [credential |-> Credential, schema |-> Schema, sas_program |-> program]

\* The account under that issuer's address, as the hook sees it.
Shown(bytes) == IF bytes = << >> THEN NoAccount ELSE Seen(bytes)

(***************************************************************************)
(* A change of the account's bytes changes this one attestation.           *)
(***************************************************************************)
LEMMA OneAttestationChanges ==
    ASSUME LayoutTypeOK, UNCHANGED program
    PROVE  /\ AccountIssuer \in Chain!Issuers
           /\ AccountIssuer.sas_program = program
           /\ AccountIssuer.credential = Credential
           /\ Attestation[Chain!AttestationOf(AccountIssuer, Nonce)] = Shown(data)
           /\ Attestation' = [Attestation EXCEPT
                  ![Chain!AttestationOf(AccountIssuer, Nonce)] = Shown(data')]
<1>1. /\ AccountIssuer \in Chain!Issuers /\ AccountIssuer.sas_program = program
      /\ AccountIssuer.credential = Credential
  BY DEF AccountIssuer, Chain!Issuers, LayoutTypeOK
<1>2. Chain!AttestationOf(AccountIssuer, Nonce) = AddressUnder(program)
  BY <1>1, AddressesOfIssuers
<1>3. AddressUnder(program) \in {AddressUnder("sas"), AddressUnder("other")}
  BY DEF LayoutTypeOK
<1>4. Attestation = [a \in {AddressUnder("sas"), AddressUnder("other")} |->
                        IF a = AddressUnder(program) THEN Shown(data) ELSE NoAccount]
  BY DEF Attestation, Shown
<1>5. Attestation' = [a \in {AddressUnder("sas"), AddressUnder("other")} |->
                         IF a = AddressUnder(program) THEN Shown(data') ELSE NoAccount]
  BY DEF Attestation, Shown, Seen, IsAttestation, ExpiryRead, expiry_offset, data_field_len,
         AddressUnder
<1> QED
  BY <1>1, <1>2, <1>3, <1>4, <1>5

(***************************************************************************)
(* What TransferHook knows of besides attestations does not change.        *)
(***************************************************************************)
LEMMA RestOfChain ==
    /\ UNCHANGED Chain!hookVars
    /\ UNCHANGED [c \in {Credential} |-> {Unread}]
  BY DEF Chain!hookVars, None

(***************************************************************************)
(* The bytes of an attestation account implement the attestations of       *)
(* TransferHook.                                                           *)
(***************************************************************************)
THEOREM BytesImplementAttestations == LayoutSpec => AttestationSpec
<1>1. LayoutInit => Chain!ChainInit
  <2> SUFFICES ASSUME LayoutInit
               PROVE  Chain!ChainInit
    OBVIOUS
  <2>1. Chain!HookInit
    BY DEF Chain!HookInit, None, Chain!Hooks
  <2>2. Attestation = [a \in Chain!AttestationAddresses |-> NoAccount]
    BY AddressesOfIssuers DEF LayoutInit, Attestation
  <2>3. [c \in {Credential} |-> {Unread}] \in [{Credential} -> SUBSET {Unread}]
    OBVIOUS
  <2> QED
    BY <2>1, <2>2, <2>3 DEF Chain!ChainInit
<1>2. LayoutTypeOK /\ LayoutTypeOK' /\ [LayoutNext]_layoutVars
          => [Chain!ChainNext]_Chain!chainVars
  <2> SUFFICES ASSUME LayoutTypeOK, LayoutTypeOK', [LayoutNext]_layoutVars
               PROVE  [Chain!ChainNext]_Chain!chainVars
    OBVIOUS
  <2> DEFINE address == Chain!AttestationOf(AccountIssuer, Nonce)
  <2>1. ASSUME NEW payload \in Payloads, NEW signer \in PublicKeys, NEW tokenAccount \in PublicKeys,
               NEW expiry \in Issuable, CreateAttestation(payload, signer, expiry, tokenAccount)
        PROVE  Chain!ChainNext
    <3>1. /\ program = "sas" /\ UNCHANGED program /\ data = << >>
          /\ data' = AttestationBytes(payload, signer, expiry, tokenAccount)
      BY <2>1 DEF CreateAttestation
    <3>2. data' # << >> /\ HookReads(data') = expiry
      BY <3>1, PayloadBytes, LayoutReadBack
    <3>3. expiry \in i64 /\ expiry # Refused
      BY LayoutAssumption
    <3>4. IsAttestation(data') /\ ExpiryRead(data') = expiry
      BY <3>2, <3>3 DEF HookReads
    <3>5. Shown(data') = [well_formed |-> TRUE, signer |-> Unread, expiry |-> expiry]
      BY <3>2, <3>4 DEF Shown, Seen
    <3>6. Shown(data) = NoAccount
      BY <3>1 DEF Shown
    <3>7. Chain!CreateAttestation(AccountIssuer, Nonce, Unread, expiry)
      BY <3>1, <3>5, <3>6, OneAttestationChanges, RestOfChain DEF Chain!CreateAttestation
    <3> QED
      BY <3>1, <3>3, <3>7, OneAttestationChanges DEF Chain!ChainNext
  <2>2. CASE UNCHANGED program /\ data # << >> /\ data' = << >>
    <3>1. Shown(data) # NoAccount /\ Shown(data') = NoAccount
      BY <2>2, SeenType DEF Shown, LayoutTypeOK
    <3>2. Chain!CloseAttestation(AccountIssuer, Nonce)
      BY <2>2, <3>1, OneAttestationChanges, RestOfChain DEF Chain!CloseAttestation
    <3> QED
      BY <2>2, <3>2, OneAttestationChanges DEF Chain!ChainNext
  <2>3. CASE UNCHANGED <<program, data>>
    <3>1. Attestation' = Attestation
      BY <2>3 DEF Attestation, Seen, IsAttestation, ExpiryRead, expiry_offset, data_field_len,
                  AddressUnder
    <3> QED
      BY <3>1, RestOfChain DEF Chain!chainVars, Chain!sasVars
  <2>4. CASE program = "other" /\ UNCHANGED program /\ data' # << >>
    <3>1. Shown(data') = Seen(data') /\ Seen(data') \in Contents
      BY <2>4, SeenType DEF Shown, LayoutTypeOK
    <3>2. program \notin {"sas", DefaultKey} \cup {}
      BY <2>4, ViewAssumption
    <3>3. Chain!ForeignWrite(AccountIssuer, Nonce, Seen(data'))
      BY <2>4, <3>1, <3>2, OneAttestationChanges, RestOfChain DEF Chain!ForeignWrite
    <3> QED
      BY <2>4, <3>1, <3>3, OneAttestationChanges DEF Chain!ChainNext
  <2>5. CASE CloseAttestation
    BY <2>2, <2>5 DEF CloseAttestation
  <2>6. ASSUME NEW length \in 0..MaxLength, Resize(length)
        PROVE  [Chain!ChainNext]_Chain!chainVars
    BY <2>2, <2>3, <2>4, <2>6 DEF Resize, LayoutTypeOK
  <2>7. ASSUME NEW i \in DOMAIN data, NEW byte \in Byte, WriteByte(i, byte)
        PROVE  [Chain!ChainNext]_Chain!chainVars
    BY <2>2, <2>3, <2>4, <2>7 DEF WriteByte, LayoutTypeOK
  <2>8. CASE UNCHANGED layoutVars
    BY <2>3, <2>8 DEF layoutVars
  <2> QED
    BY <2>1, <2>5, <2>6, <2>7, <2>8 DEF LayoutNext
<1> QED
  BY <1>1, <1>2, LayoutTypeCorrect, PTL DEF LayoutSpec, AttestationSpec, Chain!ChainSpec

=============================================================================
