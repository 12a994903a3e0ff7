-------------------------- MODULE AttestationLayout --------------------------
(***************************************************************************)
(* The bytes of an attestation account: how the Solana Attestation Service *)
(* lays an Attestation out, and how transfer_hook finds the expiry in it,  *)
(* behind a data field whose length is itself read from the bytes.         *)
(* TransferHook knows of these bytes only whether they have the layout and *)
(* which expiry they hold (IsAttestation and ExpiryRead here).             *)
(*                                                                         *)
(* Bytes are numbers below Base, keys are KeySize bytes.  A u32 takes two  *)
(* bytes and an i64 four, so one is still twice as wide as the other; all  *)
(* that the code does with integers, little-endian order and two's         *)
(* complement, is kept.                                                    *)
(***************************************************************************)
EXTENDS Integers, Sequences

CONSTANTS
    Base,                       \* values of a byte (256)
    KeySize,                    \* bytes of a public key (32)
    ATTESTATION_DISCRIMINATOR,  \* first byte of an attestation
    PublicKeys,                 \* signers and token accounts of attestations
    Nonce, Credential, Schema,  \* keys that the account's address is derived from
    Payloads,                   \* contents of the data field
    Issuable,                   \* expiries that attestations are issued with
    MaxLength,                  \* bound on accounts that other programs allocate
    NotIssued,                  \* SAS holds no attestation in the account
    Refused                     \* transfer_hook's error InvalidAttestation

Byte == 0..(Base - 1)
Word == Base * Base         \* values of a u32
LongWord == Word * Word     \* values of a u64, or an i64

u32 == 0..(Word - 1)
u64 == 0..(LongWord - 1)
i64 == {n \in (-LongWord)..LongWord : -LongWord <= 2 * n /\ 2 * n < LongWord}

ASSUME LayoutAssumption ==
    /\ Base \in Nat /\ Base > 1 /\ KeySize \in Nat \ {0} /\ MaxLength \in Nat
    /\ ATTESTATION_DISCRIMINATOR \in Byte
    /\ PublicKeys \cup {Nonce, Credential, Schema} \subseteq {k \in Seq(Byte) : Len(k) = KeySize}
    /\ Payloads \subseteq {p \in Seq(Byte) : Len(p) \in u32}
    /\ Issuable \subseteq i64
    /\ NotIssued \notin i64 /\ Refused \notin i64

VARIABLES
    program,  \* the account's owner: "sas", or another program a config may name
    data,     \* bytes of the account; none when it does not exist
    issued    \* expiry of the attestation that SAS holds in the account

layoutVars == <<program, data, issued>>

-----------------------------------------------------------------------------
(***************************************************************************)
(* Integers as bytes.                                                      *)
(***************************************************************************)
\* Mutant: the low byte is not cut off.
u32_to_le_bytes_unmasked(n) == <<n, n \div Base>>

u32_to_le_bytes(n) == <<n % Base, n \div Base>>
u32_from_le_bytes(bytes) == bytes[1] + Base * bytes[2]

u64_to_le_bytes(n) == u32_to_le_bytes(n % Word) \o u32_to_le_bytes(n \div Word)
u64_from_le_bytes(bytes) ==
    u32_from_le_bytes(<<bytes[1], bytes[2]>>) + Word * u32_from_le_bytes(<<bytes[3], bytes[4]>>)

i64_to_le_bytes(n) == u64_to_le_bytes(n % LongWord)
i64_from_le_bytes(bytes) ==
    LET n == u64_from_le_bytes(bytes) IN IF 2 * n < LongWord THEN n ELSE n - LongWord

\* data[from..to] of the code, whose indexes count from 0.
Slice(bytes, from, to) == SubSeq(bytes, from + 1, to)

-----------------------------------------------------------------------------
(***************************************************************************)
(* What SAS writes.  A token account follows the expiry; the hook does not *)
(* know of it.                                                             *)
(***************************************************************************)
Header == <<ATTESTATION_DISCRIMINATOR>> \o Nonce \o Credential \o Schema

AttestationBytes(payload, signer, expiry, tokenAccount) ==
    Header \o u32_to_le_bytes(Len(payload)) \o payload
        \o signer \o i64_to_le_bytes(expiry) \o tokenAccount

-----------------------------------------------------------------------------
(***************************************************************************)
(* What transfer_hook reads, each length check before the read it guards.  *)
(***************************************************************************)
base_offset == 1 + KeySize + KeySize + KeySize

data_field_len(bytes) == u32_from_le_bytes(Slice(bytes, base_offset, base_offset + 2))

\* Mutant: the signer behind the data field is forgotten.
expiry_offset_unsigned(bytes) == base_offset + 2 + data_field_len(bytes)

expiry_offset(bytes) == base_offset + 2 + data_field_len(bytes) + KeySize

\* Mutant: nothing may follow the expiry.
IsAttestationExact(bytes) ==
    /\ Len(bytes) > 1
    /\ bytes[1] = ATTESTATION_DISCRIMINATOR
    /\ Len(bytes) >= base_offset + 2
    /\ Len(bytes) = expiry_offset(bytes) + 4

IsAttestation(bytes) ==
    /\ Len(bytes) > 1
    /\ bytes[1] = ATTESTATION_DISCRIMINATOR
    /\ Len(bytes) >= base_offset + 2
    /\ Len(bytes) >= expiry_offset(bytes) + 4

\* Mutant: the expiry is taken to be the last field of the account.
ExpiryReadLast(bytes) == i64_from_le_bytes(Slice(bytes, Len(bytes) - 4, Len(bytes)))

\* Mutant: the expiry is read as a u32.
ExpiryReadNarrow(bytes) ==
    u32_from_le_bytes(Slice(bytes, expiry_offset(bytes), expiry_offset(bytes) + 2))

ExpiryRead(bytes) ==
    i64_from_le_bytes(Slice(bytes, expiry_offset(bytes), expiry_offset(bytes) + 4))

HookReads(bytes) == IF IsAttestation(bytes) THEN ExpiryRead(bytes) ELSE Refused

-----------------------------------------------------------------------------
CreateAttestation(payload, signer, expiry, tokenAccount) ==
    /\ program = "sas"
    /\ data = << >>
    /\ data' = AttestationBytes(payload, signer, expiry, tokenAccount)
    /\ issued' = expiry
    /\ UNCHANGED program

CloseAttestation ==
    /\ program = "sas"
    /\ data # << >>
    /\ data' = << >>
    /\ issued' = NotIssued
    /\ UNCHANGED program

\* Another program allocates, grows and shrinks its account: new bytes are zero.
Resize(length) ==
    /\ program # "sas"
    /\ data' = [i \in 1..length |-> IF i <= Len(data) THEN data[i] ELSE 0]
    /\ UNCHANGED <<program, issued>>

WriteByte(i, byte) ==
    /\ program # "sas"
    /\ data' = [data EXCEPT ![i] = byte]
    /\ UNCHANGED <<program, issued>>

-----------------------------------------------------------------------------
LayoutInit ==
    /\ program \in {"sas", "other"}
    /\ data = << >>
    /\ issued = NotIssued

LayoutNext ==
    \/ \E payload \in Payloads, signer, tokenAccount \in PublicKeys, expiry \in Issuable :
           CreateAttestation(payload, signer, expiry, tokenAccount)
    \/ CloseAttestation
    \/ \E length \in 0..MaxLength : Resize(length)
    \/ \E i \in DOMAIN data, byte \in Byte : WriteByte(i, byte)

LayoutSpec == LayoutInit /\ [][LayoutNext]_layoutVars

-----------------------------------------------------------------------------
(***************************************************************************)
(* Accounts are made of bytes, and SAS issues expiries of 64 bits.         *)
(***************************************************************************)
LayoutTypeOK ==
    /\ program \in {"sas", "other"}
    /\ data \in Seq(Byte)
    /\ issued \in Issuable \cup {NotIssued}

(***************************************************************************)
(* The hook reads exactly the expiry that SAS issued, behind a data field  *)
(* of any length and contents and whatever follows the expiry; and it      *)
(* refuses the account before it is issued and after it is closed.         *)
(***************************************************************************)
ExpiryReadBack ==
    program = "sas" => HookReads(data) = IF issued = NotIssued THEN Refused ELSE issued

(***************************************************************************)
(* The length of an account decides whether there is an expiry to read,    *)
(* never which: bytes after the expiry change nothing, and an account cut  *)
(* short is refused before it is read as something else, even when its own *)
(* length field points past its end.                                       *)
(***************************************************************************)
LengthOnlyDecidesPresence ==
    [][/\ Len(data') > Len(data) /\ HookReads(data) # Refused => HookReads(data') = HookReads(data)
       /\ Len(data') < Len(data) /\ HookReads(data') # Refused => HookReads(data') = HookReads(data)
      ]_layoutVars

=============================================================================
