------------------------- MODULE AlienIdAttestation -------------------------
(***************************************************************************)
(* The data field of the attestations this project issues: the SDK encodes *)
(* a linkage between an Alien account and a Solana wallet (sdk/schema.ts), *)
(* SAS checks it against the schema's layout before it stores it, and      *)
(* whoever reads the attestation later decodes it by the schema's field    *)
(* names.  The account around the data field is that of AttestationLayout. *)
(*                                                                         *)
(* SAS is external: its check is the one that schema.ts describes.         *)
(***************************************************************************)
EXTENDS AttestationLayout, SequencesExt

CONSTANTS
    Utf8,        \* bytes of each character
    Addresses,   \* alien account addresses, bytes
    Strings,     \* chain ids and solana addresses, sequences of characters
    Proofs,      \* signatures, bytes
    Versions,    \* a number of JavaScript: 0=V0_9, 1=V1, 2=V2, and any other
    Timestamps,  \* a bigint, seconds; a u64 in the schema
    NoLinkage

AlienIdAttestationData ==
    [alienAccountAddress : Addresses, alienIDVersion : Versions, alienChainId : Strings,
     solanaAddress : Strings, linkageProof : Proofs, timestamp : Timestamps]

\* Characters have UTF-8 forms.
ASSUME LinkageAssumption ==
    /\ Utf8 \in [DOMAIN Utf8 -> Seq(Byte)]
    /\ Strings \subseteq Seq(DOMAIN Utf8)
    /\ Addresses \cup Proofs \subseteq Seq(Byte)
    /\ Versions \subseteq Int
    /\ Timestamps \subseteq Int

VARIABLES
    draft,     \* linkage a client has encoded, with its bytes, not submitted yet
    attested   \* linkage that the attestation on chain was made from

linkageVars == <<layoutVars, draft, attested>>

-----------------------------------------------------------------------------
u32LE(value) == u32_to_le_bytes(value)
i64LE(value) == i64_to_le_bytes(value)

\* Buffer.from(str, "utf-8").
BufferFrom(string) == FlattenSeq([i \in DOMAIN string |-> Utf8[string[i]]])

\* Mutant: the two strings change places.
encodeAlienIdAttestationDataSwapped(params) ==
    LET alienChainId == BufferFrom(params.alienChainId)
        solanaAddress == BufferFrom(params.solanaAddress)
    IN  (u32LE(Len(params.alienAccountAddress)) \o params.alienAccountAddress)
        \o <<params.alienIDVersion % Base>>
        \o (u32LE(Len(solanaAddress)) \o solanaAddress)
        \o (u32LE(Len(alienChainId)) \o alienChainId)
        \o (u32LE(Len(params.linkageProof)) \o params.linkageProof)
        \o i64LE(params.timestamp)

\* Mutant: a string's length counts its characters.
encodeAlienIdAttestationDataByCharacters(params) ==
    LET alienChainId == BufferFrom(params.alienChainId)
        solanaAddress == BufferFrom(params.solanaAddress)
    IN  (u32LE(Len(params.alienAccountAddress)) \o params.alienAccountAddress)
        \o <<params.alienIDVersion % Base>>
        \o (u32LE(Len(params.alienChainId)) \o alienChainId)
        \o (u32LE(Len(params.solanaAddress)) \o solanaAddress)
        \o (u32LE(Len(params.linkageProof)) \o params.linkageProof)
        \o i64LE(params.timestamp)

\* Buffer.from([n]) keeps the low byte of n.
encodeAlienIdAttestationData(params) ==
    LET alienChainId == BufferFrom(params.alienChainId)
        solanaAddress == BufferFrom(params.solanaAddress)
    IN  (u32LE(Len(params.alienAccountAddress)) \o params.alienAccountAddress)
        \o <<params.alienIDVersion % Base>>
        \o (u32LE(Len(alienChainId)) \o alienChainId)
        \o (u32LE(Len(solanaAddress)) \o solanaAddress)
        \o (u32LE(Len(params.linkageProof)) \o params.linkageProof)
        \o i64LE(params.timestamp)

\* Mutant: what does not fit is cut off.
EncodableAlways(params) == TRUE

\* writeUInt32LE and writeBigInt64LE throw for a value that does not fit.
Encodable(params) ==
    /\ {Len(params.alienAccountAddress), Len(BufferFrom(params.alienChainId)),
        Len(BufferFrom(params.solanaAddress)), Len(params.linkageProof)} \subseteq u32
    /\ params.timestamp \in i64

SCHEMA_LAYOUT == <<"VecU8", "U8", "String", "String", "VecU8", "U64">>

SCHEMA_FIELD_NAMES ==
    <<"alienAccountAddress", "alienIDVersion", "alienChainId", "solanaAddress",
      "linkageProof", "timestamp">>

-----------------------------------------------------------------------------
(***************************************************************************)
(* validate_data walks the fields of the layout through the bytes, each at *)
(* the end of the one before it; the last must end where the bytes end.    *)
(***************************************************************************)
Sized(type) == type \in {"VecU8", "String"}

FieldSize(type, bytes, from) ==
    CASE type = "U8" -> 1
      [] type = "U64" -> 4
      [] Sized(type) -> IF from + 2 > Len(bytes) THEN 2
                        ELSE 2 + u32_from_le_bytes(Slice(bytes, from, from + 2))

FieldEnds(bytes) ==
    LET end[n \in 0..Len(SCHEMA_LAYOUT)] ==
            IF n = 0 THEN 0 ELSE end[n - 1] + FieldSize(SCHEMA_LAYOUT[n], bytes, end[n - 1])
    IN  end

validate_data(bytes) == FieldEnds(bytes)[Len(SCHEMA_LAYOUT)] = Len(bytes)

\* What a reader of the attestation finds under the schema's n-th name.
DecodedField(bytes, n) ==
    LET end == FieldEnds(bytes)
        type == SCHEMA_LAYOUT[n]
    IN  CASE type = "U8" -> bytes[end[n]]
          [] type = "U64" -> u64_from_le_bytes(Slice(bytes, end[n - 1], end[n]))
          [] Sized(type) -> Slice(bytes, end[n - 1] + 2, end[n])

\* The data field of the account, at the length that precedes it.
DataField(bytes) ==
    Slice(bytes, base_offset + 2, base_offset + 2 + data_field_len(bytes))

-----------------------------------------------------------------------------
Encode(params) ==
    /\ draft = NoLinkage
    /\ Encodable(params)
    /\ draft' = [params |-> params, bytes |-> encodeAlienIdAttestationData(params)]
    /\ UNCHANGED <<layoutVars, attested>>

\* The length of the data precedes it in the instruction, and in the account, as a u32.
Submit(signer, expiry, tokenAccount) ==
    /\ draft # NoLinkage
    /\ Len(draft.bytes) \in u32
    /\ validate_data(draft.bytes)
    /\ CreateAttestation(draft.bytes, signer, expiry, tokenAccount)
    /\ attested' = draft.params
    /\ draft' = NoLinkage

\* The transaction is lost or refused.
Abandon ==
    /\ draft # NoLinkage
    /\ draft' = NoLinkage
    /\ UNCHANGED <<layoutVars, attested>>

Close ==
    /\ CloseAttestation
    /\ attested' = NoLinkage
    /\ UNCHANGED draft

LinkageInit ==
    /\ LayoutInit /\ program = "sas"
    /\ draft = NoLinkage
    /\ attested = NoLinkage

LinkageNext ==
    \/ \E params \in AlienIdAttestationData : Encode(params)
    \/ \E signer, tokenAccount \in PublicKeys, expiry \in Issuable :
           Submit(signer, expiry, tokenAccount)
    \/ Abandon
    \/ Close

LinkageSpec == LinkageInit /\ [][LinkageNext]_linkageVars

-----------------------------------------------------------------------------
(***************************************************************************)
(* SAS never refuses what the SDK encodes: the layout that the SDK         *)
(* registers and the bytes it writes agree, whatever the linkage's strings *)
(* and however many bytes their characters take.                           *)
(***************************************************************************)
EncodingNeverRefused == draft # NoLinkage => validate_data(draft.bytes)

\* What a reader gets of a linkage: strings as their bytes, a version as its low
\* byte, a negative timestamp as what its bytes are in a u64.
AsRead(params) ==
    [params EXCEPT !.alienChainId = BufferFrom(@), !.solanaAddress = BufferFrom(@),
                   !.alienIDVersion = @ % Base,
                   !.timestamp = IF @ >= 0 THEN @ ELSE @ + LongWord]

(***************************************************************************)
(* A reader who decodes the attestation by the schema's names finds the    *)
(* linkage that was encoded, each value under its own name and nothing cut *)
(* off but the version; a timestamp past the range of an i64 is never      *)
(* attested as another one.  And the hook, which skips the data field,     *)
(* finds the expiry behind it.                                             *)
(***************************************************************************)
AttestedAsEncoded ==
    attested # NoLinkage =>
        /\ \A n \in DOMAIN SCHEMA_FIELD_NAMES :
               DecodedField(DataField(data), n) = AsRead(attested)[SCHEMA_FIELD_NAMES[n]]
        /\ HookReads(data) = issued

=============================================================================
