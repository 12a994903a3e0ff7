-------------------------- MODULE AttestationView ---------------------------
(***************************************************************************)
(* TransferHook knows two things of the bytes of an attestation account:   *)
(* whether they have the layout, and which expiry they hold.  Here the     *)
(* bytes of AttestationLayout implement its attestations: for one wallet   *)
(* and one issuer, whose attestation program is SAS or another one, with   *)
(* the rest of the chain left out.                                         *)
(***************************************************************************)
EXTENDS AttestationLayout

CONSTANTS
    DefaultKey,  \* Pubkey::default()
    Unread,      \* the signer of an attestation, which the hook does not read
    NoAccount    \* TransferHook's NoAttestation, and accounts that are left out

Accounts == INSTANCE HookAccounts
                WITH Programs <- {}, Mints <- {}, Wallets <- {Nonce},
                     Credentials <- {Credential}, Schemas <- {Schema},
                     SasPrograms <- {"sas", "other"}

AddressUnder(sas_program) ==
    Accounts!attestation_address(sas_program, Credential, Schema, Nonce)

\* What bytes can be to the hook.
Contents == [well_formed : BOOLEAN, signer : {Unread}, expiry : i64]

\* The default key is no attestation program, and a missing account has no contents.
ASSUME ViewAssumption ==
    /\ DefaultKey \notin {"sas", "other"}
    /\ NoAccount \notin Contents

\* An attestation as TransferHook has it.
Seen(bytes) ==
    [well_formed |-> IsAttestation(bytes), signer |-> Unread,
     expiry |-> IF IsAttestation(bytes) THEN ExpiryRead(bytes) ELSE 0]

\* A PDA belongs to one program: under the other one there is no account.
Attestation ==
    [a \in {AddressUnder("sas"), AddressUnder("other")} |->
        IF a = AddressUnder(program) /\ data # << >> THEN Seen(data) ELSE NoAccount]

None == [x \in {} |-> NoAccount]

Chain == INSTANCE TransferHook
             WITH Programs <- {}, Mints <- {}, Wallets <- {Nonce},
                  Credentials <- {Credential}, Schemas <- {Schema},
                  SasPrograms <- {"sas", "other"}, SasProgramId <- "sas",
                  Signers <- {Unread}, Expiries <- i64, MaxTime <- 1,
                  ForeignData <- Contents,
                  NoConfig <- NoAccount, NoList <- NoAccount,
                  NoAttestation <- NoAccount, NoDelegate <- NoAccount,
                  mintAuthority <- None, config <- None, metaList <- None, whitelist <- None,
                  attestation <- Attestation,
                  authorizedSigners <- [c \in {Credential} |-> {Unread}], clock <- 1

(***************************************************************************)
(* Every step of an account's bytes is a step that TransferHook expects of *)
(* an attestation: SAS only writes what the hook takes for an attestation, *)
(* whatever the data field and whatever follows the expiry, and no other   *)
(* program can write bytes that are something else to the hook than an     *)
(* attestation with some expiry, no attestation, or nothing.               *)
(***************************************************************************)
AttestationSpec == Chain!ChainSpec

=============================================================================
