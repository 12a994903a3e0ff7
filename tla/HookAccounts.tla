---------------------------- MODULE HookAccounts ----------------------------
(***************************************************************************)
(* The keys and derived addresses that the transfer-hook program, its      *)
(* clients and Token-2022 agree on.                                        *)
(*                                                                         *)
(* A program derived address (PDA) is a hash of a program and a list of    *)
(* seeds.  All seeds that this code uses are one literal followed by       *)
(* 32-byte keys, so distinct seed lists hash distinct byte strings; a PDA  *)
(* is therefore the pair of its program and its seeds.                     *)
(***************************************************************************)
EXTENDS Naturals, Sequences

CONSTANTS
    Programs,     \* deployments of the hook program (old and new program id)
    Mints,        \* Token-2022 mints
    Wallets,      \* keys that can sign: admins, holders, delegates
    DefaultKey,   \* Pubkey::default(): nobody signs for it
    Credentials,  \* SAS credential accounts
    Schemas,      \* SAS schema accounts
    SasPrograms   \* programs a config may name as sas_program

(***************************************************************************)
(* Pubkey::default() is also the system program's address.  It never signs *)
(* and is no deployment of the hook program.                               *)
(***************************************************************************)
ASSUME DefaultKeyAssumption == DefaultKey \notin Wallets \cup Programs

\* Any key that an instruction may carry as an argument; the default key stands for all
\* those that nobody holds.
Keys == Wallets \cup {DefaultKey}

\* One deployment of the program serving one mint: the unit of all its state.
Hooks == Programs \X Mints
ProgramOf(h) == h[1]
MintOf(h) == h[2]

find_program_address(program, seeds) == <<"pda", program, seeds>>

config_address(h) ==
    find_program_address(ProgramOf(h), <<"config", MintOf(h)>>)

extra_account_meta_list_address(h) ==
    find_program_address(ProgramOf(h), <<"extra-account-metas", MintOf(h)>>)

whitelist_entry_address(h, wallet) ==
    find_program_address(ProgramOf(h), <<"whitelist", MintOf(h), wallet>>)

attestation_address(sas_program, credential, schema, nonce) ==
    find_program_address(sas_program, <<"attestation", credential, schema, nonce>>)

-----------------------------------------------------------------------------
(***************************************************************************)
(* ExtraAccountMeta entries (spl-tlv-account-resolution).  An entry is a   *)
(* fixed key, a PDA of the hook program, or a PDA of the program found at  *)
(* an earlier index; seeds refer to earlier accounts by index.             *)
(***************************************************************************)
Literal(bytes) == [type |-> "Literal", bytes |-> bytes]
AccountKey(index) == [type |-> "AccountKey", index |-> index]

new_with_pubkey(key) == [type |-> "Pubkey", key |-> key]
new_with_seeds(seeds) == [type |-> "HookPda", seeds |-> seeds]
new_external_pda_with_seeds(index, seeds) ==
    [type |-> "ExternalPda", program |-> index, seeds |-> seeds]

=============================================================================
