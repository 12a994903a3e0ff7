---------------------------- MODULE HookProgram -----------------------------
(***************************************************************************)
(* The administrative instructions of alien_id_transfer_hook: the          *)
(* HookConfig account of a mint, its ExtraAccountMetaList, the whitelist   *)
(* and the two-step handover of the config authority.                      *)
(*                                                                         *)
(* A transaction is atomic, and transactions that touch the same accounts  *)
(* are serialised by the runtime, so an instruction is one step.  A failed *)
(* constraint or require! undoes everything: a rejected instruction is a   *)
(* stuttering step, and its checks are the guards of the action.           *)
(***************************************************************************)
EXTENDS HookAccounts

CONSTANTS
    NoConfig,     \* the config PDA does not exist
    NoList        \* the extra-account-metas PDA does not exist

VARIABLES
    mintAuthority,  \* Token-2022: of each mint; a revoked one is one that nobody holds
    config,         \* HookConfig account of each hook
    metaList,       \* TLV data of the extra-account-metas account
    whitelist       \* wallets whose WhitelistEntry account exists

hookVars == <<mintAuthority, config, metaList, whitelist>>

\* The three keys a config asks attestations for.
Issuers == [credential : Credentials, schema : Schemas, sas_program : SasPrograms]

HookConfig == [authority : Keys, pending_authority : Keys, issuer : Issuers]

\* A missing config is no config.
ASSUME NoConfigAssumption == NoConfig \notin HookConfig

-----------------------------------------------------------------------------
(***************************************************************************)
(* The account list is spelled out twice in the code, once per instruction *)
(* that writes it.  Indexes count from 0: source, mint, destination, owner,*)
(* the list itself (4), then the entries from 5 on.                        *)
(***************************************************************************)
\* Mutant: the seed of the whitelist entry is the destination.
InitialAccountMetasOfDestination(issuer) ==
    << new_with_seeds(<<Literal("config"), AccountKey(1)>>),
       new_with_pubkey(issuer.credential),
       new_with_pubkey(issuer.schema),
       new_with_pubkey(issuer.sas_program),
       new_external_pda_with_seeds(8,
           <<Literal("attestation"), AccountKey(6), AccountKey(7), AccountKey(3)>>),
       new_with_seeds(<<Literal("whitelist"), AccountKey(1), AccountKey(2)>>) >>

InitialAccountMetas(issuer) ==
    << new_with_seeds(<<Literal("config"), AccountKey(1)>>),
       new_with_pubkey(issuer.credential),
       new_with_pubkey(issuer.schema),
       new_with_pubkey(issuer.sas_program),
       new_external_pda_with_seeds(8,
           <<Literal("attestation"), AccountKey(6), AccountKey(7), AccountKey(3)>>),
       new_with_seeds(<<Literal("whitelist"), AccountKey(1), AccountKey(3)>>) >>

UpdatedAccountMetas(issuer) ==
    << new_with_seeds(<<Literal("config"), AccountKey(1)>>),
       new_with_pubkey(issuer.credential),
       new_with_pubkey(issuer.schema),
       new_with_pubkey(issuer.sas_program),
       new_external_pda_with_seeds(8,
           <<Literal("attestation"), AccountKey(6), AccountKey(7), AccountKey(3)>>),
       new_with_seeds(<<Literal("whitelist"), AccountKey(1), AccountKey(3)>>) >>

\* Space allocated for the list with nothing written in it yet.
ZeroedList == << >>

\* A missing list is no list, not even one with nothing in it.
ASSUME NoListAssumption ==
    NoList \notin {ZeroedList} \cup {InitialAccountMetas(i) : i \in Issuers}

(***************************************************************************)
(* ExtraAccountMetaList::init allocates one TLV entry.  It fails when the  *)
(* account has no space, and when the entry is already there.              *)
(***************************************************************************)
TlvCanInit(data) == data = ZeroedList

-----------------------------------------------------------------------------
IsAuthority(h, signer) ==
    /\ config[h] # NoConfig
    /\ signer = config[h].authority

\* `init` creates the account zeroed: pending_authority starts as the default key.
InitializeConfig(h, authority, issuer) ==
    /\ config[h] = NoConfig
    /\ mintAuthority[MintOf(h)] = authority
    /\ config' = [config EXCEPT ![h] =
           [authority |-> authority, pending_authority |-> DefaultKey, issuer |-> issuer]]
    /\ UNCHANGED <<mintAuthority, metaList, whitelist>>

\* The account is created when it is empty; an existing one is used as it is.
ListBeforeInit(h) == IF metaList[h] = NoList THEN ZeroedList ELSE metaList[h]

CanInitializeExtraAccountMetaList(h, payer) ==
    /\ IsAuthority(h, payer)
    /\ TlvCanInit(ListBeforeInit(h))

InitializeExtraAccountMetaList(h, payer) ==
    /\ CanInitializeExtraAccountMetaList(h, payer)
    /\ metaList' = [metaList EXCEPT ![h] = InitialAccountMetas(config[h].issuer)]
    /\ UNCHANGED <<mintAuthority, config, whitelist>>

\* Mutant: a missing list is created on the way.
ListBeforeUpdateCreated(h) == ZeroedList

\* data.fill(0) clears an existing list; a missing account has nothing to clear.
ListBeforeUpdate(h) == IF metaList[h] = NoList THEN NoList ELSE ZeroedList

\* Mutant: the list is left as it is.
UpdateConfigKeepingList(h, authority, issuer) ==
    /\ IsAuthority(h, authority)
    /\ config' = [config EXCEPT ![h].issuer = issuer]
    /\ UNCHANGED <<mintAuthority, metaList, whitelist>>

\* Mutant: the list is cleared and not written again.
UpdateConfigClearingList(h, authority, issuer) ==
    /\ IsAuthority(h, authority)
    /\ TlvCanInit(ListBeforeUpdate(h))
    /\ config' = [config EXCEPT ![h].issuer = issuer]
    /\ metaList' = [metaList EXCEPT ![h] = ZeroedList]
    /\ UNCHANGED <<mintAuthority, whitelist>>

UpdateConfig(h, authority, issuer) ==
    /\ IsAuthority(h, authority)
    /\ TlvCanInit(ListBeforeUpdate(h))
    /\ config' = [config EXCEPT ![h].issuer = issuer]
    /\ metaList' = [metaList EXCEPT ![h] = UpdatedAccountMetas(issuer)]
    /\ UNCHANGED <<mintAuthority, whitelist>>

\* Mutant: the role moves at once.
TransferAuthorityAtOnce(h, authority, new_authority) ==
    /\ IsAuthority(h, authority)
    /\ config' = [config EXCEPT ![h].authority = new_authority]
    /\ UNCHANGED <<mintAuthority, metaList, whitelist>>

\* The new authority is an unchecked account: any key, the default one included.
TransferAuthority(h, authority, new_authority) ==
    /\ IsAuthority(h, authority)
    /\ config' = [config EXCEPT ![h].pending_authority = new_authority]
    /\ UNCHANGED <<mintAuthority, metaList, whitelist>>

\* Mutant: the nomination outlives its acceptance.
AcceptAuthorityAgain(h, pending_authority) ==
    /\ config[h] # NoConfig
    /\ pending_authority = config[h].pending_authority
    /\ config[h].pending_authority # DefaultKey
    /\ config' = [config EXCEPT ![h].authority = config[h].pending_authority]
    /\ UNCHANGED <<mintAuthority, metaList, whitelist>>

\* Mutant: the nomination is cleared before it is read.
AcceptAuthorityCleared(h, pending_authority) ==
    /\ config[h] # NoConfig
    /\ pending_authority = config[h].pending_authority
    /\ config[h].pending_authority # DefaultKey
    /\ config' = [config EXCEPT ![h].authority = DefaultKey,
                                ![h].pending_authority = DefaultKey]
    /\ UNCHANGED <<mintAuthority, metaList, whitelist>>

AcceptAuthority(h, pending_authority) ==
    /\ config[h] # NoConfig
    /\ pending_authority = config[h].pending_authority
    /\ config[h].pending_authority # DefaultKey
    /\ config' = [config EXCEPT ![h].authority = config[h].pending_authority,
                                ![h].pending_authority = DefaultKey]
    /\ UNCHANGED <<mintAuthority, metaList, whitelist>>

\* Mutant: the mint authority is checked in place of the config's.
AddToWhitelistByMintAuthority(h, authority, wallet) ==
    /\ mintAuthority[MintOf(h)] = authority
    /\ wallet \notin whitelist[h]
    /\ whitelist' = [whitelist EXCEPT ![h] = @ \cup {wallet}]
    /\ UNCHANGED <<mintAuthority, config, metaList>>

AddToWhitelist(h, authority, wallet) ==
    /\ IsAuthority(h, authority)
    /\ wallet \notin whitelist[h]
    /\ whitelist' = [whitelist EXCEPT ![h] = @ \cup {wallet}]
    /\ UNCHANGED <<mintAuthority, config, metaList>>

(***************************************************************************)
(* Closing the entry credits its rent to the authority, which this         *)
(* instruction does not mark `mut`: the runtime lets the balance of the    *)
(* authority change only when something else in the transaction marks it   *)
(* writable, such as its being the fee payer.                              *)
(***************************************************************************)
CanRemoveFromWhitelist(h, authority, writable, wallet) ==
    /\ IsAuthority(h, authority)
    /\ wallet \in whitelist[h]
    /\ authority \in writable

RemoveFromWhitelist(h, authority, writable, wallet) ==
    /\ CanRemoveFromWhitelist(h, authority, writable, wallet)
    /\ whitelist' = [whitelist EXCEPT ![h] = @ \ {wallet}]
    /\ UNCHANGED <<mintAuthority, config, metaList>>

\* Token-2022 SetAuthority(MintTokens): hand the mint over, or give it up.
SetMintAuthority(m, signer, new_authority) ==
    /\ mintAuthority[m] = signer
    /\ mintAuthority' = [mintAuthority EXCEPT ![m] = new_authority]
    /\ UNCHANGED <<config, metaList, whitelist>>

-----------------------------------------------------------------------------
\* Any wallet may have created any mint, and nothing else exists yet.
HookInit ==
    /\ mintAuthority \in [Mints -> Wallets]
    /\ config = [h \in Hooks |-> NoConfig]
    /\ metaList = [h \in Hooks |-> NoList]
    /\ whitelist = [h \in Hooks |-> {}]

HookNext ==
    \/ \E h \in Hooks, signer \in Wallets :
           \/ \E issuer \in Issuers : InitializeConfig(h, signer, issuer)
           \/ InitializeExtraAccountMetaList(h, signer)
           \/ \E issuer \in Issuers : UpdateConfig(h, signer, issuer)
           \/ \E key \in Keys : TransferAuthority(h, signer, key)
           \/ AcceptAuthority(h, signer)
           \/ \E wallet \in Wallets : AddToWhitelist(h, signer, wallet)
           \/ \E writable \in SUBSET Wallets, wallet \in Wallets :
                  RemoveFromWhitelist(h, signer, writable, wallet)
    \/ \E m \in Mints, signer \in Wallets, key \in Keys :
           SetMintAuthority(m, signer, key)

HookSpec == HookInit /\ [][HookNext]_hookVars

-----------------------------------------------------------------------------
(***************************************************************************)
(* Every account holds what its layout allows: a config a HookConfig, a    *)
(* list the entries written for some issuer, a whitelist entry a wallet.   *)
(***************************************************************************)
HookTypeOK ==
    /\ mintAuthority \in [Mints -> Keys]
    /\ config \in [Hooks -> HookConfig \cup {NoConfig}]
    /\ metaList \in [Hooks -> {InitialAccountMetas(i) : i \in Issuers} \cup {NoList}]
    /\ whitelist \in [Hooks -> SUBSET Wallets]

(***************************************************************************)
(* An initialised list always is the list of the present config: neither   *)
(* update_config nor a list created before, between or after updates       *)
(* leaves Token-2022 resolving accounts that transfer_hook then refuses.   *)
(***************************************************************************)
MetaListMatchesConfig ==
    \A h \in Hooks : metaList[h] # NoList =>
        /\ config[h] # NoConfig
        /\ metaList[h] = InitialAccountMetas(config[h].issuer)

(***************************************************************************)
(* A config is never left to a key that nobody can sign for, whatever keys *)
(* transfer_authority is given: a nominee takes over only by signing       *)
(* accept_authority, so a mistyped or default key cannot lock the hook.    *)
(***************************************************************************)
AuthorityCanSign ==
    \A h \in Hooks : config[h] # NoConfig => config[h].authority \in Wallets

(***************************************************************************)
(* A whitelist entry only exists under a config, whose authority created   *)
(* it and can revoke it: no exemption outlives the account that governs it.*)
(***************************************************************************)
WhitelistIsGoverned ==
    \A h \in Hooks : whitelist[h] # {} => config[h] # NoConfig

(***************************************************************************)
(* The handover of the config authority implements AuthorityHandover.      *)
(***************************************************************************)
Holder == [h \in Hooks |-> IF config[h] = NoConfig THEN DefaultKey
                                                   ELSE config[h].authority]
Nominee == [h \in Hooks |-> IF config[h] = NoConfig THEN DefaultKey
                                                    ELSE config[h].pending_authority]

Handover == INSTANCE AuthorityHandover
                WITH Offices <- Hooks, People <- Wallets, Nobody <- DefaultKey,
                     holder <- Holder, nominee <- Nominee

\* transfer_authority and accept_authority, seen through the config account, are a
\* nomination and its acceptance: authority moves to the standing nominee or not at all.
HandoverSpec == Handover!Spec

=============================================================================
