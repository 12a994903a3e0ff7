---------------------------- MODULE TransferHook ----------------------------
(***************************************************************************)
(* The transfer_hook instruction: what it reads of the accounts it is      *)
(* handed and when it lets a transfer through, together with the accounts  *)
(* it depends on (HookProgram's, the attestations kept by the Solana       *)
(* Attestation Service, the cluster clock) and their changes.              *)
(*                                                                         *)
(* The instruction writes nothing, so it is a predicate, HookAccepts, on   *)
(* the accounts of a call.  The caller picks those accounts: Token-2022    *)
(* hands over the ones resolved from the ExtraAccountMetaList, a direct    *)
(* caller any accounts at all.                                             *)
(***************************************************************************)
EXTENDS HookProgram, Integers, SequencesExt

CONSTANTS
    SasProgramId,   \* the Solana Attestation Service proper
    Signers,        \* keys that may be authorised to sign attestations
    Expiries,       \* expiry values an attestation may be given; 0 is "never"
    MaxTime,        \* bound on the clock
    ForeignData,    \* attestation data that a program other than SAS may write
    NoAttestation,  \* no account at an attestation address
    NoDelegate      \* a token account without a delegate

(***************************************************************************)
(* The clock is positive: its origin is 1970 and 0 is a reserved expiry.   *)
(***************************************************************************)
ASSUME TimeAssumption == MaxTime \in Nat \ {0} /\ Expiries \subseteq Int

VARIABLES
    attestation,        \* data of the account at each attestation address
    authorizedSigners,  \* SAS credential: who may sign attestations under it
    clock               \* Clock::get().unix_timestamp

sasVars == <<attestation, authorizedSigners>>
chainVars == <<hookVars, sasVars, clock>>

\* What the hook tells apart in attestation data: whether the discriminator and the
\* lengths are those of an attestation, and the expiry.  The signer is not read.
AttestationData == [well_formed : BOOLEAN, signer : Signers, expiry : Expiries]

ASSUME ForeignDataAssumption == ForeignData \subseteq AttestationData

AttestationOf(issuer, wallet) ==
    attestation_address(issuer.sas_program, issuer.credential, issuer.schema, wallet)

AttestationAddresses == {AttestationOf(i, w) : i \in Issuers, w \in Wallets}

-----------------------------------------------------------------------------
(***************************************************************************)
(* Accounts on chain.  An account that exists at a PDA is owned by the     *)
(* PDA's program; any other address is an empty account of the system      *)
(* program.                                                                *)
(***************************************************************************)
Exists(address) ==
    \/ \E h \in Hooks :
           \/ address = config_address(h) /\ config[h] # NoConfig
           \/ address = extra_account_meta_list_address(h) /\ metaList[h] # NoList
           \/ \E w \in whitelist[h] : address = whitelist_entry_address(h, w)
    \/ address \in AttestationAddresses /\ attestation[address] # NoAttestation

account_owner(address) == IF Exists(address) THEN address[2] ELSE DefaultKey

-----------------------------------------------------------------------------
\* The source token account as the hook deserialises it, during the transfer.
SourceView(mint, owner, delegate, delegated_amount, transferring) ==
    [mint |-> mint, owner |-> owner, delegate |-> delegate,
     delegated_amount |-> delegated_amount, transferring |-> transferring]

\* token::mint = mint, of the source and of the destination.
AreTokenAccountsOf(mint, call) == call.source.mint = mint /\ call.destination_mint = mint

assert_is_transferring(call) == call.source.transferring

is_direct_owner(call) == call.source.owner = call.transfer_authority

is_approved_delegate(call) ==
    /\ call.source.delegate = call.transfer_authority
    /\ call.source.delegated_amount > 0

\* data.len() and the discriminator; a missing account has no data at all.
HasAttestationLayout(address) ==
    /\ address \in AttestationAddresses
    /\ attestation[address] # NoAttestation
    /\ attestation[address].well_formed

\* Mutant: the comparison the wrong way round.
NotExpiredReversed(expiry) == expiry # 0 => expiry <= clock

\* Mutant: an attestation is still good at its expiry.
NotExpiredInclusive(expiry) == expiry # 0 => expiry >= clock

\* Mutant: the reserved value is compared as well.
NotExpiredOrdinaryZero(expiry) == expiry > clock

NotExpired(expiry) == expiry # 0 => expiry > clock

\* Mutant: the expiry is not looked at.
AttestationVerifiedUntimed(issuer, call) ==
    /\ call.credential = issuer.credential
    /\ call.schema = issuer.schema
    /\ call.sas_program = issuer.sas_program
    /\ call.attestation = AttestationOf(issuer, call.transfer_authority)
    /\ account_owner(call.attestation) = issuer.sas_program
    /\ HasAttestationLayout(call.attestation)

AttestationVerified(issuer, call) ==
    /\ call.credential = issuer.credential
    /\ call.schema = issuer.schema
    /\ call.sas_program = issuer.sas_program
    /\ call.attestation = AttestationOf(issuer, call.transfer_authority)
    /\ account_owner(call.attestation) = issuer.sas_program
    /\ HasAttestationLayout(call.attestation)
    /\ NotExpired(attestation[call.attestation].expiry)

\* Mutant: any account of the hook program passes for a whitelist entry.
HookAcceptsAnyEntry(h, call) ==
    /\ call.extra_account_meta_list = extra_account_meta_list_address(h)
    /\ call.config = config_address(h)
    /\ config[h] # NoConfig
    /\ AreTokenAccountsOf(MintOf(h), call)
    /\ assert_is_transferring(call)
    /\ is_direct_owner(call) \/ is_approved_delegate(call)
    /\ \/ account_owner(call.whitelist_entry) = ProgramOf(h)
       \/ AttestationVerified(config[h].issuer, call)

\* Mutant: a whitelisted wallet needs an attestation all the same.
HookAcceptsAttestedOnly(h, call) ==
    /\ call.extra_account_meta_list = extra_account_meta_list_address(h)
    /\ call.config = config_address(h)
    /\ config[h] # NoConfig
    /\ AreTokenAccountsOf(MintOf(h), call)
    /\ assert_is_transferring(call)
    /\ is_direct_owner(call) \/ is_approved_delegate(call)
    /\ AttestationVerified(config[h].issuer, call)

\* An account of the hook program in the place of the whitelist entry decides alone.
HookAccepts(h, call) ==
    /\ call.extra_account_meta_list = extra_account_meta_list_address(h)
    /\ call.config = config_address(h)
    /\ config[h] # NoConfig
    /\ AreTokenAccountsOf(MintOf(h), call)
    /\ assert_is_transferring(call)
    /\ is_direct_owner(call) \/ is_approved_delegate(call)
    /\ IF account_owner(call.whitelist_entry) = ProgramOf(h)
       THEN call.whitelist_entry = whitelist_entry_address(h, call.transfer_authority)
       ELSE AttestationVerified(config[h].issuer, call)

-----------------------------------------------------------------------------
(***************************************************************************)
(* Token-2022 and the clients resolve the entries of the list one after    *)
(* the other, each from the accounts before it (indexes count from 0).     *)
(***************************************************************************)
ResolveSeeds(seeds, accounts) ==
    [i \in DOMAIN seeds |-> IF seeds[i].type = "Literal" THEN seeds[i].bytes
                                                         ELSE accounts[seeds[i].index + 1]]

ResolveMeta(program, accounts, meta) ==
    CASE meta.type = "Pubkey" -> meta.key
      [] meta.type = "HookPda" ->
             find_program_address(program, ResolveSeeds(meta.seeds, accounts))
      [] meta.type = "ExternalPda" ->
             find_program_address(accounts[meta.program + 1], ResolveSeeds(meta.seeds, accounts))

ResolveAccounts(h, list, source, destination, authority) ==
    LET accounts[n \in 0..Len(list)] ==
            IF n = 0
            THEN <<source, MintOf(h), destination, authority, extra_account_meta_list_address(h)>>
            ELSE Append(accounts[n - 1], ResolveMeta(ProgramOf(h), accounts[n - 1], list[n]))
    IN  accounts[Len(list)]

\* struct TransferHook: which account of the instruction is which.  The token accounts and
\* the authority are Token-2022's own arguments of the call.
TransferHookAccounts(source, destinationMint, authority, accounts) ==
    [source |-> source,
     destination_mint |-> destinationMint,
     transfer_authority |-> authority,
     extra_account_meta_list |-> accounts[5],
     config |-> accounts[6],
     credential |-> accounts[7],
     schema |-> accounts[8],
     sas_program |-> accounts[9],
     attestation |-> accounts[10],
     whitelist_entry |-> accounts[11]]

-----------------------------------------------------------------------------
(***************************************************************************)
(* The Solana Attestation Service, as the hook and the tests use it.       *)
(***************************************************************************)
CreateAttestation(issuer, wallet, signer, expiry) ==
    LET a == AttestationOf(issuer, wallet) IN
    /\ issuer.sas_program = SasProgramId
    /\ attestation[a] = NoAttestation
    /\ signer \in authorizedSigners[issuer.credential]
    /\ attestation' = [attestation EXCEPT ![a] =
           [well_formed |-> TRUE, signer |-> signer, expiry |-> expiry]]
    /\ UNCHANGED <<hookVars, authorizedSigners, clock>>

CloseAttestation(issuer, wallet) ==
    LET a == AttestationOf(issuer, wallet) IN
    /\ attestation[a] # NoAttestation
    /\ attestation' = [attestation EXCEPT ![a] = NoAttestation]
    /\ UNCHANGED <<hookVars, authorizedSigners, clock>>

ChangeAuthorizedSigners(credential, signers) ==
    /\ authorizedSigners' = [authorizedSigners EXCEPT ![credential] = signers]
    /\ UNCHANGED <<hookVars, attestation, clock>>

\* update_config accepts any sas_program: another program writes what it likes.
ForeignWrite(issuer, wallet, data) ==
    /\ issuer.sas_program \notin {SasProgramId, DefaultKey} \cup Programs
    /\ attestation' = [attestation EXCEPT ![AttestationOf(issuer, wallet)] = data]
    /\ UNCHANGED <<hookVars, authorizedSigners, clock>>

Tick ==
    /\ clock < MaxTime
    /\ clock' = clock + 1
    /\ UNCHANGED <<hookVars, sasVars>>

-----------------------------------------------------------------------------
ChainInit ==
    /\ HookInit
    /\ attestation = [a \in AttestationAddresses |-> NoAttestation]
    /\ authorizedSigners \in [Credentials -> SUBSET Signers]
    /\ clock = 1

ChainNext ==
    \/ HookNext /\ UNCHANGED <<sasVars, clock>>
    \/ \E issuer \in Issuers, wallet \in Wallets :
           \/ \E signer \in Signers, expiry \in Expiries :
                  CreateAttestation(issuer, wallet, signer, expiry)
           \/ CloseAttestation(issuer, wallet)
           \/ \E data \in ForeignData : ForeignWrite(issuer, wallet, data)
    \/ \E credential \in Credentials, signers \in SUBSET Signers :
           ChangeAuthorizedSigners(credential, signers)
    \/ Tick

ChainSpec == ChainInit /\ [][ChainNext]_chainVars

-----------------------------------------------------------------------------
(***************************************************************************)
(* The accounts hold what their layouts allow.                             *)
(***************************************************************************)
ChainTypeOK ==
    /\ HookTypeOK
    /\ attestation \in [AttestationAddresses -> AttestationData \cup {NoAttestation}]
    /\ authorizedSigners \in [Credentials -> SUBSET Signers]
    /\ clock \in 1..MaxTime

(***************************************************************************)
(* Who may move tokens of the hook's mint, read from the chain itself and  *)
(* not from the accounts of a call: whitelisted wallets and wallets with a *)
(* live attestation of the issuer that the config names at present, 0      *)
(* being the expiry of one that lives for ever (README.md:17).             *)
(***************************************************************************)
Attested(issuer, wallet) ==
    LET data == attestation[AttestationOf(issuer, wallet)]
    IN  /\ data # NoAttestation
        /\ data.well_formed
        /\ data.expiry = 0 \/ clock < data.expiry

Entitled(h, wallet) ==
    /\ config[h] # NoConfig
    /\ wallet \in whitelist[h] \/ Attested(config[h].issuer, wallet)

\* Addresses a caller may put in any place, existing accounts or not.
Addresses ==
    AttestationAddresses
        \cup UNION {{config_address(h), extra_account_meta_list_address(h)} : h \in Hooks}
        \cup {whitelist_entry_address(h, w) : h \in Hooks, w \in Wallets}

\* A transfer of the owner's own tokens, with accounts of the caller's choice.
CallWith(h, owner, issuer, att, entry) ==
    [source |-> SourceView(MintOf(h), owner, NoDelegate, 0, TRUE),
     destination_mint |-> MintOf(h),
     transfer_authority |-> owner,
     extra_account_meta_list |-> extra_account_meta_list_address(h),
     config |-> config_address(h),
     credential |-> issuer.credential,
     schema |-> issuer.schema,
     sas_program |-> issuer.sas_program,
     attestation |-> att,
     whitelist_entry |-> entry]

(***************************************************************************)
(* Soundness: whatever accounts the caller passes, transfer_hook succeeds  *)
(* only for an authority that is entitled at that moment; an entry of      *)
(* another wallet or mint, another config, a foreign or stale attestation  *)
(* never stands in for its own.                                            *)
(***************************************************************************)
HookSound ==
    \A h \in Hooks, wallet \in Wallets : Entitled(h, wallet) \/
    \A issuer \in Issuers, att, entry \in Addresses :
        ~ HookAccepts(h, CallWith(h, wallet, issuer, att, entry))

\* The call that Token-2022 makes for such a transfer, with the accounts of the list.
ResolvedCall(h, owner, destination) ==
    TransferHookAccounts(SourceView(MintOf(h), owner, NoDelegate, 0, TRUE), MintOf(h), owner,
                         ResolveAccounts(h, metaList[h], owner, destination, owner))

(***************************************************************************)
(* Completeness: once config and list exist, the accounts that Token-2022  *)
(* resolves from the list make transfer_hook accept the transfer of every  *)
(* entitled owner, after any sequence of updates and attestations.         *)
(***************************************************************************)
HookComplete ==
    \A h \in Hooks, wallet, destination \in Wallets :
        metaList[h] # NoList /\ Entitled(h, wallet) =>
            HookAccepts(h, ResolvedCall(h, wallet, destination))

\* The call with the owner's own attestation, under the issuer of the config, and entry.
OwnCall(h, owner) ==
    CallWith(h, owner, config[h].issuer, AttestationOf(config[h].issuer, owner),
             whitelist_entry_address(h, owner))

(***************************************************************************)
(* A transfer that transfer_hook refuses is not let through by waiting: an *)
(* attestation, once expired, stays expired, and time alone opens nothing. *)
(***************************************************************************)
TimeOnlyRevokes ==
    [][clock' # clock =>
           \A h \in Hooks, owner \in Wallets :
               config[h] # NoConfig /\ HookAccepts(h, OwnCall(h, owner))'
               => HookAccepts(h, OwnCall(h, owner))]_chainVars

=============================================================================
