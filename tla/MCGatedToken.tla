---------------------------- MODULE MCGatedToken ----------------------------
(***************************************************************************)
(* Instance of GatedToken for TLC, and the statement of the error messages *)
(* and the tests that its violation run refutes.                           *)
(***************************************************************************)
EXTENDS GatedToken

\* No foreign attestation program here: the TransferHook run has one.
MCForeignData == {}

\* Wallets, hook programs and credentials are interchangeable: none is singled out.
GatedSymmetry ==
    Permutations(Wallets) \cup Permutations(Programs) \cup Permutations(Credentials)

(***************************************************************************)
(* Bound on the administration, which the runs of HookProgram explore in   *)
(* full: the search does not continue past a pending handover, a mint      *)
(* whose authority is not the hook's, or a credential without its signers. *)
(***************************************************************************)
QuietAdministration ==
    /\ \A h \in Hooks : config[h] # NoConfig =>
           /\ config[h].pending_authority = DefaultKey
           /\ config[h].authority = mintAuthority[MintOf(h)]
    /\ \A c \in Credentials : authorizedSigners[c] = Signers
    /\ \A m \in Mints : mintAuthority[m] \in Wallets

Exemptions == {<<h, w>> \in Hooks \X Wallets : w \in whitelist[h]}
Attestations == {a \in AttestationAddresses : attestation[a] # NoAttestation}
Delegations == {<<m, w>> \in Mints \X Wallets : token[m][w].delegate # NoDelegate}

(***************************************************************************)
(* First part of the search: the mint keeps its hook, of which there is    *)
(* one; transfers are built once the list exists; one attestation or       *)
(* whitelist entry and one delegate at a time, and any credentials.        *)
(***************************************************************************)
OneProgram ==
    /\ \A m \in Mints : Gated(m)
    /\ \A h \in Hooks : h # HookOf(MintOf(h)) => config[h] = NoConfig
    /\ \A tx \in sent : metaList[HookOf(tx.mint)] # NoList
    /\ Cardinality(Exemptions) + Cardinality(Attestations) <= 1
    /\ Cardinality(Delegations) <= 1

(***************************************************************************)
(* Second part: the mint moves between the programs and to none; two       *)
(* attestations or whitelist entries at a time, under either program; one  *)
(* credential, no delegates, and no time passes.                           *)
(***************************************************************************)
InUse(issuer) ==
    \/ \E h \in Hooks : config[h] # NoConfig /\ config[h].issuer = issuer
    \/ \E w \in Wallets : attestation[AttestationOf(issuer, w)] # NoAttestation

Moving ==
    /\ Cardinality({i \in Issuers : InUse(i)}) <= 1
    /\ Cardinality(Exemptions) + Cardinality(Attestations) <= 2
    /\ Delegations = {} /\ \A tx \in sent : tx.authority = tx.source
    /\ clock = 1

\* Nobody sends more tokens than there are.
Explored ==
    /\ OneProgram \/ Moving
    /\ \A tx \in sent : tx.amount <= supply[tx.mint]

(***************************************************************************)
(* error.rs:23 "must be the token account owner or an approved delegate",  *)
(* tests/alien-id-transfer-hook.ts:1472 "attested delegate can transfer    *)
(* owner's tokens": an entitled delegate can transfer any amount that the  *)
(* owner has and has approved.                                             *)
(***************************************************************************)
DelegateCanSpendAllowance ==
    \A m \in Mints, owner, destination, delegate \in Wallets :
        LET account == token[m][owner]
        IN  /\ Gated(m) /\ metaList[HookOf(m)] # NoList
            /\ owner # destination
            /\ account.delegate = delegate
            /\ Entitled(HookOf(m), delegate)
            => \A amount \in 1..MaxSupply :
                   amount <= account.amount /\ amount <= account.delegated_amount =>
                       CanTransfer(TransferOf(m, owner, destination, delegate, amount))

=============================================================================
