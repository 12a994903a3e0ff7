--------------------------- MODULE MCTransferHook ---------------------------
(***************************************************************************)
(* Instance of TransferHook for TLC, and the statement of the README that  *)
(* its violation run refutes.                                              *)
(***************************************************************************)
EXTENDS TransferHook

\* A foreign program fills the address with something else, or with an attestation
\* that never expires.
MCForeignData == {[well_formed |-> b, signer |-> k, expiry |-> 0] : b \in BOOLEAN, k \in Signers}

\* Wallets are interchangeable: no definition singles one out.
WalletSymmetry == Permutations(Wallets)

(***************************************************************************)
(* README.md:12 "validates that the attestation was signed by our external *)
(* credential signer ... ensuring only credentials issued by the           *)
(* authorised party are accepted": whoever is accepted on the strength of  *)
(* an attestation holds one signed by a signer the credential authorises.  *)
(***************************************************************************)
AcceptedIssuerIsAuthorized ==
    \A h \in Hooks, wallet \in Wallets :
        LET issuer == config[h].issuer
        IN  /\ metaList[h] # NoList
            /\ wallet \notin whitelist[h]
            /\ issuer.sas_program = SasProgramId
            /\ HookAccepts(h, ResolvedCall(h, wallet, wallet))
            => attestation[AttestationOf(issuer, wallet)].signer
                   \in authorizedSigners[issuer.credential]

=============================================================================
