---------------------------- MODULE MCDeployment ----------------------------
(***************************************************************************)
(* Instances of Deployment for TLC, and the statement of the README that   *)
(* a violation run refutes.                                                *)
(***************************************************************************)
EXTENDS Deployment

CONSTANT Deployer  \* the wallet with the keys of every mint: one of each is enough to look at

MCDeployInit == mintAuthority = [m \in Mints |-> Deployer] /\ DeployInit

MCDeploySpec == MCDeployInit /\ [][DeployNext]_deployVars /\ Fairness

\* The hook that Token-2022 calls for the mint is h, and it is set up.
InForce(h) ==
    /\ mint[MintOf(h)] # NoMint
    /\ mint[MintOf(h)].hook_program = ProgramOf(h)
    /\ Ready(h)

(***************************************************************************)
(* README.md:62 add_to_whitelist, "exempting it from attestation checks on *)
(* all future transfers": once a wallet is exempt from the checks of a     *)
(* mint, by a whitelist entry of the hook in force, it stays exempt while  *)
(* that entry is not closed, under every hook that comes into force later. *)
(***************************************************************************)
ExemptionHoldsForFutureTransfers ==
    \A h, later \in Hooks, wallet \in Wallets :
        [](/\ MintOf(h) = MintOf(later)
           /\ InForce(h) /\ wallet \in whitelist[h]
           => [](InForce(later) /\ wallet \in whitelist[h] => wallet \in whitelist[later]))

=============================================================================
