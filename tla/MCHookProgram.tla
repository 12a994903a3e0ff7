--------------------------- MODULE MCHookProgram ----------------------------
(***************************************************************************)
(* Instance of HookProgram for TLC, and the statements of the README and   *)
(* of the admin CLI's manual that the violation runs refute.               *)
(***************************************************************************)
EXTENDS HookProgram

(***************************************************************************)
(* admin-cli/README.md:73 "Initialize (or reinitialize) the                *)
(* ExtraAccountMetaList", :75 "again after any update-config": the         *)
(* authority can run init-extra-account-meta-list whenever a config exists.*)
(***************************************************************************)
ListCanBeReinitialized ==
    \A h \in Hooks : config[h] # NoConfig =>
        CanInitializeExtraAccountMetaList(h, config[h].authority)

(***************************************************************************)
(* README.md:63 remove_from_whitelist, "Hook authority", "Closes the       *)
(* WhitelistEntry PDA ... reclaiming rent to the authority": the           *)
(* authority's signature is enough to revoke an exemption, whoever pays    *)
(* the fee of a transaction with just this instruction.                    *)
(***************************************************************************)
AuthorityCanRevoke ==
    \A h \in Hooks, feePayer \in Wallets : \A wallet \in whitelist[h] :
        CanRemoveFromWhitelist(h, config[h].authority, {feePayer}, wallet)

=============================================================================
