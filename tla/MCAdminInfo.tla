----------------------------- MODULE MCAdminInfo ------------------------------
(***************************************************************************)
(* Instance of AdminInfo, and with it of HookProgram, for TLC; and the     *)
(* statement of the CLI's manual that a violation run refutes.             *)
(***************************************************************************)
EXTENDS AdminInfo, TLC

\* Mints and wallets are interchangeable, and so are credentials.
AdminSymmetry ==
    Permutations(Mints) \cup Permutations(Wallets) \cup Permutations(Credentials)

(***************************************************************************)
(* Bound on the combination of `info` with the instructions: once the      *)
(* command has run, the search goes on only where its hook alone has a     *)
(* config.  Without the command, all hooks are administered freely.        *)
(***************************************************************************)
NeverRun == info.step = "ended" /\ info.config = NotShown

OneHookShown == NeverRun \/ \A h \in Hooks \ {info.hook} : config[h] = NoConfig

(***************************************************************************)
(* admin-cli/README.md:27 "Print the current state of the transfer hook    *)
(* config and ExtraAccountMetaList": an account is shown as not            *)
(* initialized only when it is not.                                        *)
(***************************************************************************)
NotInitializedAsShown ==
    [][/\ info'.config = NotInitialized /\ info.config = NotShown =>
              config[info.hook] = NoConfig
       /\ info'.list = NotInitialized /\ info.list = NotShown =>
              metaList[info.hook] = NoList]_infoVars

=============================================================================
