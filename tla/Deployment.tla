----------------------------- MODULE Deployment -----------------------------
(***************************************************************************)
(* The people who set a gated mint up, hand it over and move it to another *)
(* hook program: the scripts deploy/1, 2, 3, 5, 6 and the admin CLI.       *)
(*                                                                         *)
(* A script is a list of transactions sent one after the other, some only  *)
(* when the account they create is missing.  A script may die at any       *)
(* point; a transaction that it no longer waits for may still land, later  *)
(* or never.  Nothing is written down between two runs but what is on      *)
(* chain: whoever is in charge starts the script again from the top.       *)
(***************************************************************************)
EXTENDS HookProgram

CONSTANTS
    SAS_PROGRAM_ID,      \* the attestation program that the scripts configure
    NewMintAuthorities,  \* keys that deploy/3 is given as NEW_MINT_AUTHORITY, whoever holds them
    NoMint,              \* a mint that no transaction has created yet
    MaxRuns,             \* bound on scripts and commands, repetitions of setup aside
    MaxFailures          \* bound on scripts that die or time out

\* Both authorities start as the creator's; deploy/3 gives the freeze authority away.
MintExtension == [hook_program : Programs, hook_authority : Wallets, freeze_authority : Keys]

ASSUME DeploymentAssumption ==
    /\ NoMint \notin MintExtension
    /\ SAS_PROGRAM_ID \in SasPrograms
    /\ NewMintAuthorities \subseteq Keys
    /\ MaxRuns \in Nat /\ MaxFailures \in Nat

VARIABLES
    mint,      \* Token-2022: TransferHook extension and freeze authority of each mint
    todo,      \* steps left of the script that each wallet runs; none when it runs nothing
    awaiting,  \* wallets whose script has sent its first step and awaits confirmation
    stray,     \* transactions whose script is gone, neither landed nor expired
    reported,  \* hooks that some script has reported as set up
    runs,
    failures

scriptVars == <<todo, awaiting, stray, reported, runs, failures>>
deployVars == <<hookVars, mint, scriptVars>>

-----------------------------------------------------------------------------
(***************************************************************************)
(* Transactions.  Each holds one instruction (the creation of a mint three,*)
(* which stand or fall together) and its signer pays the fee.              *)
(***************************************************************************)
createMintIxs(payer, h) == [ix |-> "create_mint", signer |-> payer, hook |-> h]

initializeConfigIx(authority, h, issuer) ==
    [ix |-> "initialize_config", signer |-> authority, hook |-> h, issuer |-> issuer]

initializeExtraAccountMetaListIx(payer, h) ==
    [ix |-> "initialize_extra_account_meta_list", signer |-> payer, hook |-> h]

updateConfigIx(authority, h, issuer) ==
    [ix |-> "update_config", signer |-> authority, hook |-> h, issuer |-> issuer]

addToWhitelistIx(authority, h, wallet) ==
    [ix |-> "add_to_whitelist", signer |-> authority, hook |-> h, key |-> wallet]

removeFromWhitelistIx(authority, h, wallet) ==
    [ix |-> "remove_from_whitelist", signer |-> authority, hook |-> h, key |-> wallet]

transferAuthorityIx(authority, newAuthority, h) ==
    [ix |-> "transfer_authority", signer |-> authority, hook |-> h, key |-> newAuthority]

acceptAuthorityIx(pendingAuthority, h) ==
    [ix |-> "accept_authority", signer |-> pendingAuthority, hook |-> h]

\* Token-2022: SetAuthority(MintTokens), SetAuthority(FreezeAccount), TransferHook Update.
setMintAuthority(payer, h, key) ==
    [ix |-> "set_mint_authority", signer |-> payer, hook |-> h, key |-> key]

setFreezeAuthority(payer, h, key) ==
    [ix |-> "set_freeze_authority", signer |-> payer, hook |-> h, key |-> key]

createUpdateTransferHookInstruction(authority, h) ==
    [ix |-> "update_transfer_hook", signer |-> authority, hook |-> h]

\* The mint's key pair is new: nobody but its maker can create the mint.
CreateMint(h, payer) ==
    /\ mint[MintOf(h)] = NoMint
    /\ mintAuthority[MintOf(h)] = payer
    /\ mint' = [mint EXCEPT ![MintOf(h)] =
           [hook_program |-> ProgramOf(h), hook_authority |-> payer, freeze_authority |-> payer]]

SetFreezeAuthority(h, signer, key) ==
    /\ mint[MintOf(h)] # NoMint
    /\ mint[MintOf(h)].freeze_authority = signer
    /\ mint' = [mint EXCEPT ![MintOf(h)].freeze_authority = key]

UpdateTransferHook(h, authority) ==
    /\ mint[MintOf(h)] # NoMint
    /\ mint[MintOf(h)].hook_authority = authority
    /\ mint' = [mint EXCEPT ![MintOf(h)].hook_program = ProgramOf(h)]

Transaction ==
    [ix : {"create_mint", "initialize_extra_account_meta_list", "accept_authority",
           "update_transfer_hook"}, signer : Wallets, hook : Hooks]
    \cup [ix : {"initialize_config", "update_config"},
          signer : Wallets, hook : Hooks, issuer : Issuers]
    \cup [ix : {"add_to_whitelist", "remove_from_whitelist"},
          signer : Wallets, hook : Hooks, key : Wallets]
    \cup [ix : {"set_mint_authority", "set_freeze_authority"},
          signer : Wallets, hook : Hooks, key : NewMintAuthorities]
    \cup [ix : {"transfer_authority"}, signer : Wallets, hook : Hooks, key : Keys]

\* What a transaction does when it lands.
Execute(tx) ==
    LET h == tx.hook IN
    \/ /\ UNCHANGED hookVars
       /\ \/ tx.ix = "create_mint" /\ CreateMint(h, tx.signer)
          \/ tx.ix = "set_freeze_authority" /\ SetFreezeAuthority(h, tx.signer, tx.key)
          \/ tx.ix = "update_transfer_hook" /\ UpdateTransferHook(h, tx.signer)
    \/ /\ UNCHANGED mint
       /\ \/ tx.ix = "set_mint_authority" /\ SetMintAuthority(MintOf(h), tx.signer, tx.key)
          \/ tx.ix = "initialize_config" /\ InitializeConfig(h, tx.signer, tx.issuer)
          \/ /\ tx.ix = "initialize_extra_account_meta_list"
             /\ InitializeExtraAccountMetaList(h, tx.signer)
          \/ tx.ix = "update_config" /\ UpdateConfig(h, tx.signer, tx.issuer)
          \/ tx.ix = "add_to_whitelist" /\ AddToWhitelist(h, tx.signer, tx.key)
          \/ /\ tx.ix = "remove_from_whitelist"
             /\ RemoveFromWhitelist(h, tx.signer, {tx.signer}, tx.key)
          \/ tx.ix = "transfer_authority" /\ TransferAuthority(h, tx.signer, tx.key)
          \/ tx.ix = "accept_authority" /\ AcceptAuthority(h, tx.signer)

Rejected(tx) == ~ENABLED Execute(tx)

-----------------------------------------------------------------------------
(***************************************************************************)
(* Scripts.  A step sends its transaction, the step of a `creates` account *)
(* only when getAccountInfo finds no such account.                         *)
(***************************************************************************)
Send(tx) == [tx |-> tx, creates |-> "nothing"]
Create(account, tx) == [tx |-> tx, creates |-> account]

Step == {Send(tx) : tx \in Transaction}
            \cup {Create("config", initializeConfigIx(o, h, i)) :
                     o \in Wallets, h \in Hooks, i \in Issuers}
            \cup {Create("list", initializeExtraAccountMetaListIx(o, h)) :
                     o \in Wallets, h \in Hooks}

\* Credential and schema are read from the credential signer's program state.
DeployIssuers == [credential : Credentials, schema : Schemas, sas_program : {SAS_PROGRAM_ID}]

create_walien_mint(o, h) == <<Send(createMintIxs(o, h))>>

\* Mutant: the config is created without a look at the chain.
initialize_transfer_hook_unchecked(o, h, issuer) ==
    << Send(initializeConfigIx(o, h, issuer)),
       Create("list", initializeExtraAccountMetaListIx(o, h)) >>

initialize_transfer_hook(o, h, issuer) ==
    << Create("config", initializeConfigIx(o, h, issuer)),
       Create("list", initializeExtraAccountMetaListIx(o, h)) >>

\* The mint is handed over at once, to a key that need not sign; the config in two steps.
transfer_authority_walien_mint(o, h, newMintAuthority) ==
    << Send(setMintAuthority(o, h, newMintAuthority)),
       Send(setFreezeAuthority(o, h, newMintAuthority)),
       Send(transferAuthorityIx(o, newMintAuthority, h)) >>

add_to_whitelist(o, h, wallet) == <<Send(addToWhitelistIx(o, h, wallet))>>

update_transfer_hook(o, h, issuer) ==
    << Send(createUpdateTransferHookInstruction(o, h)),
       Create("config", initializeConfigIx(o, h, issuer)),
       Create("list", initializeExtraAccountMetaListIx(o, h)) >>

\* The admin CLI: one command, one transaction, no look at the chain before it.
handle_initialize_config(o, h, issuer) == <<Send(initializeConfigIx(o, h, issuer))>>
handle_update_config(o, h, issuer) == <<Send(updateConfigIx(o, h, issuer))>>
handle_init_extra_account_meta_list(o, h) == <<Send(initializeExtraAccountMetaListIx(o, h))>>
handle_add_to_whitelist(o, h, wallet) == <<Send(addToWhitelistIx(o, h, wallet))>>
handle_remove_from_whitelist(o, h, wallet) == <<Send(removeFromWhitelistIx(o, h, wallet))>>
handle_transfer_authority(o, h, key) == <<Send(transferAuthorityIx(o, key, h))>>
handle_accept_authority(o, h) == <<Send(acceptAuthorityIx(o, h))>>

\* What a wallet may run for a mint that exists.
Commands(o, h) ==
    (UNION {{initialize_transfer_hook(o, h, i), update_transfer_hook(o, h, i)} : i \in DeployIssuers})
    \cup (UNION {{handle_initialize_config(o, h, i), handle_update_config(o, h, i)} : i \in Issuers})
    \cup (UNION {{add_to_whitelist(o, h, w), handle_add_to_whitelist(o, h, w),
                  handle_remove_from_whitelist(o, h, w)} : w \in Wallets})
    \cup {handle_transfer_authority(o, h, key) : key \in Keys}
    \cup {transfer_authority_walien_mint(o, h, key) : key \in NewMintAuthorities}
    \cup {handle_init_extra_account_meta_list(o, h), handle_accept_authority(o, h)}

\* Mutant: the config's account is looked up for both.
ConfigExists(step) == step.creates # "nothing" /\ config[step.tx.hook] # NoConfig

AccountExists(step) ==
    LET h == step.tx.hook IN
    CASE step.creates = "config" -> config[h] # NoConfig
      [] step.creates = "list" -> metaList[h] # NoList
      [] step.creates = "nothing" -> FALSE

Idle(o) == todo[o] = << >>

Start(o, steps) ==
    /\ Idle(o)
    /\ todo' = [todo EXCEPT ![o] = steps]
    /\ UNCHANGED <<hookVars, mint, awaiting, stray, reported, failures>>

Run(o) ==
    /\ runs < MaxRuns
    /\ \E h \in Hooks :
           \/ mint[MintOf(h)] = NoMint /\ Start(o, create_walien_mint(o, h))
           \/ /\ mint[MintOf(h)] # NoMint
              /\ \E steps \in Commands(o, h) : Start(o, steps)
    /\ runs' = runs + 1

\* The hook that Token-2022 calls for a mint is set up: a transfer can be let through.
Ready(h) == config[h] # NoConfig /\ metaList[h] = InitialAccountMetas(config[h].issuer)

HookAwaitsSetup(h) ==
    /\ mint[MintOf(h)] # NoMint
    /\ mint[MintOf(h)].hook_program = ProgramOf(h)
    /\ ~Ready(h)

\* As long as the hook of a mint is not set up, its setup is run again.
RunSetupAgain(o) ==
    /\ \E h \in Hooks, issuer \in DeployIssuers :
           HookAwaitsSetup(h) /\ Start(o, initialize_transfer_hook(o, h, issuer))
    /\ UNCHANGED runs

\* Mutant: the confirmation of a step passes for that of the next one too.
NextStepAwaiting(o) ==
    /\ todo' = [todo EXCEPT ![o] = Tail(@)]
    /\ reported' = IF Head(todo[o]).creates = "list" THEN reported \cup {Head(todo[o]).tx.hook}
                                                     ELSE reported
    /\ UNCHANGED <<awaiting, stray, runs, failures>>

\* The step is done; the last one of a setup is reported on the console.
NextStep(o) ==
    /\ todo' = [todo EXCEPT ![o] = Tail(@)]
    /\ awaiting' = awaiting \ {o}
    /\ reported' = IF Head(todo[o]).creates = "list" THEN reported \cup {Head(todo[o]).tx.hook}
                                                     ELSE reported
    /\ UNCHANGED <<stray, runs, failures>>

SkipStep(o) ==
    /\ ~Idle(o) /\ o \notin awaiting
    /\ AccountExists(Head(todo[o]))
    /\ NextStep(o)
    /\ UNCHANGED <<hookVars, mint>>

SendStep(o) ==
    /\ ~Idle(o) /\ o \notin awaiting
    /\ ~AccountExists(Head(todo[o]))
    /\ awaiting' = awaiting \cup {o}
    /\ UNCHANGED <<hookVars, mint, todo, stray, reported, runs, failures>>

StepLands(o) ==
    /\ o \in awaiting
    /\ Execute(Head(todo[o]).tx)
    /\ NextStep(o)

Abandon(o) ==
    /\ todo' = [todo EXCEPT ![o] = << >>]
    /\ awaiting' = awaiting \ {o}
    /\ UNCHANGED <<hookVars, mint, reported, runs>>

\* The simulation or the transaction fails, the promise rejects, the script exits.
StepFails(o) ==
    /\ o \in awaiting
    /\ Rejected(Head(todo[o]).tx)
    /\ Abandon(o)
    /\ UNCHANGED <<stray, failures>>

\* The script dies, or gives up waiting: what it sent is on its way or lost.
ScriptDies(o) ==
    /\ ~Idle(o)
    /\ failures < MaxFailures
    /\ failures' = failures + 1
    /\ \/ UNCHANGED stray
       \/ o \in awaiting /\ stray' = stray \cup {Head(todo[o]).tx}
    /\ Abandon(o)

StrayLands(tx) ==
    /\ Execute(tx)
    /\ stray' = stray \ {tx}
    /\ UNCHANGED <<todo, awaiting, reported, runs, failures>>

StrayExpires(tx) ==
    /\ stray' = stray \ {tx}
    /\ UNCHANGED <<hookVars, mint, todo, awaiting, reported, runs, failures>>

-----------------------------------------------------------------------------
DeployInit ==
    /\ HookInit
    /\ mint = [m \in Mints |-> NoMint]
    /\ todo = [o \in Wallets |-> << >>]
    /\ awaiting = {}
    /\ stray = {}
    /\ reported = {}
    /\ runs = 0
    /\ failures = 0

\* A script that is not killed goes on: every await it is at resolves or rejects.
Proceed(o) == SkipStep(o) \/ SendStep(o) \/ StepLands(o) \/ StepFails(o)

DeployNext ==
    \/ \E o \in Wallets : Run(o) \/ RunSetupAgain(o) \/ Proceed(o) \/ ScriptDies(o)
    \/ \E tx \in stray : StrayLands(tx) \/ StrayExpires(tx)

DeploySafety == DeployInit /\ [][DeployNext]_deployVars

(***************************************************************************)
(* Scripts run on, and those in charge of a mint whose hook is not set up  *)
(* do not give up on it.  Stray transactions owe nothing.                  *)
(***************************************************************************)
Fairness == \A o \in Wallets : WF_deployVars(Proceed(o)) /\ WF_deployVars(RunSetupAgain(o))

DeploySpec == DeploySafety /\ Fairness

-----------------------------------------------------------------------------
(***************************************************************************)
(* Accounts, scripts and transactions keep their form; no more runs and    *)
(* failures than the bounds allow.                                         *)
(***************************************************************************)
DeployTypeOK ==
    /\ HookTypeOK
    /\ mint \in [Mints -> MintExtension \cup {NoMint}]
    /\ todo \in [Wallets -> Seq(Step)]
    /\ awaiting \subseteq {o \in Wallets : ~Idle(o)}
    /\ stray \subseteq Transaction
    /\ reported \subseteq Hooks
    /\ runs \in 0..MaxRuns /\ failures \in 0..MaxFailures

(***************************************************************************)
(* A hook that deploy/2 or deploy/6 reports as set up is set up, and stays *)
(* so whatever scripts, commands and late transactions follow: neither     *)
(* "already exists" nor a race between two runs hides a half-made hook.    *)
(***************************************************************************)
ReportedIsReady == \A h \in reported : Ready(h)

\* Who has to sign what the hook's setup lacks: the config's creation, or the list's.
SetupSigner(h) == IF config[h] = NoConfig THEN mintAuthority[MintOf(h)] ELSE config[h].authority

\* Nobody can set the hook up.
Stranded(h) == SetupSigner(h) \notin Wallets /\ ~Ready(h)

(***************************************************************************)
(* A hook that is not set up gets out of everybody's hands in one way: its *)
(* mint is handed, in the one step deploy/3 takes, to a key nobody holds   *)
(* while the config is missing; and then for good.  Once the config exists *)
(* no handover of mint or config, no dead run and no late transaction      *)
(* leaves a list that nobody may write.                                    *)
(***************************************************************************)
OnlyHandoverStrands ==
    [][\A h \in Hooks :
           /\ Stranded(h) => Stranded(h)'
           /\ Stranded(h)' => \/ Stranded(h)
                              \/ /\ config[h] = NoConfig /\ UNCHANGED config
                                 /\ mintAuthority[MintOf(h)] \in Wallets
                                 /\ mintAuthority[MintOf(h)]' \in NewMintAuthorities]_deployVars

(***************************************************************************)
(* Wherever earlier runs died and whatever their last transactions still   *)
(* do, running the setup again ends with the hook of every mint set up,    *)
(* also when the authorities were handed over in the meantime, unless the  *)
(* mint was handed to a key nobody holds before the config was created.    *)
(***************************************************************************)
SetupConverges ==
    <>[](\A h \in Hooks : HookAwaitsSetup(h) => config[h] = NoConfig /\ Stranded(h))

=============================================================================
