-------------------------- MODULE DeploymentProofs --------------------------
(***************************************************************************)
(* Proofs about Deployment: whatever scripts, commands, failures and late  *)
(* transactions do to a hook's accounts is a behaviour of HookProgram, so  *)
(* its theorems hold of the deployment too, and a hook that is reported as *)
(* set up stays set up.                                                    *)
(***************************************************************************)
EXTENDS Deployment, HookProgramProofs

(***************************************************************************)
(* A transaction is one instruction of the hook program or of Token-2022.  *)
(***************************************************************************)
LEMMA ExecuteIsHookStep ==
    ASSUME NEW tx \in Transaction, Execute(tx)
    PROVE  [HookNext]_hookVars
<1> DEFINE h == tx.hook
           o == tx.signer
<1>1. h \in Hooks /\ o \in Wallets
  BY DEF Transaction
<1>2. MintOf(h) \in Mints
  BY <1>1 DEF Hooks, MintOf
<1>3. CASE UNCHANGED hookVars
  BY <1>3
<1>4. CASE tx.ix = "set_mint_authority" /\ SetMintAuthority(MintOf(h), o, tx.key)
  <2>1. tx.key \in Keys
    BY <1>4, DeploymentAssumption DEF Transaction
  <2> QED  BY <1>1, <1>2, <1>4, <2>1 DEF HookNext
<1>5. CASE tx.ix = "initialize_config" /\ InitializeConfig(h, o, tx.issuer)
  <2>1. tx.issuer \in Issuers
    BY <1>5 DEF Transaction
  <2> QED  BY <1>1, <1>5, <2>1 DEF HookNext
<1>6. CASE InitializeExtraAccountMetaList(h, o)
  BY <1>1, <1>6 DEF HookNext
<1>7. CASE tx.ix = "update_config" /\ UpdateConfig(h, o, tx.issuer)
  <2>1. tx.issuer \in Issuers
    BY <1>7 DEF Transaction
  <2> QED  BY <1>1, <1>7, <2>1 DEF HookNext
<1>8. CASE tx.ix = "add_to_whitelist" /\ AddToWhitelist(h, o, tx.key)
  <2>1. tx.key \in Wallets
    BY <1>8 DEF Transaction
  <2> QED  BY <1>1, <1>8, <2>1 DEF HookNext
<1>9. CASE tx.ix = "remove_from_whitelist" /\ RemoveFromWhitelist(h, o, {o}, tx.key)
  <2>1. tx.key \in Wallets /\ {o} \in SUBSET Wallets
    BY <1>1, <1>9 DEF Transaction
  <2> QED  BY <1>1, <1>9, <2>1 DEF HookNext
<1>10. CASE tx.ix = "transfer_authority" /\ TransferAuthority(h, o, tx.key)
  <2>1. tx.key \in Keys
    BY <1>10 DEF Transaction, Keys
  <2> QED  BY <1>1, <1>10, <2>1 DEF HookNext
<1>11. CASE AcceptAuthority(h, o)
  BY <1>1, <1>11 DEF HookNext
<1> QED
  BY <1>3, <1>4, <1>5, <1>6, <1>7, <1>8, <1>9, <1>10, <1>11 DEF Execute

(***************************************************************************)
(* A transaction leaves every mint with an extension it may have.          *)
(***************************************************************************)
LEMMA ExecuteKeepsMintType ==
    ASSUME NEW tx \in Transaction, Execute(tx),
           mint \in [Mints -> MintExtension \cup {NoMint}]
    PROVE  mint' \in [Mints -> MintExtension \cup {NoMint}]
<1> DEFINE h == tx.hook
           o == tx.signer
<1>1. h \in Hooks /\ o \in Wallets
  BY DEF Transaction
<1>2. MintOf(h) \in Mints /\ ProgramOf(h) \in Programs
  BY <1>1 DEF Hooks, MintOf, ProgramOf
<1>3. CASE UNCHANGED mint
  BY <1>3
<1>4. CASE CreateMint(h, o)
  BY <1>1, <1>2, <1>4 DEF CreateMint, MintExtension, Keys
<1>5. CASE tx.ix = "set_freeze_authority" /\ SetFreezeAuthority(h, o, tx.key)
  <2>1. tx.key \in Keys
    BY <1>5, DeploymentAssumption DEF Transaction
  <2> QED  BY <1>2, <1>5, <2>1 DEF SetFreezeAuthority, MintExtension
<1>6. CASE UpdateTransferHook(h, o)
  BY <1>2, <1>6 DEF UpdateTransferHook, MintExtension
<1> QED
  BY <1>3, <1>4, <1>5, <1>6 DEF Execute

(***************************************************************************)
(* Every script and every command is a list of well-formed steps.          *)
(***************************************************************************)
LEMMA CommandsAreSteps ==
    ASSUME NEW o \in Wallets, NEW h \in Hooks
    PROVE  /\ create_walien_mint(o, h) \in Seq(Step)
           /\ \A i \in DeployIssuers : initialize_transfer_hook(o, h, i) \in Seq(Step)
           /\ \A steps \in Commands(o, h) : steps \in Seq(Step)
<1>1. \A i \in DeployIssuers : i \in Issuers
  BY DeploymentAssumption DEF DeployIssuers, Issuers
<1>2. \A i \in Issuers :
          /\ Create("config", initializeConfigIx(o, h, i)) \in Step
          /\ Send(initializeConfigIx(o, h, i)) \in Step
          /\ Send(updateConfigIx(o, h, i)) \in Step
  BY DEF Step, initializeConfigIx, updateConfigIx, Transaction
<1>3. /\ Create("list", initializeExtraAccountMetaListIx(o, h)) \in Step
      /\ Send(initializeExtraAccountMetaListIx(o, h)) \in Step
      /\ Send(createMintIxs(o, h)) \in Step
      /\ Send(createUpdateTransferHookInstruction(o, h)) \in Step
      /\ Send(acceptAuthorityIx(o, h)) \in Step
  BY DEF Step, initializeExtraAccountMetaListIx, createMintIxs, acceptAuthorityIx,
         createUpdateTransferHookInstruction, Transaction
<1>4. \A w \in Wallets : /\ Send(addToWhitelistIx(o, h, w)) \in Step
                         /\ Send(removeFromWhitelistIx(o, h, w)) \in Step
  BY DEF Step, addToWhitelistIx, removeFromWhitelistIx, Transaction
<1>5. \A key \in Keys : Send(transferAuthorityIx(o, key, h)) \in Step
  BY DEF Step, transferAuthorityIx, Transaction
<1>6. \A key \in NewMintAuthorities : /\ Send(setMintAuthority(o, h, key)) \in Step
                                      /\ Send(setFreezeAuthority(o, h, key)) \in Step
                                      /\ key \in Keys
  BY DeploymentAssumption DEF Step, setMintAuthority, setFreezeAuthority, Transaction
<1>7. create_walien_mint(o, h) \in Seq(Step)
  BY <1>3 DEF create_walien_mint
<1>8. \A i \in DeployIssuers : /\ initialize_transfer_hook(o, h, i) \in Seq(Step)
                               /\ update_transfer_hook(o, h, i) \in Seq(Step)
  BY <1>1, <1>2, <1>3 DEF initialize_transfer_hook, update_transfer_hook
<1>9. \A i \in Issuers : /\ handle_initialize_config(o, h, i) \in Seq(Step)
                         /\ handle_update_config(o, h, i) \in Seq(Step)
  BY <1>2 DEF handle_initialize_config, handle_update_config
<1>10. \A w \in Wallets : /\ add_to_whitelist(o, h, w) \in Seq(Step)
                          /\ handle_add_to_whitelist(o, h, w) \in Seq(Step)
                          /\ handle_remove_from_whitelist(o, h, w) \in Seq(Step)
  BY <1>4 DEF add_to_whitelist, handle_add_to_whitelist, handle_remove_from_whitelist
<1>11. \A key \in Keys : handle_transfer_authority(o, h, key) \in Seq(Step)
  BY <1>5 DEF handle_transfer_authority
<1>12. /\ \A key \in NewMintAuthorities : transfer_authority_walien_mint(o, h, key) \in Seq(Step)
       /\ handle_init_extra_account_meta_list(o, h) \in Seq(Step)
       /\ handle_accept_authority(o, h) \in Seq(Step)
  BY <1>3, <1>4, <1>5, <1>6
     DEF transfer_authority_walien_mint, handle_init_extra_account_meta_list,
         handle_accept_authority
<1> QED
  BY <1>7, <1>8, <1>9, <1>10, <1>11, <1>12 DEF Commands

(***************************************************************************)
(* What is left of a script after its first step is a script.              *)
(***************************************************************************)
LEMMA ScriptTail ==
    ASSUME NEW steps \in Seq(Step), steps # << >>
    PROVE  /\ Head(steps) \in Step
           /\ Head(steps).tx \in Transaction
           /\ Tail(steps) \in Seq(Step)
<1>1. Head(steps) \in Step /\ Tail(steps) \in Seq(Step)
  OBVIOUS
<1>2. \A step \in Step : step.tx \in Transaction
  BY DEF Step, Send, Create, Transaction, initializeConfigIx, initializeExtraAccountMetaListIx
<1> QED
  BY <1>1, <1>2

-----------------------------------------------------------------------------
(***************************************************************************)
(* Scripts touch the accounts of the hook program only through             *)
(* transactions, and a transaction is one instruction.                     *)
(***************************************************************************)
LEMMA DeployStepIsHookStep ==
    ASSUME DeployTypeOK, [DeployNext]_deployVars
    PROVE  [HookNext]_hookVars
<1>1. CASE UNCHANGED deployVars
  BY <1>1 DEF deployVars
<1>2. ASSUME NEW o \in Wallets, Run(o) \/ RunSetupAgain(o)
      PROVE  [HookNext]_hookVars
  BY <1>2 DEF Run, RunSetupAgain, Start
<1>3. ASSUME NEW o \in Wallets, SkipStep(o) \/ SendStep(o) \/ StepFails(o) \/ ScriptDies(o)
      PROVE  [HookNext]_hookVars
  BY <1>3 DEF SkipStep, SendStep, StepFails, ScriptDies, Abandon
<1>4. ASSUME NEW o \in Wallets, StepLands(o)
      PROVE  [HookNext]_hookVars
  <2>1. todo[o] \in Seq(Step) /\ todo[o] # << >>
    BY <1>4 DEF StepLands, DeployTypeOK, Idle
  <2>2. Head(todo[o]).tx \in Transaction
    BY <2>1, ScriptTail
  <2> QED
    BY <1>4, <2>2, ExecuteIsHookStep DEF StepLands
<1>5. ASSUME NEW tx \in stray, StrayLands(tx) \/ StrayExpires(tx)
      PROVE  [HookNext]_hookVars
  BY <1>5, ExecuteIsHookStep DEF StrayLands, StrayExpires, DeployTypeOK
<1> QED
  BY <1>1, <1>2, <1>3, <1>4, <1>5 DEF DeployNext, Proceed

(***************************************************************************)
(* The form holds before anything is run.                                  *)
(***************************************************************************)
LEMMA DeployTypeInit == DeployInit => DeployTypeOK
  BY HookTypeInit, DeploymentAssumption DEF DeployInit, DeployTypeOK

(***************************************************************************)
(* One case for each way a script goes on.                                 *)
(***************************************************************************)
LEMMA DeployTypeStep == DeployTypeOK /\ [DeployNext]_deployVars => DeployTypeOK'
<1> SUFFICES ASSUME DeployTypeOK, [DeployNext]_deployVars
             PROVE  DeployTypeOK'
  OBVIOUS
<1> USE DEF DeployTypeOK
<1>0. HookTypeOK'
  <2>1. [HookNext]_hookVars
    BY DeployStepIsHookStep
  <2> QED  BY <2>1, HookTypeStep
<1>1. CASE UNCHANGED deployVars
  BY <1>0, <1>1 DEF deployVars, scriptVars, Idle
<1>2. ASSUME NEW o \in Wallets, NEW steps \in Seq(Step), Start(o, steps), runs' \in 0..MaxRuns
      PROVE  DeployTypeOK'
  <2>1. todo' \in [Wallets -> Seq(Step)]
    BY <1>2 DEF Start
  <2>2. awaiting' \subseteq {x \in Wallets : todo'[x] # << >>}
    BY <1>2 DEF Start, Idle
  <2> QED
    BY <1>0, <1>2, <2>1, <2>2 DEF Start, Idle
<1>3. ASSUME NEW o \in Wallets, Run(o)
      PROVE  DeployTypeOK'
  <2>1. runs' \in 0..MaxRuns
    BY <1>3, DeploymentAssumption DEF Run
  <2>2. PICK h \in Hooks : \/ Start(o, create_walien_mint(o, h))
                           \/ \E steps \in Commands(o, h) : Start(o, steps)
    BY <1>3 DEF Run
  <2> QED
    BY <1>2, <2>1, <2>2, CommandsAreSteps
<1>4. ASSUME NEW o \in Wallets, RunSetupAgain(o)
      PROVE  DeployTypeOK'
  <2>1. PICK h \in Hooks, issuer \in DeployIssuers :
            Start(o, initialize_transfer_hook(o, h, issuer))
    BY <1>4 DEF RunSetupAgain
  <2>2. runs' \in 0..MaxRuns
    BY <1>4 DEF RunSetupAgain
  <2> QED
    BY <1>2, <2>1, <2>2, CommandsAreSteps
<1>5. ASSUME NEW o \in Wallets, ~Idle(o), NextStep(o),
             mint' \in [Mints -> MintExtension \cup {NoMint}]
      PROVE  DeployTypeOK'
  <2>1. todo[o] \in Seq(Step) /\ todo[o] # << >>
    BY <1>5 DEF Idle
  <2>2. Tail(todo[o]) \in Seq(Step) /\ Head(todo[o]).tx.hook \in Hooks
    BY <2>1, ScriptTail DEF Transaction
  <2>3. todo' \in [Wallets -> Seq(Step)]
    BY <1>5, <2>2 DEF NextStep
  <2>4. awaiting' \subseteq {x \in Wallets : todo'[x] # << >>}
    BY <1>5 DEF NextStep, Idle
  <2>5. reported' \subseteq Hooks
    BY <1>5, <2>2 DEF NextStep
  <2> QED
    BY <1>0, <1>5, <2>3, <2>4, <2>5 DEF NextStep, Idle
<1>6. ASSUME NEW o \in Wallets, SkipStep(o)
      PROVE  DeployTypeOK'
  BY <1>5, <1>6 DEF SkipStep
<1>7. ASSUME NEW o \in Wallets, SendStep(o)
      PROVE  DeployTypeOK'
  BY <1>0, <1>7 DEF SendStep, Idle
<1>8. ASSUME NEW o \in Wallets, StepLands(o)
      PROVE  DeployTypeOK'
  <2>1. ~Idle(o) /\ todo[o] \in Seq(Step) /\ todo[o] # << >>
    BY <1>8 DEF StepLands, Idle
  <2>2. Head(todo[o]).tx \in Transaction
    BY <2>1, ScriptTail
  <2>3. mint' \in [Mints -> MintExtension \cup {NoMint}]
    BY <1>8, <2>2, ExecuteKeepsMintType DEF StepLands
  <2> QED
    BY <1>5, <1>8, <2>1, <2>3 DEF StepLands
<1>9. ASSUME NEW o \in Wallets, Abandon(o), stray' \subseteq Transaction,
             failures' \in 0..MaxFailures
      PROVE  DeployTypeOK'
  <2>1. todo' \in [Wallets -> Seq(Step)]
    BY <1>9 DEF Abandon
  <2>2. awaiting' \subseteq {x \in Wallets : todo'[x] # << >>}
    BY <1>9 DEF Abandon, Idle
  <2> QED
    BY <1>0, <1>9, <2>1, <2>2 DEF Abandon, Idle
<1>10. ASSUME NEW o \in Wallets, StepFails(o)
       PROVE  DeployTypeOK'
  BY <1>9, <1>10 DEF StepFails
<1>11. ASSUME NEW o \in Wallets, ScriptDies(o)
       PROVE  DeployTypeOK'
  <2>1. todo[o] \in Seq(Step) /\ todo[o] # << >>
    BY <1>11 DEF ScriptDies, Idle
  <2>2. stray' \subseteq Transaction
    BY <1>11, <2>1, ScriptTail DEF ScriptDies
  <2>3. failures' \in 0..MaxFailures
    BY <1>11, DeploymentAssumption DEF ScriptDies
  <2> QED
    BY <1>9, <1>11, <2>2, <2>3 DEF ScriptDies
<1>12. ASSUME NEW tx \in stray, StrayLands(tx)
       PROVE  DeployTypeOK'
  <2>1. mint' \in [Mints -> MintExtension \cup {NoMint}]
    BY <1>12, ExecuteKeepsMintType DEF StrayLands
  <2> QED
    BY <1>0, <1>12, <2>1 DEF StrayLands, Idle
<1>13. ASSUME NEW tx \in stray, StrayExpires(tx)
       PROVE  DeployTypeOK'
  BY <1>0, <1>13 DEF StrayExpires, Idle
<1> QED
  BY <1>1, <1>3, <1>4, <1>6, <1>7, <1>8, <1>10, <1>11, <1>12, <1>13 DEF DeployNext, Proceed

(***************************************************************************)
(* Type correctness of the deployment, for any mints, programs, wallets    *)
(* and number of runs and failures.                                        *)
(***************************************************************************)
THEOREM DeployTypeCorrect == DeploySpec => []DeployTypeOK
<1>1. DeploySpec => DeploySafety
  BY PTL DEF DeploySpec
<1> QED
  BY <1>1, DeployTypeInit, DeployTypeStep, PTL DEF DeploySafety

(***************************************************************************)
(* The deployment implements HookProgram: the scripts, with all their      *)
(* failures, repetitions and late transactions, add no behaviour to its    *)
(* accounts, and every theorem about HookSpec holds of them.               *)
(***************************************************************************)
THEOREM DeploymentImplementsHooks == DeploySpec => HookSpec
<1>1. DeploySpec => DeploySafety
  BY PTL DEF DeploySpec
<1>2. DeployInit => HookInit
  BY DEF DeployInit
<1>3. DeployTypeOK /\ [DeployNext]_deployVars => [HookNext]_hookVars
  BY DeployStepIsHookStep
<1> QED
  BY <1>1, <1>2, <1>3, DeployTypeCorrect, PTL DEF DeploySafety, HookSpec

-----------------------------------------------------------------------------
(***************************************************************************)
(* No instruction takes a hook's setup away.                               *)
(***************************************************************************)
LEMMA ReadyForGood ==
    ASSUME HookTypeOK, [HookNext]_hookVars, NEW h \in Hooks, Ready(h)
    PROVE  Ready(h)'
<1>1. ConfigStep(h)
  BY ConfigStepLemma
<1> QED
  BY <1>1 DEF ConfigStep, ConfigKept, ConfigCreated, ConfigUpdated, ConfigNominates,
              ConfigHandedOver, Ready

(***************************************************************************)
(* When a script is done with the list, the hook is set up: it found a     *)
(* list, which is the one of the config, or its own transaction wrote it.  *)
(***************************************************************************)
LEMMA ListStepMakesReady ==
    ASSUME DeployTypeOK, MetaListMatchesConfig, NEW o \in Wallets,
           SkipStep(o) \/ StepLands(o), Head(todo[o]).creates = "list",
           NEW h, h = Head(todo[o]).tx.hook
    PROVE  h \in Hooks /\ Ready(h)'
<1> DEFINE step == Head(todo[o])
<1>1. todo[o] \in Seq(Step) /\ todo[o] # << >>
  BY DEF DeployTypeOK, SkipStep, StepLands, Idle
<1>2. step \in Step /\ step.tx \in Transaction
  BY <1>1, ScriptTail
<1>3. h \in Hooks
  BY <1>2 DEF Transaction
<1>4. step.tx.ix = "initialize_extra_account_meta_list"
  BY <1>2 DEF Step, Send, Create, initializeExtraAccountMetaListIx
<1>5. CASE SkipStep(o)
  <2>1. metaList[h] # NoList
    BY <1>5 DEF SkipStep, AccountExists
  <2> QED
    BY <1>3, <1>5, <2>1 DEF MetaListMatchesConfig, SkipStep, Ready, hookVars
<1>6. CASE StepLands(o)
  <2>1. InitializeExtraAccountMetaList(h, step.tx.signer)
    BY <1>4, <1>6 DEF StepLands, Execute
  <2> QED
    BY <1>3, <2>1 DEF InitializeExtraAccountMetaList, CanInitializeExtraAccountMetaList,
                      IsAuthority, Ready, DeployTypeOK, HookTypeOK
<1> QED
  BY <1>3, <1>5, <1>6

(***************************************************************************)
(* A hook reported as set up is set up, and stays so.                      *)
(***************************************************************************)
THEOREM ReportsAreTrue == DeploySpec => []ReportedIsReady
<1>1. DeploySpec => DeploySafety
  BY PTL DEF DeploySpec
<1>2. DeployInit => ReportedIsReady
  BY DEF DeployInit, ReportedIsReady
<1>3. DeployTypeOK /\ MetaListMatchesConfig /\ ReportedIsReady /\ [DeployNext]_deployVars
          => ReportedIsReady'
  <2> SUFFICES ASSUME DeployTypeOK, MetaListMatchesConfig, ReportedIsReady,
                      [DeployNext]_deployVars, NEW h \in reported'
               PROVE  Ready(h)'
    BY DEF ReportedIsReady
  <2>1. CASE h \in reported
    <3>1. h \in Hooks /\ Ready(h) /\ HookTypeOK
      BY <2>1 DEF ReportedIsReady, DeployTypeOK
    <3>2. [HookNext]_hookVars
      BY DeployStepIsHookStep
    <3> QED
      BY <3>1, <3>2, ReadyForGood
  <2>2. CASE h \notin reported
    <3>1. PICK o \in Wallets : SkipStep(o) \/ StepLands(o)
      BY <2>2 DEF DeployNext, Proceed, Run, RunSetupAgain, Start, SendStep, StepFails,
                  ScriptDies, Abandon, StrayLands, StrayExpires, deployVars, scriptVars
    <3>2. Head(todo[o]).creates = "list" /\ h = Head(todo[o]).tx.hook
      BY <2>2, <3>1 DEF SkipStep, StepLands, NextStep
    <3> QED
      BY <3>1, <3>2, ListStepMakesReady
  <2> QED
    BY <2>1, <2>2
<1> QED
  BY <1>1, <1>2, <1>3, DeployTypeCorrect, DeploymentImplementsHooks, ListNeverStale, PTL
     DEF DeploySafety

-----------------------------------------------------------------------------
(***************************************************************************)
(* A transaction that changes a mint's authority is one of deploy/3, sent  *)
(* by who holds the mint, and changes nothing else.                        *)
(***************************************************************************)
MintHandedOver(m) ==
    /\ mintAuthority[m] \in Wallets
    /\ mintAuthority'[m] \in NewMintAuthorities
    /\ UNCHANGED config

LEMMA ExecuteHandsOver ==
    ASSUME HookTypeOK, NEW tx \in Transaction, Execute(tx), NEW m \in Mints
    PROVE  mintAuthority'[m] = mintAuthority[m] \/ MintHandedOver(m)
<1> DEFINE h == tx.hook
<1>1. h \in Hooks /\ tx.signer \in Wallets
  BY DEF Transaction
<1>2. CASE tx.ix = "set_mint_authority" /\ SetMintAuthority(MintOf(h), tx.signer, tx.key)
  <2>1. tx.key \in NewMintAuthorities
    BY <1>2 DEF Transaction
  <2>2. CASE m = MintOf(h)
    BY <1>1, <1>2, <2>1, <2>2 DEF SetMintAuthority, MintHandedOver, HookTypeOK
  <2>3. CASE m # MintOf(h)
    BY <1>2, <2>3 DEF SetMintAuthority, HookTypeOK
  <2> QED
    BY <2>2, <2>3
<1>3. CASE UNCHANGED mintAuthority
  BY <1>3
<1> QED
  BY <1>2, <1>3 DEF Execute, hookVars, InitializeConfig, InitializeExtraAccountMetaList,
     UpdateConfig, AddToWhitelist, RemoveFromWhitelist, TransferAuthority, AcceptAuthority

(***************************************************************************)
(* Nothing else that happens to a script touches a mint's authority.       *)
(***************************************************************************)
LEMMA MintAuthorityStep ==
    ASSUME DeployTypeOK, [DeployNext]_deployVars, NEW m \in Mints
    PROVE  mintAuthority'[m] = mintAuthority[m] \/ MintHandedOver(m)
<1>0. HookTypeOK
  BY DEF DeployTypeOK
<1>1. CASE UNCHANGED mintAuthority
  BY <1>1
<1>2. ASSUME NEW o \in Wallets, StepLands(o)
      PROVE  mintAuthority'[m] = mintAuthority[m] \/ MintHandedOver(m)
  <2>1. todo[o] \in Seq(Step) /\ todo[o] # << >>
    BY <1>2 DEF StepLands, DeployTypeOK, Idle
  <2>2. Head(todo[o]).tx \in Transaction
    BY <2>1, ScriptTail
  <2> QED
    BY <1>0, <1>2, <2>2, ExecuteHandsOver DEF StepLands
<1>3. ASSUME NEW tx \in stray, StrayLands(tx)
      PROVE  mintAuthority'[m] = mintAuthority[m] \/ MintHandedOver(m)
  BY <1>0, <1>3, ExecuteHandsOver DEF StrayLands, DeployTypeOK
<1> QED
  BY <1>1, <1>2, <1>3 DEF DeployNext, Proceed, Run, RunSetupAgain, Start, SkipStep, SendStep,
     StepFails, ScriptDies, Abandon, StrayExpires, hookVars, deployVars

(***************************************************************************)
(* Since the authority of a config can always sign, only a missing config  *)
(* can be out of everybody's hands.                                        *)
(***************************************************************************)
LEMMA StrandedLacksConfig ==
    ASSUME AuthorityCanSign, NEW h \in Hooks
    PROVE  Stranded(h) <=> config[h] = NoConfig /\ mintAuthority[MintOf(h)] \notin Wallets
BY DEF AuthorityCanSign, Stranded, SetupSigner, Ready

(***************************************************************************)
(* A hook whose setup nobody can finish is one whose mint was handed, while*)
(* there was no config, to a key nobody holds; and it stays so.  The       *)
(* argument: a config's authority can always sign (HookProgram), so such a *)
(* hook has no config; a config is only created by the mint's authority,   *)
(* and only deploy/3 changes that.                                         *)
(***************************************************************************)
THEOREM StrandedByHandoverOnly == DeploySpec => OnlyHandoverStrands
<1>1. DeploySpec => DeploySafety
  BY PTL DEF DeploySpec
<1>2. ASSUME DeployTypeOK, AuthorityCanSign, AuthorityCanSign', [DeployNext]_deployVars,
             NEW h \in Hooks
      PROVE  /\ Stranded(h) => Stranded(h)'
             /\ Stranded(h)' => \/ Stranded(h)
                                \/ /\ config[h] = NoConfig /\ UNCHANGED config
                                   /\ mintAuthority[MintOf(h)] \in Wallets
                                   /\ mintAuthority[MintOf(h)]' \in NewMintAuthorities
  <2> DEFINE m == MintOf(h)
  <2>1. m \in Mints
    BY DEF Hooks, MintOf
  <2>2. mintAuthority'[m] = mintAuthority[m] \/ MintHandedOver(m)
    BY <1>2, <2>1, MintAuthorityStep
  <2>3. ConfigStep(h)
    <3>1. HookTypeOK /\ [HookNext]_hookVars
      BY <1>2, DeployStepIsHookStep DEF DeployTypeOK
    <3> QED
      BY <3>1, ConfigStepLemma
  <2>4. Stranded(h) <=> config[h] = NoConfig /\ mintAuthority[m] \notin Wallets
    BY <1>2, StrandedLacksConfig
  <2>5. Stranded(h)' <=> config'[h] = NoConfig /\ mintAuthority'[m] \notin Wallets
    BY <1>2 DEF AuthorityCanSign, Stranded, SetupSigner, Ready
  <2>6. ASSUME Stranded(h)
        PROVE  Stranded(h)'
    <3>1. mintAuthority'[m] = mintAuthority[m]
      BY <2>2, <2>4, <2>6 DEF MintHandedOver
    <3>2. config'[h] = NoConfig
      BY <2>3, <2>4, <2>6 DEF ConfigStep, ConfigKept, ConfigCreated, ConfigUpdated,
                              ConfigNominates, ConfigHandedOver
    <3> QED
      BY <2>4, <2>5, <2>6, <3>1, <3>2
  <2>7. ASSUME Stranded(h)', ~Stranded(h)
        PROVE  config[h] = NoConfig /\ MintHandedOver(m)
    <3>1. config[h] = NoConfig
      BY <2>3, <2>5, <2>7 DEF ConfigStep, ConfigKept
    <3> QED
      BY <2>2, <2>4, <2>5, <2>7, <3>1
  <2> QED
    BY <2>6, <2>7 DEF MintHandedOver
<1>3. DeployTypeOK /\ AuthorityCanSign /\ AuthorityCanSign' /\ [DeployNext]_deployVars
          => \A h \in Hooks :
                 /\ Stranded(h) => Stranded(h)'
                 /\ Stranded(h)' => \/ Stranded(h)
                                    \/ /\ config[h] = NoConfig /\ UNCHANGED config
                                       /\ mintAuthority[MintOf(h)] \in Wallets
                                       /\ mintAuthority[MintOf(h)]' \in NewMintAuthorities
  BY <1>2
<1> QED
  BY <1>1, <1>3, DeployTypeCorrect, DeploymentImplementsHooks, NeverLockedOut, PTL
     DEF DeploySafety, OnlyHandoverStrands

=============================================================================
