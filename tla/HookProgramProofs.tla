------------------------- MODULE HookProgramProofs --------------------------
(***************************************************************************)
(* Proofs about HookProgram, for any deployments, mints, wallets and       *)
(* issuers.  HookTypeOK is inductive by itself; each safety invariant is   *)
(* inductive relative to it.                                               *)
(***************************************************************************)
EXTENDS HookProgram, TLAPS

(***************************************************************************)
(* The two copies of the account list in the code, one in                  *)
(* initialize_extra_account_meta_list and one in update_config, agree.     *)
(***************************************************************************)
LEMMA SameAccountMetas ==
    ASSUME NEW issuer
    PROVE  UpdatedAccountMetas(issuer) = InitialAccountMetas(issuer)
  BY DEF UpdatedAccountMetas, InitialAccountMetas

(***************************************************************************)
(* HookTypeOK holds before any account exists.                             *)
(***************************************************************************)
LEMMA HookTypeInit == HookInit => HookTypeOK
  BY DEF HookInit, HookTypeOK, Keys

(***************************************************************************)
(* One case for each instruction.                                          *)
(***************************************************************************)
LEMMA HookTypeStep == HookTypeOK /\ [HookNext]_hookVars => HookTypeOK'
<1> SUFFICES ASSUME HookTypeOK, [HookNext]_hookVars
             PROVE  HookTypeOK'
  OBVIOUS
<1> USE DEF HookTypeOK
<1>1. ASSUME NEW h \in Hooks, NEW signer \in Wallets, NEW issuer \in Issuers,
             InitializeConfig(h, signer, issuer)
      PROVE  HookTypeOK'
  <2>1. [authority |-> signer, pending_authority |-> DefaultKey, issuer |-> issuer] \in HookConfig
    BY DEF HookConfig, Keys
  <2> QED
    BY <1>1, <2>1 DEF InitializeConfig
<1>2. ASSUME NEW h \in Hooks, NEW signer \in Wallets,
             InitializeExtraAccountMetaList(h, signer)
      PROVE  HookTypeOK'
  <2>1. config[h] \in HookConfig
    BY <1>2 DEF InitializeExtraAccountMetaList, CanInitializeExtraAccountMetaList, IsAuthority
  <2>2. config[h].issuer \in Issuers
    BY <2>1 DEF HookConfig
  <2> QED
    BY <1>2, <2>2 DEF InitializeExtraAccountMetaList
<1>3. ASSUME NEW h \in Hooks, NEW signer \in Wallets, NEW issuer \in Issuers,
             UpdateConfig(h, signer, issuer)
      PROVE  HookTypeOK'
  <2>1. config[h] \in HookConfig
    BY <1>3 DEF UpdateConfig, IsAuthority
  <2>2. [config[h] EXCEPT !.issuer = issuer] \in HookConfig
    BY <2>1 DEF HookConfig
  <2> QED
    BY <1>3, <2>2, SameAccountMetas DEF UpdateConfig
<1>4. ASSUME NEW h \in Hooks, NEW signer \in Wallets, NEW key \in Keys,
             TransferAuthority(h, signer, key)
      PROVE  HookTypeOK'
  <2>1. config[h] \in HookConfig
    BY <1>4 DEF TransferAuthority, IsAuthority
  <2>2. [config[h] EXCEPT !.pending_authority = key] \in HookConfig
    BY <2>1 DEF HookConfig
  <2> QED
    BY <1>4, <2>2 DEF TransferAuthority
<1>5. ASSUME NEW h \in Hooks, NEW signer \in Wallets, AcceptAuthority(h, signer)
      PROVE  HookTypeOK'
  <2>1. config[h] \in HookConfig
    BY <1>5 DEF AcceptAuthority
  <2>2. [config[h] EXCEPT !.authority = config[h].pending_authority,
                          !.pending_authority = DefaultKey] \in HookConfig
    BY <2>1 DEF HookConfig, Keys
  <2> QED
    BY <1>5, <2>2 DEF AcceptAuthority
<1>6. ASSUME NEW h \in Hooks, NEW signer \in Wallets, NEW wallet \in Wallets,
             AddToWhitelist(h, signer, wallet)
      PROVE  HookTypeOK'
  BY <1>6 DEF AddToWhitelist
<1>7. ASSUME NEW h \in Hooks, NEW signer \in Wallets,
             NEW writable \in SUBSET Wallets, NEW wallet \in Wallets,
             RemoveFromWhitelist(h, signer, writable, wallet)
      PROVE  HookTypeOK'
  BY <1>7 DEF RemoveFromWhitelist
<1>8. ASSUME NEW m \in Mints, NEW signer \in Wallets,
             NEW key \in Keys, SetMintAuthority(m, signer, key)
      PROVE  HookTypeOK'
  BY <1>8 DEF SetMintAuthority
<1>9. CASE UNCHANGED hookVars
  BY <1>9 DEF hookVars
<1> QED
  BY <1>1, <1>2, <1>3, <1>4, <1>5, <1>6, <1>7, <1>8, <1>9 DEF HookNext

(***************************************************************************)
(* Every account of the hook program keeps its layout, for any instance.   *)
(***************************************************************************)
THEOREM TypeCorrect == HookSpec => []HookTypeOK
  BY HookTypeInit, HookTypeStep, PTL DEF HookSpec

-----------------------------------------------------------------------------
(***************************************************************************)
(* What an instruction may do to one config account: create it, rewrite    *)
(* its issuer together with the list, nominate, or pass the authority to   *)
(* the nominee that signed.  The invariants below follow from these cases. *)
(***************************************************************************)
ConfigCreated(h) ==
    /\ config[h] = NoConfig
    /\ config'[h].authority = mintAuthority[MintOf(h)]
    /\ config'[h].authority \in Wallets
    /\ config'[h].pending_authority = DefaultKey
    /\ metaList'[h] = metaList[h]

ConfigUpdated(h) ==
    /\ config[h] # NoConfig /\ metaList[h] # NoList
    /\ config'[h].authority = config[h].authority
    /\ config'[h].pending_authority = config[h].pending_authority
    /\ metaList'[h] = InitialAccountMetas(config'[h].issuer)

ConfigNominates(h) ==
    /\ config[h] # NoConfig
    /\ config'[h].authority = config[h].authority
    /\ config'[h].issuer = config[h].issuer
    /\ metaList'[h] = metaList[h]

ConfigHandedOver(h) ==
    /\ config[h] # NoConfig
    /\ config[h].pending_authority \in Wallets
    /\ config'[h].authority = config[h].pending_authority
    /\ config'[h].pending_authority = DefaultKey
    /\ config'[h].issuer = config[h].issuer
    /\ metaList'[h] = metaList[h]

ConfigKept(h) ==
    /\ config'[h] = config[h]
    /\ metaList'[h] \in {metaList[h]} \cup {InitialAccountMetas(config[h].issuer)}
    /\ metaList'[h] # metaList[h] => config[h] # NoConfig

ConfigStep(h) ==
    \/ ConfigKept(h)
    \/ /\ config'[h] # NoConfig
       /\ \/ ConfigCreated(h)
          \/ ConfigUpdated(h)
          \/ ConfigNominates(h)
          \/ ConfigHandedOver(h)

(***************************************************************************)
(* Every instruction does one of these to every config account.            *)
(***************************************************************************)
LEMMA ConfigStepLemma ==
    ASSUME HookTypeOK, [HookNext]_hookVars, NEW g \in Hooks
    PROVE  ConfigStep(g)
<1> USE DEF HookTypeOK
<1> HookTypeOK'
  BY HookTypeStep
<1> config'[g] # NoConfig <=> config'[g] \in HookConfig
  BY NoConfigAssumption
<1>1. ASSUME NEW h \in Hooks, NEW signer \in Wallets, NEW issuer \in Issuers,
             InitializeConfig(h, signer, issuer)
      PROVE  ConfigStep(g)
  <2>1. CASE g = h
    <3>1. config'[h] = [authority |-> signer, pending_authority |-> DefaultKey, issuer |-> issuer]
      BY <1>1 DEF InitializeConfig
    <3>2. config'[h] \in HookConfig
      BY <3>1 DEF HookConfig, Keys
    <3>3. ConfigCreated(h)
      BY <1>1, <3>1 DEF InitializeConfig, ConfigCreated
    <3> QED
      BY <2>1, <3>2, <3>3, NoConfigAssumption DEF ConfigStep
  <2>2. CASE g # h
    BY <1>1, <2>2 DEF InitializeConfig, ConfigStep, ConfigKept
  <2> QED
    BY <2>1, <2>2
<1>2. ASSUME NEW h \in Hooks, NEW signer \in Wallets,
             InitializeExtraAccountMetaList(h, signer)
      PROVE  ConfigStep(g)
  BY <1>2 DEF InitializeExtraAccountMetaList, CanInitializeExtraAccountMetaList, IsAuthority,
              ConfigStep, ConfigKept
<1>3. ASSUME NEW h \in Hooks, NEW signer \in Wallets, NEW issuer \in Issuers,
             UpdateConfig(h, signer, issuer)
      PROVE  ConfigStep(g)
  <2>1. CASE g = h
    <3>1. /\ config[h] \in HookConfig
          /\ config'[h] = [config[h] EXCEPT !.issuer = issuer]
          /\ metaList'[h] = UpdatedAccountMetas(issuer)
      BY <1>3 DEF UpdateConfig, IsAuthority
    <3>2. config'[h] \in HookConfig
      BY <3>1 DEF HookConfig
    <3>3. metaList'[h] = InitialAccountMetas(issuer)
      BY <3>1, SameAccountMetas
    <3>4. config'[h].issuer = issuer
      BY <3>1 DEF HookConfig
    <3>5. metaList[h] # NoList
      BY <1>3, NoListAssumption DEF UpdateConfig, TlvCanInit, ListBeforeUpdate, ZeroedList
    <3>6. ConfigUpdated(h)
      BY <1>3, <3>1, <3>3, <3>4, <3>5 DEF UpdateConfig, IsAuthority, ConfigUpdated, HookConfig
    <3> QED
      BY <2>1, <3>2, <3>6, NoConfigAssumption DEF ConfigStep
  <2>2. CASE g # h
    BY <1>3, <2>2 DEF UpdateConfig, ConfigStep, ConfigKept
  <2> QED
    BY <2>1, <2>2
<1>4. ASSUME NEW h \in Hooks, NEW signer \in Wallets, NEW key \in Keys,
             TransferAuthority(h, signer, key)
      PROVE  ConfigStep(g)
  <2>1. CASE g = h
    <3>1. /\ config[h] \in HookConfig
          /\ config'[h] = [config[h] EXCEPT !.pending_authority = key]
          /\ metaList'[h] = metaList[h]
      BY <1>4 DEF TransferAuthority, IsAuthority
    <3>2. config'[h] \in HookConfig
      BY <3>1 DEF HookConfig
    <3>3. ConfigNominates(h)
      BY <1>4, <3>1 DEF TransferAuthority, IsAuthority, ConfigNominates, HookConfig
    <3> QED
      BY <2>1, <3>2, <3>3, NoConfigAssumption DEF ConfigStep
  <2>2. CASE g # h
    BY <1>4, <2>2 DEF TransferAuthority, ConfigStep, ConfigKept
  <2> QED
    BY <2>1, <2>2
<1>5. ASSUME NEW h \in Hooks, NEW signer \in Wallets, AcceptAuthority(h, signer)
      PROVE  ConfigStep(g)
  <2>1. CASE g = h
    <3>1. /\ config[h] \in HookConfig
          /\ config'[h] = [config[h] EXCEPT !.authority = config[h].pending_authority,
                                            !.pending_authority = DefaultKey]
          /\ metaList'[h] = metaList[h]
      BY <1>5 DEF AcceptAuthority
    <3>2. config'[h] \in HookConfig
      BY <3>1 DEF HookConfig, Keys
    <3>3. ConfigHandedOver(h)
      BY <1>5, <3>1 DEF AcceptAuthority, ConfigHandedOver, HookConfig
    <3> QED
      BY <2>1, <3>2, <3>3, NoConfigAssumption DEF ConfigStep
  <2>2. CASE g # h
    BY <1>5, <2>2 DEF AcceptAuthority, ConfigStep, ConfigKept
  <2> QED
    BY <2>1, <2>2
<1>6. ASSUME NEW h \in Hooks, NEW signer \in Wallets, NEW wallet \in Wallets,
             AddToWhitelist(h, signer, wallet)
      PROVE  ConfigStep(g)
  BY <1>6 DEF AddToWhitelist, ConfigStep, ConfigKept
<1>7. ASSUME NEW h \in Hooks, NEW signer \in Wallets,
             NEW writable \in SUBSET Wallets, NEW wallet \in Wallets,
             RemoveFromWhitelist(h, signer, writable, wallet)
      PROVE  ConfigStep(g)
  BY <1>7 DEF RemoveFromWhitelist, ConfigStep, ConfigKept
<1>8. ASSUME NEW m \in Mints, NEW signer \in Wallets,
             NEW key \in Keys, SetMintAuthority(m, signer, key)
      PROVE  ConfigStep(g)
  BY <1>8 DEF SetMintAuthority, ConfigStep, ConfigKept
<1>9. CASE UNCHANGED hookVars
  BY <1>9 DEF hookVars, ConfigStep, ConfigKept
<1> QED
  BY <1>1, <1>2, <1>3, <1>4, <1>5, <1>6, <1>7, <1>8, <1>9 DEF HookNext

-----------------------------------------------------------------------------
(***************************************************************************)
(* However initialisations and updates interleave, an existing list is     *)
(* always the one of the present config.                                   *)
(***************************************************************************)
THEOREM ListNeverStale == HookSpec => []MetaListMatchesConfig
<1>1. HookInit => MetaListMatchesConfig
  BY DEF HookInit, MetaListMatchesConfig
<1>2. HookTypeOK /\ MetaListMatchesConfig /\ [HookNext]_hookVars => MetaListMatchesConfig'
  <2> SUFFICES ASSUME HookTypeOK, MetaListMatchesConfig, [HookNext]_hookVars,
                      NEW h \in Hooks, metaList'[h] # NoList
               PROVE  /\ config'[h] # NoConfig
                      /\ metaList'[h] = InitialAccountMetas(config'[h].issuer)
    BY DEF MetaListMatchesConfig
  <2>1. ConfigStep(h)
    BY ConfigStepLemma
  <2>2. CASE ConfigKept(h)
    BY <2>2 DEF ConfigKept, MetaListMatchesConfig
  <2>3. CASE ~ ConfigKept(h)
    BY <2>1, <2>3 DEF ConfigStep, ConfigCreated, ConfigUpdated, ConfigNominates,
                      ConfigHandedOver, MetaListMatchesConfig
  <2> QED
    BY <2>2, <2>3
<1> QED
  BY <1>1, <1>2, TypeCorrect, PTL DEF HookSpec

(***************************************************************************)
(* Whatever keys are nominated, the authority of a config can sign.        *)
(***************************************************************************)
THEOREM NeverLockedOut == HookSpec => []AuthorityCanSign
<1>1. HookInit => AuthorityCanSign
  BY DEF HookInit, AuthorityCanSign
<1>2. HookTypeOK /\ AuthorityCanSign /\ [HookNext]_hookVars => AuthorityCanSign'
  <2> SUFFICES ASSUME HookTypeOK, AuthorityCanSign, [HookNext]_hookVars,
                      NEW h \in Hooks, config'[h] # NoConfig
               PROVE  config'[h].authority \in Wallets
    BY DEF AuthorityCanSign
  <2>1. ConfigStep(h)
    BY ConfigStepLemma
  <2> QED
    BY <2>1 DEF ConfigStep, ConfigKept, ConfigCreated, ConfigUpdated, ConfigNominates,
                ConfigHandedOver, AuthorityCanSign
<1> QED
  BY <1>1, <1>2, TypeCorrect, PTL DEF HookSpec

(***************************************************************************)
(* No whitelist entry exists without a config that governs it.             *)
(***************************************************************************)
THEOREM EntriesAreGoverned == HookSpec => []WhitelistIsGoverned
<1>1. HookInit => WhitelistIsGoverned
  BY DEF HookInit, WhitelistIsGoverned
<1>2. HookTypeOK /\ WhitelistIsGoverned /\ [HookNext]_hookVars => WhitelistIsGoverned'
  <2> SUFFICES ASSUME HookTypeOK, WhitelistIsGoverned, [HookNext]_hookVars,
                      NEW g \in Hooks, whitelist'[g] # {}
               PROVE  config'[g] # NoConfig
    BY DEF WhitelistIsGoverned
  <2>1. config[g] # NoConfig => config'[g] # NoConfig
    BY ConfigStepLemma DEF ConfigStep, ConfigKept
  <2>2. whitelist'[g] # whitelist[g] => config[g] # NoConfig
    BY DEF HookTypeOK, HookNext, hookVars, InitializeConfig, InitializeExtraAccountMetaList,
           UpdateConfig, TransferAuthority, AcceptAuthority, AddToWhitelist,
           RemoveFromWhitelist, CanRemoveFromWhitelist, SetMintAuthority, IsAuthority
  <2> QED
    BY <2>1, <2>2 DEF WhitelistIsGoverned
<1> QED
  BY <1>1, <1>2, TypeCorrect, PTL DEF HookSpec

-----------------------------------------------------------------------------
(***************************************************************************)
(* An instruction touches the config of at most one hook.                  *)
(***************************************************************************)
LEMMA OneConfigAtATime ==
    ASSUME HookTypeOK, [HookNext]_hookVars, config' # config
    PROVE  \E h \in Hooks : /\ config'[h] # config[h]
                            /\ config' = [config EXCEPT ![h] = config'[h]]
<1>1. \E h \in Hooks : config' = [config EXCEPT ![h] = config'[h]]
  <2>1. ASSUME NEW h \in Hooks, NEW c, config' = [config EXCEPT ![h] = c]
        PROVE  config' = [config EXCEPT ![h] = config'[h]]
    BY <2>1 DEF HookTypeOK
  <2> QED
    BY <2>1 DEF HookNext, hookVars, InitializeConfig, InitializeExtraAccountMetaList,
           UpdateConfig, TransferAuthority, AcceptAuthority, AddToWhitelist,
           RemoveFromWhitelist, SetMintAuthority
<1>2. PICK h \in Hooks : config' = [config EXCEPT ![h] = config'[h]]
  BY <1>1
<1>3. config'[h] # config[h]
  BY <1>2 DEF HookTypeOK
<1> QED
  BY <1>2, <1>3

(***************************************************************************)
(* The program's handover implements the abstract two-step handover: no    *)
(* sequence of instructions moves the authority except to its standing     *)
(* nominee, who signed.                                                    *)
(***************************************************************************)
THEOREM HandoverImplemented == HookSpec => HandoverSpec
<1>1. HookInit => Handover!Init
  BY DEF HookInit, Handover!Init, Holder, Nominee
<1>2. HookTypeOK /\ AuthorityCanSign /\ [HookNext]_hookVars => [Handover!Next]_Handover!vars
  <2> SUFFICES ASSUME HookTypeOK, AuthorityCanSign, [HookNext]_hookVars
               PROVE  [Handover!Next]_Handover!vars
    OBVIOUS
  <2>1. CASE config' = config
    BY <2>1 DEF Holder, Nominee, Handover!vars
  <2>2. CASE config' # config
    <3>1. PICK h \in Hooks : /\ config'[h] # config[h]
                             /\ config' = [config EXCEPT ![h] = config'[h]]
      BY <2>2, OneConfigAtATime
    <3> DEFINE authority == IF config'[h] = NoConfig THEN DefaultKey ELSE config'[h].authority
               pending == IF config'[h] = NoConfig THEN DefaultKey
                                                   ELSE config'[h].pending_authority
    <3>2. Holder' = [Holder EXCEPT ![h] = authority]
      BY <3>1 DEF Holder, HookTypeOK
    <3>3. Nominee' = [Nominee EXCEPT ![h] = pending]
      BY <3>1 DEF Nominee, HookTypeOK
    <3>4. /\ config'[h] # NoConfig
          /\ ConfigCreated(h) \/ ConfigUpdated(h) \/ ConfigNominates(h) \/ ConfigHandedOver(h)
      BY <3>1, ConfigStepLemma DEF ConfigStep, ConfigKept
    <3>5. config'[h] \in HookConfig
      BY <3>4, HookTypeStep DEF HookTypeOK
    <3>6. CASE ConfigCreated(h)
      <4>1. Handover!Appoint(h, authority)
        BY <3>2, <3>3, <3>4, <3>6 DEF Handover!Appoint, Holder, Nominee, ConfigCreated
      <4> QED
        BY <3>4, <3>6, <4>1 DEF Handover!Next, ConfigCreated
    <3>7. CASE ConfigUpdated(h)
      BY <3>2, <3>3, <3>4, <3>7 DEF ConfigUpdated, Holder, Nominee, Handover!vars
    <3>8. CASE ConfigNominates(h)
      <4>1. pending \in Wallets \cup {DefaultKey}
        BY <3>5 DEF HookConfig, Keys
      <4>2. Handover!Nominate(h, pending)
        BY <3>2, <3>3, <3>4, <3>8, DefaultKeyAssumption
           DEF Handover!Nominate, Holder, ConfigNominates, AuthorityCanSign
      <4> QED
        BY <4>1, <4>2 DEF Handover!Next
    <3>9. CASE ConfigHandedOver(h)
      <4>1. Handover!Accept(h, authority)
        BY <3>2, <3>3, <3>4, <3>9 DEF Handover!Accept, Nominee, ConfigHandedOver
      <4> QED
        BY <3>4, <3>9, <4>1 DEF Handover!Next, ConfigHandedOver
    <3> QED
      BY <3>4, <3>6, <3>7, <3>8, <3>9
  <2> QED
    BY <2>1, <2>2
<1> QED
  BY <1>1, <1>2, TypeCorrect, NeverLockedOut, PTL DEF HookSpec, HandoverSpec, Handover!Spec

=============================================================================
