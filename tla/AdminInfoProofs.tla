--------------------------- MODULE AdminInfoProofs ----------------------------
(***************************************************************************)
(* Proofs about AdminInfo, for any hooks, wallets and issuers.  The        *)
(* command takes no step of HookProgram, so the theorems about HookSpec    *)
(* hold while it runs; what it shows follows from the inductive ReadInv.   *)
(***************************************************************************)
EXTENDS AdminInfo, HookProgramProofs

(***************************************************************************)
(* InfoTypeOK holds before the first command.                              *)
(***************************************************************************)
LEMMA InfoTypeInit == InfoInit => InfoTypeOK
  BY HookTypeInit, InfoAssumption DEF InfoInit, InfoTypeOK, Steps

(***************************************************************************)
(* A step of the command, or an instruction.                               *)
(***************************************************************************)
LEMMA InfoStepIsHookStep == [InfoNext]_infoVars => [HookNext]_hookVars
  BY DEF InfoNext, HookStep, RunInfo, ShowConfig, ConfigUnread, ShowList, ListUnread, infoVars

(***************************************************************************)
(* One case for each line of the command.                                  *)
(***************************************************************************)
LEMMA InfoTypeStep == InfoTypeOK /\ [InfoNext]_infoVars => InfoTypeOK'
<1> SUFFICES ASSUME InfoTypeOK, [InfoNext]_infoVars
             PROVE  InfoTypeOK'
  OBVIOUS
<1> USE DEF InfoTypeOK, Steps
<1>1. HookTypeOK'
  BY InfoStepIsHookStep, HookTypeStep
<1>2. CASE HookStep
  BY <1>1, <1>2 DEF HookStep
<1>3. ASSUME NEW h \in Hooks, RunInfo(h)
      PROVE  InfoTypeOK'
  BY <1>1, <1>3, InfoAssumption DEF RunInfo
<1>4. CASE ShowConfig
  <2>1. config[info.hook] \in HookConfig
    BY <1>4 DEF ShowConfig, HookTypeOK
  <2> QED
    BY <1>1, <1>4, <2>1 DEF ShowConfig
<1>5. CASE ConfigUnread
  BY <1>1, <1>5 DEF ConfigUnread
<1>6. CASE ShowList
  BY <1>1, <1>6 DEF ShowList
<1>7. CASE ListUnread
  BY <1>1, <1>7, InfoAssumption DEF ListUnread
<1>8. CASE UNCHANGED infoVars
  BY <1>1, <1>8 DEF infoVars
<1> QED
  BY <1>2, <1>3, <1>4, <1>5, <1>6, <1>7, <1>8 DEF InfoNext

(***************************************************************************)
(* What `info` has shown always is a config, or an error, then a list.     *)
(***************************************************************************)
THEOREM InfoTypeCorrect == InfoSpec => []InfoTypeOK
  BY InfoTypeInit, InfoTypeStep, PTL DEF InfoSpec

-----------------------------------------------------------------------------
(***************************************************************************)
(* The strengthening of ReadyAsShown.  Between the reads, either the list  *)
(* of the issuer shown has been seen, or there is no list yet: without one *)
(* the config cannot be updated, so its issuer still is the one shown.     *)
(***************************************************************************)
BetweenReads ==
    info.step = "list" =>
        /\ config[info.hook] # NoConfig
        /\ \/ InitialAccountMetas(info.config.issuer) \in listsSeen
           \/ /\ metaList[info.hook] = NoList
              /\ config[info.hook].issuer = info.config.issuer

ReadInv == BetweenReads /\ ReadyAsShown

(***************************************************************************)
(* An instruction between the reads.                                       *)
(***************************************************************************)
LEMMA BetweenReadsKept ==
    ASSUME InfoTypeOK, BetweenReads, HookStep
    PROVE  BetweenReads'
<1> SUFFICES ASSUME info.step = "list"
             PROVE  BetweenReads'
  BY DEF BetweenReads, HookStep
<1> DEFINE h == info.hook
<1>1. h \in Hooks /\ HookTypeOK /\ info' = info
      /\ listsSeen' = listsSeen \cup {metaList'[h]}
  BY DEF InfoTypeOK, HookStep
<1>2. ConfigStep(h)
  BY <1>1, ConfigStepLemma DEF HookStep
<1>3. config[h] # NoConfig /\ config'[h] # NoConfig
  BY <1>2 DEF BetweenReads, ConfigStep, ConfigKept
<1>4. CASE InitialAccountMetas(info.config.issuer) \in listsSeen
  BY <1>1, <1>3, <1>4 DEF BetweenReads
<1>5. CASE metaList[h] = NoList /\ config[h].issuer = info.config.issuer
  <2>1. \/ metaList'[h] = NoList /\ config'[h].issuer = info.config.issuer
        \/ metaList'[h] = InitialAccountMetas(info.config.issuer)
    BY <1>2, <1>3, <1>5 DEF ConfigStep, ConfigKept, ConfigCreated, ConfigUpdated,
                            ConfigNominates, ConfigHandedOver
  <2> QED
    BY <1>1, <1>3, <2>1 DEF BetweenReads
<1> QED
  BY <1>4, <1>5 DEF BetweenReads

(***************************************************************************)
(* An instruction after the reads: no instruction removes a config or a    *)
(* list.                                                                   *)
(***************************************************************************)
LEMMA ReadyKept ==
    ASSUME InfoTypeOK, ReadyAsShown, HookStep
    PROVE  ReadyAsShown'
<1> SUFFICES ASSUME info.list = Initialized
             PROVE  ReadyAsShown'
  BY DEF ReadyAsShown, HookStep
<1> DEFINE h == info.hook
<1>1. h \in Hooks /\ HookTypeOK /\ HookTypeOK' /\ info' = info /\ listsSeen \subseteq listsSeen'
  BY HookTypeStep DEF InfoTypeOK, HookStep
<1>2. ConfigStep(h) /\ config[h] # NoConfig /\ metaList[h] # NoList
  BY <1>1, ConfigStepLemma DEF HookStep, ReadyAsShown
<1>3. config[h] \in HookConfig /\ config'[h] # NoConfig
  BY <1>1, <1>2 DEF HookTypeOK, ConfigStep, ConfigKept
<1>4. config'[h] \in HookConfig
  BY <1>1, <1>3 DEF HookTypeOK
<1>5. InitialAccountMetas(config[h].issuer) # NoList /\ InitialAccountMetas(config'[h].issuer) # NoList
  BY <1>3, <1>4, NoListAssumption DEF HookConfig
<1>6. metaList'[h] # NoList
  BY <1>2, <1>5 DEF ConfigStep, ConfigKept, ConfigCreated, ConfigUpdated, ConfigNominates,
                    ConfigHandedOver
<1> QED
  BY <1>1, <1>2, <1>3, <1>6 DEF ReadyAsShown

(***************************************************************************)
(* One case for each line of the command.                                  *)
(***************************************************************************)
LEMMA ReadStep ==
    ASSUME InfoTypeOK, MetaListMatchesConfig, ReadInv, [InfoNext]_infoVars
    PROVE  ReadInv'
<1>1. CASE HookStep
  BY <1>1, BetweenReadsKept, ReadyKept DEF ReadInv
<1>2. ASSUME NEW h \in Hooks, RunInfo(h)
      PROVE  ReadInv'
  BY <1>2, InfoAssumption DEF RunInfo, ReadInv, BetweenReads, ReadyAsShown
<1>3. CASE ShowConfig
  <2> DEFINE h == info.hook
  <2>1. h \in Hooks /\ info.list = NotShown /\ info.list # Initialized
    BY <1>3, InfoAssumption DEF InfoTypeOK, ShowConfig
  <2>2. /\ info'.hook = h /\ info'.step = "list" /\ info'.config = config[h]
        /\ info'.list = info.list /\ listsSeen' = {metaList[h]}
        /\ config[h] # NoConfig /\ UNCHANGED hookVars
    BY <1>3 DEF ShowConfig, InfoTypeOK
  <2>3. metaList[h] = NoList \/ metaList[h] = InitialAccountMetas(config[h].issuer)
    BY <2>1 DEF MetaListMatchesConfig
  <2> QED
    BY <2>1, <2>2, <2>3 DEF ReadInv, BetweenReads, ReadyAsShown, hookVars
<1>4. CASE ConfigUnread
  <2>1. info.list # Initialized
    BY <1>4, InfoAssumption DEF InfoTypeOK, ConfigUnread
  <2>2. info'.step = "ended" /\ info'.list = info.list
    BY <1>4 DEF ConfigUnread, InfoTypeOK
  <2> QED
    BY <2>1, <2>2 DEF ReadInv, BetweenReads, ReadyAsShown
<1>5. CASE ShowList
  <2>1. /\ info'.hook = info.hook /\ info'.step = "ended" /\ info'.config = info.config
        /\ metaList[info.hook] # NoList /\ UNCHANGED <<hookVars, listsSeen>>
    BY <1>5 DEF ShowList, InfoTypeOK
  <2>2. config[info.hook] # NoConfig /\ InitialAccountMetas(info.config.issuer) \in listsSeen
    BY <1>5, <2>1 DEF ReadInv, BetweenReads, ShowList
  <2> QED
    BY <2>1, <2>2 DEF ReadInv, BetweenReads, ReadyAsShown, hookVars
<1>6. CASE ListUnread
  <2>1. info'.step = "ended" /\ info'.list = NotInitialized
    BY <1>6 DEF ListUnread, InfoTypeOK
  <2> QED
    BY <2>1, InfoAssumption DEF ReadInv, BetweenReads, ReadyAsShown
<1>7. CASE UNCHANGED infoVars
  BY <1>7 DEF infoVars, hookVars, ReadInv, BetweenReads, ReadyAsShown
<1> QED
  BY <1>1, <1>2, <1>3, <1>4, <1>5, <1>6, <1>7 DEF InfoNext

(***************************************************************************)
(* `info` never adds up two reads to a setup that there was not: an issuer *)
(* and an initialised list that it shows belonged together at a moment     *)
(* between its reads, and the hook stays set up.                           *)
(***************************************************************************)
THEOREM ShownTogetherIsTrue == InfoSpec => []ReadyAsShown
<1>1. InfoInit => ReadInv
  BY InfoAssumption DEF InfoInit, ReadInv, BetweenReads, ReadyAsShown
<1>2. InfoInit => HookInit
  BY DEF InfoInit
<1>3. InfoSpec => HookSpec
  BY <1>2, InfoStepIsHookStep, PTL DEF InfoSpec, HookSpec
<1>4. InfoTypeOK /\ MetaListMatchesConfig /\ ReadInv /\ [InfoNext]_infoVars => ReadInv'
  BY ReadStep
<1>5. InfoSpec => []ReadInv
  BY <1>1, <1>3, <1>4, InfoTypeCorrect, ListNeverStale, PTL DEF InfoSpec
<1>6. ReadInv => ReadyAsShown
  BY DEF ReadInv
<1> QED
  BY <1>5, <1>6, PTL

=============================================================================
