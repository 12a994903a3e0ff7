-------------------------- MODULE GatedTokenProofs --------------------------
(***************************************************************************)
(* The gated token implements GatedLedger for any number of mints, hook    *)
(* programs, wallets and transfers in flight, and transfers built against  *)
(* the present list land.                                                  *)
(***************************************************************************)
EXTENDS GatedToken, TransferHookProofs

(***************************************************************************)
(* What a debit leaves behind is a token account again.                    *)
(***************************************************************************)
LEMMA DebitType ==
    ASSUME NEW account \in TokenAccount, NEW owner, NEW authority, NEW amount \in Nat,
           CanDebit(account, owner, authority, amount)
    PROVE  /\ Debit(account, authority, amount) \in TokenAccount
           /\ Debit(account, authority, amount).amount = account.amount - amount
  BY DEF CanDebit, Debit, TokenAccount

(***************************************************************************)
(* Approving and revoking change the delegate of a token account only.     *)
(***************************************************************************)
LEMMA WithDelegateType ==
    ASSUME NEW account \in TokenAccount, NEW delegate \in Wallets \cup {NoDelegate},
           NEW amount \in Nat
    PROVE  /\ WithDelegate(account, delegate, amount) \in TokenAccount
           /\ WithDelegate(account, delegate, amount).amount = account.amount
           /\ WithDelegate(account, delegate, amount).delegate = delegate
           /\ WithDelegate(account, delegate, amount).delegated_amount = amount
  BY DEF WithDelegate, TokenAccount

(***************************************************************************)
(* The layouts hold before any token exists.                               *)
(***************************************************************************)
LEMMA GatedTypeInit == GatedInit => GatedTypeOK
<1> SUFFICES ASSUME GatedInit
             PROVE  GatedTypeOK
  OBVIOUS
<1>1. ChainTypeOK
  BY ChainTypeInit DEF GatedInit
<1>2. extension \in [Mints -> TransferHookExtension]
  BY DEF GatedInit, ChainInit, HookInit, TransferHookExtension
<1> QED
  BY <1>1, <1>2, GatedTokenAssumption DEF GatedInit, GatedTypeOK, EmptyTokenAccount, TokenAccount

(***************************************************************************)
(* A token instruction leaves the accounts that the hook reads alone.      *)
(***************************************************************************)
LEMMA GatedTypeStep == GatedTypeOK /\ [GatedNext]_gatedVars => GatedTypeOK'
<1> SUFFICES ASSUME GatedTypeOK, [GatedNext]_gatedVars
             PROVE  GatedTypeOK'
  OBVIOUS
<1> USE DEF GatedTypeOK
<1>0. UNCHANGED chainVars => ChainTypeOK'
  BY ChainTypeStep
<1>1. CASE ChainNext /\ UNCHANGED tokenVars
  BY <1>1, ChainTypeStep DEF tokenVars
<1>2. ASSUME NEW m \in Mints, NEW owner \in Wallets, NEW signer \in Wallets,
             MintTo(m, signer, owner)
      PROVE  GatedTypeOK'
  <2>1. supply' \in [Mints -> 0..MaxSupply]
    BY <1>2, GatedTokenAssumption DEF MintTo
  <2>2. [token[m][owner] EXCEPT !.amount = @ + 1] \in TokenAccount
    BY DEF TokenAccount
  <2>3. token' \in [Mints -> [Wallets -> TokenAccount]]
    BY <1>2, <2>2 DEF MintTo
  <2> QED
    BY <1>0, <1>2, <2>1, <2>3 DEF MintTo
<1>3. ASSUME NEW m \in Mints, NEW owner \in Wallets, NEW delegate \in Wallets,
             NEW amount \in 0..MaxSupply, Approve(m, owner, delegate, amount)
      PROVE  GatedTypeOK'
  <2>1. WithDelegate(token[m][owner], delegate, amount) \in TokenAccount
    BY WithDelegateType, GatedTokenAssumption
  <2> QED
    BY <1>0, <1>3, <2>1 DEF Approve
<1>4. ASSUME NEW m \in Mints, NEW owner \in Wallets, Revoke(m, owner)
      PROVE  GatedTypeOK'
  <2>1. WithDelegate(token[m][owner], NoDelegate, 0) \in TokenAccount
    BY WithDelegateType
  <2> QED
    BY <1>0, <1>4, <2>1 DEF Revoke
<1>5. ASSUME NEW m \in Mints, NEW owner \in Wallets, NEW destination \in Wallets,
             NEW authority \in Wallets, NEW amount \in 1..MaxSupply,
             BuildTransfer(m, owner, destination, authority, amount)
      PROVE  GatedTypeOK'
  BY <1>0, <1>5 DEF BuildTransfer, TransferOf
<1>6. ASSUME NEW tx \in sent, TransferChecked(tx)
      PROVE  GatedTypeOK'
  <2> DEFINE account == token[tx.mint][tx.source]
             debited == Debit(account, tx.authority, tx.amount)
  <2>1. debited \in TokenAccount
    BY <1>6, DebitType, GatedTokenAssumption DEF TransferChecked, CanTransfer
  <2>2. [token[tx.mint][tx.destination] EXCEPT !.amount = @ + tx.amount] \in TokenAccount
    BY GatedTokenAssumption DEF TokenAccount
  <2>3. token' \in [Mints -> [Wallets -> TokenAccount]]
    BY <1>6, <2>1, <2>2 DEF TransferChecked
  <2> QED
    BY <1>0, <1>6, <2>3 DEF TransferChecked
<1>7. ASSUME NEW tx \in sent, DropTransfer(tx)
      PROVE  GatedTypeOK'
  BY <1>0, <1>7 DEF DropTransfer
<1>8. ASSUME NEW m \in Mints, NEW owner \in Wallets, NEW program \in Programs \cup {DefaultKey},
             UpdateTransferHook(m, owner, program)
      PROVE  GatedTypeOK'
  <2>1. extension' \in [Mints -> TransferHookExtension]
    BY <1>8 DEF UpdateTransferHook, TransferHookExtension
  <2> QED
    BY <1>0, <1>8, <2>1 DEF UpdateTransferHook
<1>9. CASE UNCHANGED gatedVars
  BY <1>0, <1>9 DEF gatedVars, tokenVars
<1> QED
  BY <1>1, <1>2, <1>3, <1>4, <1>5, <1>6, <1>7, <1>8, <1>9 DEF GatedNext

(***************************************************************************)
(* Token accounts and pending transactions keep their layouts.             *)
(***************************************************************************)
THEOREM GatedTypeCorrect == GatedSpec => []GatedTypeOK
  BY GatedTypeInit, GatedTypeStep, PTL DEF GatedSpec

-----------------------------------------------------------------------------
(***************************************************************************)
(* The hook that a gated mint names is one of the deployments.             *)
(***************************************************************************)
LEMMA GatedHookType ==
    ASSUME GatedTypeOK, NEW m \in Mints, Gated(m)
    PROVE  HookOf(m) \in Hooks
  BY DEF GatedTypeOK, TransferHookExtension, Gated, HookOf, Hooks

(***************************************************************************)
(* Token instructions other than UpdateTransferHook clear nobody.          *)
(***************************************************************************)
LEMMA ClearedKept ==
    ASSUME UNCHANGED <<chainVars, extension>>
    PROVE  Cleared' = Cleared
  BY DEF Cleared, Gated, HookOf, Entitled, Attested,
         chainVars, hookVars, sasVars

(***************************************************************************)
(* An update at one place of a function of two arguments, spelled out.     *)
(***************************************************************************)
LEMMA UpdateInner ==
    ASSUME NEW M, NEW W, NEW S, NEW f \in [M -> [W -> S]], NEW m \in M, NEW w \in W, NEW c
    PROVE  [f EXCEPT ![m][w] = c]
               = [n \in M |-> [v \in W |-> IF n = m /\ v = w THEN c ELSE f[n][v]]]
<1> DEFINE g == [n \in M |-> [v \in W |-> IF n = m /\ v = w THEN c ELSE f[n][v]]]
           h == [f EXCEPT ![m] = [f[m] EXCEPT ![w] = c]]
<1>1. f = [n \in M |-> f[n]] /\ \A n \in M : f[n] = [v \in W |-> f[n][v]]
  OBVIOUS
<1>2. h = [n \in M |-> IF n = m THEN [f[m] EXCEPT ![w] = c] ELSE f[n]]
  OBVIOUS
<1>3. \A n \in M : g[n] = IF n = m THEN [f[m] EXCEPT ![w] = c] ELSE f[n]
  OBVIOUS
<1>4. g = h
  BY <1>2, <1>3
<1> QED
  BY <1>4

(***************************************************************************)
(* A token account replaced by another, seen through the refinement        *)
(* mapping: the balance and the allowances of its owner, and no others.    *)
(***************************************************************************)
AccountReplaced(m, owner, account) ==
    token' = [token EXCEPT ![m][owner] = account]

LedgerFollows(m, owner, account) ==
    /\ Balance' = [Balance EXCEPT ![m][owner] = account.amount]
    /\ Budget' = [Budget EXCEPT ![m][owner] = AllowancesOf(account)]

(***************************************************************************)
(* Whatever token account replaces another, the ledger follows.            *)
(***************************************************************************)
LEMMA AccountChange ==
    ASSUME token \in [Mints -> [Wallets -> TokenAccount]],
           NEW m \in Mints, NEW owner \in Wallets, NEW account \in TokenAccount,
           AccountReplaced(m, owner, account)
    PROVE  LedgerFollows(m, owner, account)
<1> USE DEF AccountReplaced, LedgerFollows
<1>1. token' = [n \in Mints |-> [w \in Wallets |->
                    IF n = m /\ w = owner THEN account ELSE token[n][w]]]
  BY UpdateInner
<1>2. Balance \in [Mints -> [Wallets -> Nat]]
  BY DEF Balance, TokenAccount
<1>3. Budget \in [Mints -> [Wallets -> [Wallets -> Nat]]]
  BY DEF Budget, AllowancesOf, TokenAccount
<1>4. Balance' = [n \in Mints |-> [w \in Wallets |->
                      IF n = m /\ w = owner THEN account.amount ELSE Balance[n][w]]]
  BY <1>1 DEF Balance
<1>5. Budget' = [n \in Mints |-> [w \in Wallets |->
                     IF n = m /\ w = owner THEN AllowancesOf(account) ELSE Budget[n][w]]]
  BY <1>1 DEF Budget
<1> QED
  BY <1>2, <1>3, <1>4, <1>5, UpdateInner

(***************************************************************************)
(* A change of delegate replaces the allowances of the account.            *)
(***************************************************************************)
AllowancesReplaced(m, owner, delegate, amount) ==
    /\ Balance' = Balance
    /\ Budget' = [Budget EXCEPT ![m][owner] =
                      [s \in Wallets |-> IF s = delegate THEN amount ELSE 0]]

(***************************************************************************)
(* Approve and Revoke are such changes, to the ledger an allowance and its *)
(* withdrawal.                                                             *)
(***************************************************************************)
LEMMA DelegateChange ==
    ASSUME token \in [Mints -> [Wallets -> TokenAccount]],
           NEW m \in Mints, NEW owner \in Wallets,
           NEW delegate \in Wallets \cup {NoDelegate}, NEW amount \in Nat,
           AccountReplaced(m, owner, WithDelegate(token[m][owner], delegate, amount))
    PROVE  AllowancesReplaced(m, owner, delegate, amount)
<1> DEFINE account == WithDelegate(token[m][owner], delegate, amount)
<1>1. token[m][owner] \in TokenAccount
  OBVIOUS
<1>2. /\ account \in TokenAccount
      /\ account.amount = token[m][owner].amount
      /\ account.delegate = delegate
      /\ account.delegated_amount = amount
  BY <1>1, WithDelegateType
<1>3. AccountReplaced(m, owner, account)
  OBVIOUS
<1> HIDE DEF account
<1>4. LedgerFollows(m, owner, account)
  BY <1>2, <1>3, AccountChange
<1>5. [Balance EXCEPT ![m][owner] = token[m][owner].amount] = Balance
  BY DEF Balance
<1>6. AllowancesOf(account) = [s \in Wallets |-> IF s = delegate THEN amount ELSE 0]
  BY <1>2 DEF AllowancesOf
<1> QED
  BY <1>2, <1>4, <1>5, <1>6 DEF LedgerFollows, AllowancesReplaced

(***************************************************************************)
(* A debit takes the amount out of the authority's allowance if that       *)
(* covers it, and touches no other allowance.                              *)
(***************************************************************************)
LEMMA DebitAllowances ==
    ASSUME NEW account \in TokenAccount, NEW owner \in Wallets, NEW authority \in Wallets,
           NEW amount \in Nat \ {0}, CanDebit(account, owner, authority, amount)
    PROVE  AllowancesOf(Debit(account, authority, amount)) =
               [AllowancesOf(account) EXCEPT ![authority] = IF amount <= @ THEN @ - amount ELSE @]
<1> DEFINE debited == Debit(account, authority, amount)
<1>1. CASE account.delegate = authority
  <2>1. amount <= account.delegated_amount
    BY <1>1 DEF CanDebit
  <2>2. \A s \in Wallets : (IF debited.delegate = s THEN debited.delegated_amount ELSE 0)
            = IF s = authority THEN account.delegated_amount - amount ELSE 0
    <3>1. CASE amount = account.delegated_amount
      <4>1. debited.delegate = NoDelegate
        BY <1>1, <3>1 DEF Debit
      <4> QED
        BY <3>1, <4>1, GatedTokenAssumption DEF TokenAccount
    <3>2. CASE amount # account.delegated_amount
      BY <1>1, <3>2 DEF Debit
    <3> QED
      BY <3>1, <3>2
  <2> QED
    BY <1>1, <2>1, <2>2 DEF AllowancesOf
<1>2. CASE account.delegate # authority
  <2>1. /\ debited.delegate = account.delegate
        /\ debited.delegated_amount = account.delegated_amount
    BY <1>2 DEF Debit, TokenAccount
  <2> QED
    BY <1>2, <2>1 DEF AllowancesOf
<1> QED
  BY <1>1, <1>2

(***************************************************************************)
(* A transfer that lands is a move of the ledger: the hook accepted its    *)
(* authority, and Token-2022 took the tokens from its own account or out   *)
(* of its allowance.                                                       *)
(***************************************************************************)
LEMMA TransferIsMove ==
    ASSUME GatedTypeOK, NEW tx \in sent, TransferChecked(tx)
    PROVE  Ledger!Move(tx.mint, tx.source, tx.destination, tx.authority, tx.amount)
<1> DEFINE m == tx.mint
           account == token[m][tx.source]
           debited == Debit(account, tx.authority, tx.amount)
           credited == [token[m][tx.destination] EXCEPT !.amount = @ + tx.amount]
<1>1. /\ m \in Mints /\ tx.source \in Wallets /\ tx.destination \in Wallets
      /\ tx.source # tx.destination /\ tx.authority \in Wallets
      /\ tx.amount \in Nat /\ tx.amount > 0
      /\ account \in TokenAccount /\ token[m][tx.destination] \in TokenAccount
  BY GatedTokenAssumption DEF GatedTypeOK
<1>2. CanDebit(account, tx.source, tx.authority, tx.amount)
  BY DEF TransferChecked, CanTransfer
<1>3. tx.authority \in Cleared[m]
  <2>1. CASE ~ Gated(m)
    BY <1>1, <2>1 DEF Cleared
  <2>2. CASE Gated(m)
    <3> DEFINE call == TransferHookAccounts(
                   SourceView(m, tx.source, debited.delegate, debited.delegated_amount, TRUE),
                   m, tx.authority,
                   ResolvedAccounts(m, tx.source, tx.destination, tx.authority))
    <3>1. HookAccepts(HookOf(m), call)
      BY <2>2 DEF TransferChecked, CanTransfer, HookLetsThrough
    <3>2. call.transfer_authority = tx.authority
      BY DEF TransferHookAccounts
    <3>3. HookOf(m) \in Hooks /\ ChainTypeOK
      BY <1>1, <2>2, GatedHookType DEF GatedTypeOK
    <3> HIDE DEF call
    <3>4. Entitled(HookOf(m), tx.authority)
      BY <1>1, <3>1, <3>2, <3>3, AcceptedIsEntitled
    <3> QED
      BY <1>1, <3>4 DEF Cleared
  <2> QED
    BY <2>1, <2>2
<1>4. tx.amount <= Balance[m][tx.source]
  BY <1>1, <1>2 DEF Balance, CanDebit
<1>5. tx.authority = tx.source \/ tx.amount <= Budget[m][tx.source][tx.authority]
  BY <1>1, <1>2 DEF Budget, AllowancesOf, CanDebit
<1>6. /\ debited \in TokenAccount
      /\ debited.amount = account.amount - tx.amount
      /\ credited \in TokenAccount
      /\ credited.amount = token[m][tx.destination].amount + tx.amount
      /\ credited.delegate = token[m][tx.destination].delegate
      /\ credited.delegated_amount = token[m][tx.destination].delegated_amount
  <2>1. debited \in TokenAccount /\ debited.amount = account.amount - tx.amount
    BY <1>1, <1>2, DebitType
  <2> QED
    BY <1>1, <2>1 DEF TokenAccount
<1>7. token' = [n \in Mints |-> [w \in Wallets |->
          IF n = m /\ w = tx.destination THEN credited
          ELSE IF n = m /\ w = tx.source THEN debited ELSE token[n][w]]]
  <2> DEFINE after == [token EXCEPT ![m][tx.source] = debited]
  <2>1. after \in [Mints -> [Wallets -> TokenAccount]]
    BY <1>1, <1>6 DEF GatedTypeOK
  <2>2. token' = [after EXCEPT ![m][tx.destination] = credited]
    BY <1>1 DEF TransferChecked, GatedTypeOK
  <2>3. after = [n \in Mints |-> [w \in Wallets |->
                     IF n = m /\ w = tx.source THEN debited ELSE token[n][w]]]
    BY <1>1, UpdateInner DEF GatedTypeOK
  <2> HIDE DEF after
  <2>4. token' = [n \in Mints |-> [w \in Wallets |->
                      IF n = m /\ w = tx.destination THEN credited ELSE after[n][w]]]
    BY <1>1, <2>1, <2>2, UpdateInner
  <2> QED
    BY <2>3, <2>4
<1> HIDE DEF debited, credited
<1>8. Balance' = [Balance EXCEPT ![m][tx.source] = @ - tx.amount,
                                 ![m][tx.destination] = @ + tx.amount]
  <2>1. Balance \in [Mints -> [Wallets -> Nat]]
    BY DEF Balance, GatedTypeOK, TokenAccount
  <2>2. Balance' = [n \in Mints |-> [w \in Wallets |->
            IF n = m /\ w = tx.destination THEN Balance[m][w] + tx.amount
            ELSE IF n = m /\ w = tx.source THEN Balance[m][w] - tx.amount ELSE Balance[n][w]]]
    BY <1>1, <1>6, <1>7 DEF Balance
  <2> HIDE DEF Balance
  <2> QED
    BY <1>1, <2>1, <2>2
<1>9. Budget' = [Budget EXCEPT ![m][tx.source][tx.authority] =
                     IF tx.amount <= @ THEN @ - tx.amount ELSE @]
  <2> DEFINE spent == [AllowancesOf(account) EXCEPT ![tx.authority] =
                           IF tx.amount <= @ THEN @ - tx.amount ELSE @]
  <2>1. AllowancesOf(debited) = spent
    BY <1>1, <1>2, DebitAllowances DEF debited
  <2>2. AllowancesOf(credited) = AllowancesOf(token[m][tx.destination])
    BY <1>6 DEF AllowancesOf
  <2>3. Budget' = [n \in Mints |-> [w \in Wallets |->
                       IF n = m /\ w = tx.source THEN spent ELSE Budget[n][w]]]
    BY <1>1, <1>7, <2>1, <2>2 DEF Budget
  <2>4. Budget \in [Mints -> [Wallets -> [Wallets -> Nat]]]
    BY DEF Budget, AllowancesOf, GatedTypeOK, TokenAccount
  <2>5. Budget' = [Budget EXCEPT ![m][tx.source] = spent]
    BY <1>1, <2>3, <2>4, UpdateInner
  <2>6. Budget[m][tx.source] = AllowancesOf(account)
    BY <1>1 DEF Budget
  <2> QED
    BY <2>5, <2>6
<1>10. Cleared' = Cleared
  BY ClearedKept DEF TransferChecked
<1> QED
  BY <1>1, <1>3, <1>4, <1>5, <1>8, <1>9, <1>10 DEF Ledger!Move

(***************************************************************************)
(* The gated token keeps the ledger's promise: no interleaving of updates, *)
(* attestations, expiries, approvals and stale transfers moves tokens      *)
(* except by an owner or delegate entitled at that moment.                 *)
(***************************************************************************)
THEOREM LedgerImplemented == GatedSpec => LedgerSpec
<1>1. GatedInit => Ledger!Init
  <2> SUFFICES ASSUME GatedInit
               PROVE  Ledger!Init
    OBVIOUS
  <2>1. \A m \in Mints : Gated(m) /\ HookOf(m) \in Hooks
    BY DefaultKeyAssumption DEF GatedInit, Gated, HookOf, Hooks
  <2>2. \A h \in Hooks : config[h] = NoConfig
    BY DEF GatedInit, ChainInit, HookInit
  <2>3. Cleared = [m \in Mints |-> {}]
    BY <2>1, <2>2 DEF Cleared, Entitled
  <2> QED
    BY <2>3, GatedTokenAssumption
       DEF GatedInit, Ledger!Init, Balance, Budget, AllowancesOf, EmptyTokenAccount
<1>2. GatedTypeOK /\ [GatedNext]_gatedVars => [Ledger!Next]_Ledger!vars
  <2> SUFFICES ASSUME GatedTypeOK, [GatedNext]_gatedVars
               PROVE  [Ledger!Next]_Ledger!vars
    OBVIOUS
  <2>0. UNCHANGED <<chainVars, extension>> => Cleared' = Cleared
    BY ClearedKept
  <2>1. CASE ChainNext /\ UNCHANGED tokenVars
    <3>1. Cleared' \in [Mints -> SUBSET Wallets] /\ Balance' = Balance /\ Budget' = Budget
      BY <2>1 DEF Cleared, Balance, Budget, tokenVars
    <3> QED
      BY <3>1 DEF Ledger!Next, Ledger!ChangeStanding
  <2>2. ASSUME NEW m \in Mints, NEW owner \in Wallets, NEW signer \in Wallets,
               MintTo(m, signer, owner)
        PROVE  Ledger!Next
    <3> DEFINE credited == [token[m][owner] EXCEPT !.amount = @ + 1]
    <3>0. /\ credited \in TokenAccount
          /\ credited.amount = token[m][owner].amount + 1
          /\ AllowancesOf(credited) = AllowancesOf(token[m][owner])
          /\ AccountReplaced(m, owner, credited)
      BY <2>2 DEF MintTo, GatedTypeOK, TokenAccount, AllowancesOf, AccountReplaced
    <3> HIDE DEF credited
    <3>1. Balance' = [Balance EXCEPT ![m][owner] = @ + 1]
      <4>1. LedgerFollows(m, owner, credited)
        BY <3>0, AccountChange DEF GatedTypeOK
      <4>2. Balance[m][owner] = token[m][owner].amount
        BY DEF Balance
      <4> QED
        BY <3>0, <4>1, <4>2 DEF LedgerFollows
    <3>2. Budget' = Budget
      <4>1. LedgerFollows(m, owner, credited)
        BY <3>0, AccountChange DEF GatedTypeOK
      <4>2. [Budget EXCEPT ![m][owner] = AllowancesOf(token[m][owner])] = Budget
        BY DEF Budget
      <4> QED
        BY <3>0, <4>1, <4>2 DEF LedgerFollows
    <3>3. Ledger!Issue(m, owner)
      BY <2>0, <2>2, <3>1, <3>2 DEF MintTo, Ledger!Issue
    <3> QED
      BY <3>3 DEF Ledger!Next
  <2>3. ASSUME NEW m \in Mints, NEW owner \in Wallets, NEW delegate \in Wallets,
               NEW amount \in 0..MaxSupply, Approve(m, owner, delegate, amount)
        PROVE  Ledger!Next
    <3>1. AccountReplaced(m, owner, WithDelegate(token[m][owner], delegate, amount))
      BY <2>3 DEF Approve, AccountReplaced
    <3>2. AllowancesReplaced(m, owner, delegate, amount)
      BY <3>1, DelegateChange, GatedTokenAssumption DEF GatedTypeOK
    <3>3. Ledger!Allow(m, owner, delegate, amount)
      BY <2>0, <2>3, <3>2 DEF Approve, AllowancesReplaced, Ledger!Allow
    <3> QED
      BY <3>3 DEF Ledger!Next
  <2>4. ASSUME NEW m \in Mints, NEW owner \in Wallets, Revoke(m, owner)
        PROVE  Ledger!Next
    <3>1. AccountReplaced(m, owner, WithDelegate(token[m][owner], NoDelegate, 0))
      BY <2>4 DEF Revoke, AccountReplaced
    <3>2. AllowancesReplaced(m, owner, NoDelegate, 0)
      BY <3>1, DelegateChange, GatedTokenAssumption DEF GatedTypeOK
    <3>3. Ledger!Allow(m, owner, owner, 0)
      BY <2>0, <2>4, <3>2 DEF Revoke, AllowancesReplaced, Ledger!Allow
    <3> QED
      BY <3>3, GatedTokenAssumption DEF Ledger!Next
  <2>5. ASSUME NEW m \in Mints, NEW owner \in Wallets, NEW destination \in Wallets,
               NEW authority \in Wallets, NEW amount \in 1..MaxSupply,
               BuildTransfer(m, owner, destination, authority, amount)
        PROVE  UNCHANGED Ledger!vars
    BY <2>0, <2>5 DEF BuildTransfer, Ledger!vars, Balance, Budget
  <2>6. ASSUME NEW tx \in sent, TransferChecked(tx)
        PROVE  Ledger!Next
    BY <2>6, TransferIsMove DEF Ledger!Next, GatedTypeOK
  <2>7. ASSUME NEW tx \in sent, DropTransfer(tx)
        PROVE  UNCHANGED Ledger!vars
    BY <2>0, <2>7 DEF DropTransfer, Ledger!vars, Balance, Budget
  <2>8. ASSUME NEW m \in Mints, NEW owner \in Wallets,
               NEW program \in Programs \cup {DefaultKey}, UpdateTransferHook(m, owner, program)
        PROVE  Ledger!Next
    <3>1. Cleared' \in [Mints -> SUBSET Wallets] /\ Balance' = Balance /\ Budget' = Budget
      BY <2>8 DEF UpdateTransferHook, Cleared, Balance, Budget
    <3> QED
      BY <3>1 DEF Ledger!Next, Ledger!ChangeStanding
  <2>9. CASE UNCHANGED gatedVars
    BY <2>0, <2>9 DEF gatedVars, tokenVars, Ledger!vars, Balance, Budget
  <2> QED
    BY <2>1, <2>2, <2>3, <2>4, <2>5, <2>6, <2>7, <2>8, <2>9 DEF GatedNext
<1> QED
  BY <1>1, <1>2, GatedTypeCorrect, PTL DEF GatedSpec, LedgerSpec, Ledger!Spec

-----------------------------------------------------------------------------
(***************************************************************************)
(* What the ledger means for one account: tokens only leave it together,   *)
(* all to one other account of the same mint and out of nowhere else, for  *)
(* somebody entitled under the present hook, who owns the account or pays  *)
(* for it with an allowance that shrinks by as much.                       *)
(***************************************************************************)
SpentBy(m, owner, n, spender) ==
    /\ spender \in Cleared[m]
    /\ spender = owner \/ /\ n <= Budget[m][owner][spender]
                          /\ Budget'[m][owner][spender] = Budget[m][owner][spender] - n

MovedWhole(m, owner, n, destination) ==
    Balance' = [Balance EXCEPT ![m][owner] = @ - n, ![m][destination] = @ + n]

TokensStayOrMoveWhole ==
    [][\A m \in Mints, owner \in Wallets :
           Balance'[m][owner] < Balance[m][owner] =>
               \E destination \in Wallets \ {owner}, spender \in Wallets :
                   LET n == Balance[m][owner] - Balance'[m][owner]
                   IN  MovedWhole(m, owner, n, destination) /\ SpentBy(m, owner, n, spender)
      ]_gatedVars

(***************************************************************************)
(* Nobody loses tokens but to a transfer of their own or their delegate's. *)
(***************************************************************************)
THEOREM NobodyLosesTokens == GatedSpec => TokensStayOrMoveWhole
<1>1. ASSUME GatedTypeOK, [Ledger!Next]_Ledger!vars,
             NEW m \in Mints, NEW owner \in Wallets, Balance'[m][owner] < Balance[m][owner]
      PROVE  \E destination \in Wallets \ {owner}, spender \in Wallets :
                 LET n == Balance[m][owner] - Balance'[m][owner]
                 IN  MovedWhole(m, owner, n, destination) /\ SpentBy(m, owner, n, spender)
  <2>1. /\ Balance \in [Mints -> [Wallets -> Nat]]
        /\ Budget \in [Mints -> [Wallets -> [Wallets -> Nat]]]
        /\ MaxSupply \in Nat
    BY <1>1, GatedTokenAssumption
       DEF GatedTypeOK, Balance, Budget, AllowancesOf, TokenAccount
  <2> HIDE DEF Balance, Budget, Cleared
  <2>2. Balance' # Balance
    BY <1>1, <2>1
  <2>3. ASSUME NEW k \in Mints, NEW o \in Wallets, Ledger!Issue(k, o)
        PROVE  FALSE
    BY <1>1, <2>1, <2>3 DEF Ledger!Issue
  <2>4. PICK k \in Mints, source \in Wallets, destination \in Wallets, mover \in Wallets,
             n \in 1..MaxSupply : Ledger!Move(k, source, destination, mover, n)
    BY <1>1, <2>2, <2>3 DEF Ledger!Next, Ledger!Allow, Ledger!ChangeStanding, Ledger!vars
  <2>5. /\ source # destination /\ n <= Balance[k][source] /\ mover \in Cleared[k]
        /\ mover = source \/ n <= Budget[k][source][mover]
        /\ Balance' = [Balance EXCEPT ![k][source] = @ - n, ![k][destination] = @ + n]
        /\ Budget' = [Budget EXCEPT ![k][source][mover] = IF n <= @ THEN @ - n ELSE @]
    BY <2>4 DEF Ledger!Move
  <2>6. k = m /\ source = owner /\ Balance[m][owner] - Balance'[m][owner] = n
    BY <1>1, <2>1, <2>5
  <2>7. MovedWhole(m, owner, n, destination)
    BY <2>5, <2>6 DEF MovedWhole
  <2>8. SpentBy(m, owner, n, mover)
    BY <2>1, <2>5, <2>6 DEF SpentBy
  <2> QED
    BY <2>5, <2>6, <2>7, <2>8
<1>2. GatedTypeOK /\ [Ledger!Next]_Ledger!vars =>
          [\A m \in Mints, owner \in Wallets :
               Balance'[m][owner] < Balance[m][owner] =>
                   \E destination \in Wallets \ {owner}, spender \in Wallets :
                       LET n == Balance[m][owner] - Balance'[m][owner]
                       IN  MovedWhole(m, owner, n, destination) /\ SpentBy(m, owner, n, spender)
          ]_gatedVars
  BY <1>1
<1> QED
  BY <1>2, GatedTypeCorrect, LedgerImplemented, PTL
     DEF TokensStayOrMoveWhole, LedgerSpec, Ledger!Spec

-----------------------------------------------------------------------------
(***************************************************************************)
(* Token instructions are stutters to the accounts that the hook reads.    *)
(***************************************************************************)
LEMMA GatedImplementsChain == GatedSpec => ChainSpec
<1>1. GatedInit => ChainInit
  BY DEF GatedInit
<1>2. [GatedNext]_gatedVars => [ChainNext]_chainVars
  BY DEF GatedNext, gatedVars, UpdateTransferHook, MintTo, Approve, Revoke, BuildTransfer,
         TransferChecked, DropTransfer
<1> QED
  BY <1>1, <1>2, PTL DEF GatedSpec, ChainSpec

(***************************************************************************)
(* The token implements HookProgram too: with transfers, attestations and  *)
(* moves between programs around them, the administrative accounts behave  *)
(* as they do by themselves, and every theorem about HookSpec holds here.  *)
(***************************************************************************)
THEOREM TokenImplementsHooks == GatedSpec => HookSpec
  BY GatedImplementsChain, ChainImplementsHook, PTL

(***************************************************************************)
(* Until its allowance is used up, the hook still finds the delegate in    *)
(* the account that Token-2022 has already debited.                        *)
(***************************************************************************)
LEMMA AllowanceLeft ==
    ASSUME NEW account \in TokenAccount, NEW owner, NEW authority, NEW amount \in Nat,
           CanDebit(account, owner, authority, amount),
           authority = owner \/ amount < account.delegated_amount
    PROVE  LET debited == Debit(account, authority, amount)
           IN  authority = owner \/ (debited.delegate = authority /\ debited.delegated_amount > 0)
  BY DEF CanDebit, Debit, TokenAccount

(***************************************************************************)
(* A transfer that brings the accounts of the present list along lands for *)
(* every entitled owner or delegate with allowance to spare.               *)
(***************************************************************************)
THEOREM FreshTransfersLand == GatedSpec => []FreshTransferLands
<1>1. GatedTypeOK /\ MetaListMatchesConfig => FreshTransferLands
  <2> SUFFICES ASSUME GatedTypeOK, MetaListMatchesConfig, NEW tx \in sent,
                      tx = TransferOf(tx.mint, tx.source, tx.destination, tx.authority, tx.amount),
                      CanDebit(token[tx.mint][tx.source], tx.source, tx.authority, tx.amount),
                      Gated(tx.mint),
                      metaList[HookOf(tx.mint)] # NoList,
                      Entitled(HookOf(tx.mint), tx.authority),
                      \/ tx.authority = tx.source
                      \/ tx.amount < token[tx.mint][tx.source].delegated_amount
               PROVE  HookLetsThrough(tx)
    BY DEF FreshTransferLands, CanTransfer
  <2> DEFINE h == HookOf(tx.mint)
             debited == Debit(token[tx.mint][tx.source], tx.authority, tx.amount)
             view == SourceView(tx.mint, tx.source, debited.delegate, debited.delegated_amount, TRUE)
             resolved == ResolvedAccounts(tx.mint, tx.source, tx.destination, tx.authority)
  <2>1. /\ tx.mint \in Mints /\ tx.source \in Wallets /\ tx.authority \in Wallets
        /\ tx.amount \in Nat /\ token[tx.mint][tx.source] \in TokenAccount
        /\ ChainTypeOK
    BY GatedTokenAssumption DEF GatedTypeOK
  <2>2. tx.accounts = Range(resolved)
    BY DEF TransferOf, ClientAccounts
  <2>3. \/ tx.authority = tx.source
        \/ debited.delegate = tx.authority /\ debited.delegated_amount > 0
    BY <2>1, AllowanceLeft
  <2>4. /\ view.transferring /\ view.mint = tx.mint
        /\ view.owner = tx.authority \/ (view.delegate = tx.authority /\ view.delegated_amount > 0)
    BY <2>3 DEF SourceView
  <2>5. h \in Hooks /\ MintOf(h) = tx.mint
    BY <2>1, GatedHookType DEF HookOf, MintOf
  <2> HIDE DEF view
  <2>6. HookAccepts(h, TransferHookAccounts(view, tx.mint, tx.authority, resolved))
    <3> HIDE DEF h
    <3>1. metaList[h] # NoList /\ Entitled(h, tx.authority)
      BY DEF h
    <3>2. resolved = ResolveAccounts(h, metaList[h], tx.source, tx.destination, tx.authority)
      BY DEF ResolvedAccounts, h
    <3> HIDE DEF resolved
    <3> QED
      BY <2>1, <2>4, <2>5, <3>1, <3>2, ResolvedIsAccepted
  <2> QED
    BY <2>2, <2>6 DEF HookLetsThrough, view
<1> QED
  BY <1>1, GatedTypeCorrect, GatedImplementsChain, ChainImplementsHook, ListNeverStale, PTL

=============================================================================
