------------------------- MODULE TransferHookProofs -------------------------
(***************************************************************************)
(* Proofs about TransferHook: the hook is sound whatever accounts it is    *)
(* called with, and time never entitles anybody.  Both rest on the type    *)
(* invariant and on PDAs of different programs or seeds being different.   *)
(* It is complete as well: what the list of the present config resolves to *)
(* is what the hook asks for.                                              *)
(***************************************************************************)
EXTENDS TransferHook, HookProgramProofs, SequenceTheorems

(***************************************************************************)
(* The layouts hold before anything exists.                                *)
(***************************************************************************)
LEMMA ChainTypeInit == ChainInit => ChainTypeOK
  BY HookTypeInit, TimeAssumption DEF ChainInit, ChainTypeOK

(***************************************************************************)
(* Every instruction, SAS operation and clock tick keeps the layouts.      *)
(***************************************************************************)
LEMMA ChainTypeStep == ChainTypeOK /\ [ChainNext]_chainVars => ChainTypeOK'
<1> SUFFICES ASSUME ChainTypeOK, [ChainNext]_chainVars
             PROVE  ChainTypeOK'
  OBVIOUS
<1> USE DEF ChainTypeOK
<1>0. UNCHANGED hookVars => HookTypeOK'
  BY HookTypeStep
<1>1. CASE HookNext /\ UNCHANGED <<sasVars, clock>>
  BY <1>1, HookTypeStep DEF sasVars
<1>2. ASSUME NEW issuer \in Issuers, NEW wallet \in Wallets, NEW signer \in Signers,
             NEW expiry \in Expiries, CreateAttestation(issuer, wallet, signer, expiry)
      PROVE  ChainTypeOK'
  <2>1. [well_formed |-> TRUE, signer |-> signer, expiry |-> expiry] \in AttestationData
    BY DEF AttestationData
  <2> QED
    BY <1>0, <1>2, <2>1 DEF CreateAttestation
<1>3. ASSUME NEW issuer \in Issuers, NEW wallet \in Wallets, CloseAttestation(issuer, wallet)
      PROVE  ChainTypeOK'
  BY <1>0, <1>3 DEF CloseAttestation
<1>4. ASSUME NEW issuer \in Issuers, NEW wallet \in Wallets, NEW data \in ForeignData,
             ForeignWrite(issuer, wallet, data)
      PROVE  ChainTypeOK'
  BY <1>0, <1>4, ForeignDataAssumption DEF ForeignWrite
<1>5. ASSUME NEW credential \in Credentials, NEW signers \in SUBSET Signers,
             ChangeAuthorizedSigners(credential, signers)
      PROVE  ChainTypeOK'
  BY <1>0, <1>5 DEF ChangeAuthorizedSigners
<1>6. CASE Tick
  BY <1>0, <1>6, TimeAssumption DEF Tick, sasVars
<1>7. CASE UNCHANGED chainVars
  BY <1>0, <1>7 DEF chainVars, sasVars
<1> QED
  BY <1>1, <1>2, <1>3, <1>4, <1>5, <1>6, <1>7 DEF ChainNext

(***************************************************************************)
(* All accounts that the hook reads keep their layouts, for any instance.  *)
(***************************************************************************)
THEOREM ChainTypeCorrect == ChainSpec => []ChainTypeOK
  BY ChainTypeInit, ChainTypeStep, PTL DEF ChainSpec

-----------------------------------------------------------------------------
(***************************************************************************)
(* An account at the whitelist address of a wallet that is owned by the    *)
(* hook program is that wallet's entry: no account of another kind, mint   *)
(* or deployment, and no attestation, can sit there.                       *)
(***************************************************************************)
LEMMA EntryIsOwn ==
    ASSUME ChainTypeOK, NEW h \in Hooks, NEW wallet \in Wallets,
           account_owner(whitelist_entry_address(h, wallet)) = ProgramOf(h)
    PROVE  wallet \in whitelist[h]
<1> DEFINE address == whitelist_entry_address(h, wallet)
<1>1. h = <<ProgramOf(h), MintOf(h)>> /\ ProgramOf(h) \in Programs
  BY DEF Hooks, ProgramOf, MintOf
<1>2. Exists(address)
  BY <1>1, DefaultKeyAssumption DEF account_owner
<1>3. address \notin AttestationAddresses
  BY DEF whitelist_entry_address, AttestationAddresses, AttestationOf, attestation_address,
         find_program_address
<1>4. PICK g \in Hooks :
          \/ address = config_address(g)
          \/ address = extra_account_meta_list_address(g)
          \/ \E w \in whitelist[g] : address = whitelist_entry_address(g, w)
  BY <1>2, <1>3 DEF Exists
<1>5. address # config_address(g) /\ address # extra_account_meta_list_address(g)
  BY DEF whitelist_entry_address, config_address, extra_account_meta_list_address,
         find_program_address
<1>6. PICK w \in whitelist[g] : address = whitelist_entry_address(g, w)
  BY <1>4, <1>5
<1>7. ProgramOf(h) = ProgramOf(g) /\ MintOf(h) = MintOf(g) /\ wallet = w
  BY <1>6 DEF whitelist_entry_address, find_program_address
<1>8. h = g
  BY <1>1, <1>7 DEF Hooks, ProgramOf, MintOf
<1> QED
  BY <1>6, <1>7, <1>8

(***************************************************************************)
(* Whatever the call's other accounts are, known addresses or not, an      *)
(* accepted authority is entitled.                                         *)
(***************************************************************************)
LEMMA AcceptedIsEntitled ==
    ASSUME ChainTypeOK, NEW h \in Hooks, NEW call, call.transfer_authority \in Wallets,
           HookAccepts(h, call)
    PROVE  Entitled(h, call.transfer_authority)
<1> DEFINE wallet == call.transfer_authority
<1>1. config[h] # NoConfig
  BY DEF HookAccepts
<1>2. CASE account_owner(call.whitelist_entry) = ProgramOf(h)
  <2>1. wallet \in whitelist[h]
    BY <1>2, EntryIsOwn DEF HookAccepts
  <2> QED
    BY <1>1, <2>1 DEF Entitled
<1>3. CASE account_owner(call.whitelist_entry) # ProgramOf(h)
  <2>1. AttestationVerified(config[h].issuer, call)
    BY <1>3 DEF HookAccepts
  <2> QED
    BY <1>1, <2>1 DEF AttestationVerified, HasAttestationLayout, NotExpired, Entitled, Attested
<1> QED
  BY <1>2, <1>3

(***************************************************************************)
(* Soundness of transfer_hook in every reachable state.                    *)
(***************************************************************************)
THEOREM HookIsSound == ChainSpec => []HookSound
<1>1. ChainTypeOK => HookSound
  <2> SUFFICES ASSUME ChainTypeOK, NEW h \in Hooks, NEW wallet \in Wallets,
                      NEW issuer \in Issuers, NEW att \in Addresses, NEW entry \in Addresses,
                      HookAccepts(h, CallWith(h, wallet, issuer, att, entry))
               PROVE  Entitled(h, wallet)
    BY DEF HookSound
  <2>1. CallWith(h, wallet, issuer, att, entry).transfer_authority = wallet
    BY DEF CallWith
  <2> QED
    BY <2>1, AcceptedIsEntitled
<1> QED
  BY <1>1, ChainTypeCorrect, PTL

(***************************************************************************)
(* HookSound is about the owner's own transfers with any accounts that the *)
(* program, SAS or the lists know.  It holds of every call at all: by a    *)
(* delegate, outside a transfer, with accounts of addresses that nobody    *)
(* derives.  What is accepted is a transfer of the mint's own tokens that  *)
(* Token-2022 is making, by the owner or a delegate with allowance left,   *)
(* who is entitled.                                                        *)
(***************************************************************************)
EveryCallSound ==
    \A h \in Hooks, wallet \in Wallets : \A call :
        call.transfer_authority = wallet /\ HookAccepts(h, call) =>
            /\ Entitled(h, wallet)
            /\ call.source.transferring
            /\ call.source.mint = MintOf(h) /\ call.destination_mint = MintOf(h)
            /\ \/ call.source.owner = wallet
               \/ call.source.delegate = wallet /\ call.source.delegated_amount > 0

(***************************************************************************)
(* No accounts whatever make transfer_hook accept somebody not entitled.   *)
(***************************************************************************)
THEOREM NoCallIsForged == ChainSpec => []EveryCallSound
<1>1. ChainTypeOK => EveryCallSound
  <2> SUFFICES ASSUME ChainTypeOK, NEW h \in Hooks, NEW wallet \in Wallets, NEW call,
                      call.transfer_authority = wallet, HookAccepts(h, call)
               PROVE  /\ Entitled(h, wallet)
                      /\ call.source.transferring
                      /\ call.source.mint = MintOf(h) /\ call.destination_mint = MintOf(h)
                      /\ \/ call.source.owner = wallet
                         \/ call.source.delegate = wallet /\ call.source.delegated_amount > 0
    BY DEF EveryCallSound
  <2>1. Entitled(h, wallet)
    BY AcceptedIsEntitled
  <2>2. /\ call.source.transferring
        /\ call.source.mint = MintOf(h) /\ call.destination_mint = MintOf(h)
        /\ is_direct_owner(call) \/ is_approved_delegate(call)
    BY DEF HookAccepts, assert_is_transferring, AreTokenAccountsOf
  <2> QED
    BY <2>1, <2>2 DEF is_direct_owner, is_approved_delegate
<1> QED
  BY <1>1, ChainTypeCorrect, PTL

(***************************************************************************)
(* The clock alone never makes transfer_hook accept a call it refused.     *)
(***************************************************************************)
LEMMA TickOpensNothing ==
    ASSUME ChainTypeOK, Tick, NEW h \in Hooks, NEW call, HookAccepts(h, call)'
    PROVE  HookAccepts(h, call)
<1> DEFINE issuer == config[h].issuer
           a == call.attestation
<1>1. /\ UNCHANGED <<config, metaList, whitelist, attestation>>
      /\ clock \in Int /\ clock' = clock + 1
  BY DEF Tick, hookVars, sasVars, ChainTypeOK
<1>2. \A address : account_owner(address)' = account_owner(address)
  BY <1>1 DEF account_owner, Exists
<1>3. \A address : HasAttestationLayout(address)' = HasAttestationLayout(address)
  BY <1>1 DEF HasAttestationLayout
<1>4. AttestationVerified(issuer, call)' => AttestationVerified(issuer, call)
  <2> SUFFICES ASSUME AttestationVerified(issuer, call)'
               PROVE  AttestationVerified(issuer, call)
    OBVIOUS
  <2>1. HasAttestationLayout(a) /\ NotExpired(attestation[a].expiry)'
    BY <1>3 DEF AttestationVerified
  <2>2. attestation[a].expiry \in Int
    BY <2>1, TimeAssumption DEF HasAttestationLayout, ChainTypeOK, AttestationData
  <2>3. NotExpired(attestation[a].expiry)
    BY <1>1, <2>1, <2>2 DEF NotExpired
  <2> QED
    BY <1>1, <1>2, <2>1, <2>3 DEF AttestationVerified
<1> QED
  BY <1>1, <1>2, <1>4 DEF HookAccepts

(***************************************************************************)
(* No transfer is let through by waiting.                                  *)
(***************************************************************************)
THEOREM TimeNeverEntitles == ChainSpec => TimeOnlyRevokes
<1>1. ChainTypeOK /\ [ChainNext]_chainVars =>
          (clock' # clock =>
               \A h \in Hooks, owner \in Wallets :
                   config[h] # NoConfig /\ HookAccepts(h, OwnCall(h, owner))'
                   => HookAccepts(h, OwnCall(h, owner)))
  <2> SUFFICES ASSUME ChainTypeOK, [ChainNext]_chainVars, clock' # clock,
                      NEW h \in Hooks, NEW owner \in Wallets,
                      HookAccepts(h, OwnCall(h, owner))'
               PROVE  HookAccepts(h, OwnCall(h, owner))
    OBVIOUS
  <2>1. Tick
    BY DEF ChainNext, chainVars, CreateAttestation, CloseAttestation, ForeignWrite,
           ChangeAuthorizedSigners
  <2>2. /\ UNCHANGED config
        /\ \A call : HookAccepts(h, call)' => HookAccepts(h, call)
    BY <2>1, TickOpensNothing DEF Tick, hookVars
  <2> QED
    BY <2>2 DEF OwnCall, CallWith
<1> QED
  BY <1>1, ChainTypeCorrect, PTL DEF ChainSpec, TimeOnlyRevokes

-----------------------------------------------------------------------------
(***************************************************************************)
(* Resolution of a list of six entries (ResolveAccounts), step by step:    *)
(* the recursive function unfolds.                                         *)
(***************************************************************************)
LEMMA ResolutionUnrolled ==
    ASSUME NEW h, NEW list, Len(list) = 6, NEW source, NEW destination, NEW authority
    PROVE  LET next(accounts, n) == Append(accounts, ResolveMeta(ProgramOf(h), accounts, list[n]))
               start == <<source, MintOf(h), destination, authority,
                          extra_account_meta_list_address(h)>>
           IN  ResolveAccounts(h, list, source, destination, authority)
                   = next(next(next(next(next(next(start, 1), 2), 3), 4), 5), 6)
<1> DEFINE next(before, n) == Append(before, ResolveMeta(ProgramOf(h), before, list[n]))
           s0 == <<source, MintOf(h), destination, authority, extra_account_meta_list_address(h)>>
           s1 == next(s0, 1)
           s2 == next(s1, 2)
           s3 == next(s2, 3)
           s4 == next(s3, 4)
           s5 == next(s4, 5)
           s6 == next(s5, 6)
           witness == [n \in 0..6 |-> IF n = 0 THEN s0 ELSE IF n = 1 THEN s1
                        ELSE IF n = 2 THEN s2 ELSE IF n = 3 THEN s3 ELSE IF n = 4 THEN s4
                        ELSE IF n = 5 THEN s5 ELSE s6]
           accounts == CHOOSE f : f = [n \in 0..Len(list) |-> IF n = 0 THEN s0 ELSE next(f[n - 1], n)]
<1> HIDE DEF next, s0
<1>1. witness = [n \in 0..6 |-> IF n = 0 THEN s0 ELSE next(witness[n - 1], n)]
  <2> SUFFICES ASSUME NEW n \in 0..6
               PROVE witness[n] = IF n = 0 THEN s0 ELSE next(witness[n - 1], n)
    OBVIOUS
  <2>1. n \in {0, 1, 2, 3, 4, 5, 6}
    OBVIOUS
  <2> QED BY <2>1
<1>2. accounts = [n \in 0..6 |-> IF n = 0 THEN s0 ELSE next(accounts[n - 1], n)]
  BY <1>1
<1> HIDE DEF accounts
<1>3. accounts[6] = s6
  BY <1>2
<1> QED BY <1>3 DEF accounts, ResolveAccounts, next, s0

(***************************************************************************)
(* What the three shapes of seeds in the account list resolve to, from any *)
(* accounts before them.                                                   *)
(***************************************************************************)
LEMMA SeedsResolved ==
    ASSUME NEW accounts, NEW bytes
    PROVE  /\ ResolveSeeds(<<Literal(bytes), AccountKey(1)>>, accounts) = <<bytes, accounts[2]>>
           /\ ResolveSeeds(<<Literal(bytes), AccountKey(1), AccountKey(3)>>, accounts)
                  = <<bytes, accounts[2], accounts[4]>>
           /\ ResolveSeeds(<<Literal(bytes), AccountKey(6), AccountKey(7), AccountKey(3)>>, accounts)
                  = <<bytes, accounts[7], accounts[8], accounts[4]>>
<1> USE DEF Literal, AccountKey, ResolveSeeds
<1>1. ResolveSeeds(<<Literal(bytes), AccountKey(1)>>, accounts) = <<bytes, accounts[2]>>
  OBVIOUS
<1>2. ResolveSeeds(<<Literal(bytes), AccountKey(1), AccountKey(3)>>, accounts)
                  = <<bytes, accounts[2], accounts[4]>>
  OBVIOUS
<1>3. ResolveSeeds(<<Literal(bytes), AccountKey(6), AccountKey(7), AccountKey(3)>>, accounts)
                  = <<bytes, accounts[7], accounts[8], accounts[4]>>
  OBVIOUS
<1> QED BY <1>1, <1>2, <1>3

(***************************************************************************)
(* What each kind of entry resolves to (ResolveMeta).                      *)
(***************************************************************************)
LEMMA MetaResolved ==
    ASSUME NEW program, NEW accounts, NEW seeds, NEW index, NEW key
    PROVE  /\ ResolveMeta(program, accounts, new_with_pubkey(key)) = key
           /\ ResolveMeta(program, accounts, new_with_seeds(seeds))
                  = find_program_address(program, ResolveSeeds(seeds, accounts))
           /\ ResolveMeta(program, accounts, new_external_pda_with_seeds(index, seeds))
                  = find_program_address(accounts[index + 1], ResolveSeeds(seeds, accounts))
<1>1. ResolveMeta(program, accounts, new_with_pubkey(key)) = key
  BY DEF ResolveMeta, new_with_pubkey
<1>2. ResolveMeta(program, accounts, new_with_seeds(seeds))
          = find_program_address(program, ResolveSeeds(seeds, accounts))
  BY DEF ResolveMeta, new_with_seeds
<1>3. ResolveMeta(program, accounts, new_external_pda_with_seeds(index, seeds))
          = find_program_address(accounts[index + 1], ResolveSeeds(seeds, accounts))
  BY DEF ResolveMeta, new_external_pda_with_seeds
<1> QED
  BY <1>1, <1>2, <1>3

(***************************************************************************)
(* A prefix of a sequence grows by the next element.                       *)
(***************************************************************************)
LEMMA PrefixGrows ==
    ASSUME NEW S, NEW seq \in Seq(S), NEW n \in Nat, n < Len(seq)
    PROVE  Append(SubSeq(seq, 1, n), seq[n + 1]) = SubSeq(seq, 1, n + 1)
<1>1. \A i \in 1..Len(seq) : seq[i] \in S
  BY ElementOfSeq
<1>2. /\ SubSeq(seq, 1, n) \in Seq(S)
      /\ Len(SubSeq(seq, 1, n)) = n
      /\ \A i \in 1..n : SubSeq(seq, 1, n)[i] = seq[i]
  <2>1. \A i \in 1..n : seq[i] \in S
    BY <1>1, LenProperties
  <2> QED
    BY <2>1, SubSeqProperties
<1>3. /\ SubSeq(seq, 1, n + 1) \in Seq(S)
      /\ Len(SubSeq(seq, 1, n + 1)) = n + 1
      /\ \A i \in 1..(n + 1) : SubSeq(seq, 1, n + 1)[i] = seq[i]
  <2>1. \A i \in 1..(n + 1) : seq[i] \in S
    BY <1>1, LenProperties
  <2> QED
    BY <2>1, SubSeqProperties
<1>4. /\ Append(SubSeq(seq, 1, n), seq[n + 1]) \in Seq(S)
      /\ Len(Append(SubSeq(seq, 1, n), seq[n + 1])) = n + 1
      /\ \A i \in 1..n : Append(SubSeq(seq, 1, n), seq[n + 1])[i] = seq[i]
      /\ Append(SubSeq(seq, 1, n), seq[n + 1])[n + 1] = seq[n + 1]
  <2>1. seq[n + 1] \in S
    BY <1>1, LenProperties
  <2> QED
    BY <1>2, <2>1, AppendProperties
<1>5. \A i \in 1..(n + 1) : Append(SubSeq(seq, 1, n), seq[n + 1])[i] = SubSeq(seq, 1, n + 1)[i]
  BY <1>3, <1>4
<1> QED
  BY <1>3, <1>4, <1>5, SeqEqual

\* The accounts of a transfer, in the order of struct TransferHook.
ResolvedList(h, issuer, source, destination, authority) ==
    << source, MintOf(h), destination, authority, extra_account_meta_list_address(h),
       config_address(h), issuer.credential, issuer.schema, issuer.sas_program,
       AttestationOf(issuer, authority), whitelist_entry_address(h, authority) >>

(***************************************************************************)
(* The list that both instructions write resolves to exactly the accounts  *)
(* that struct TransferHook names: the config of this hook, the issuer's   *)
(* keys, and the authority's own attestation and whitelist entry.          *)
(***************************************************************************)
LEMMA ListResolves ==
    ASSUME NEW h, NEW issuer, NEW source, NEW destination, NEW authority
    PROVE  ResolveAccounts(h, InitialAccountMetas(issuer), source, destination, authority)
               = ResolvedList(h, issuer, source, destination, authority)
<1> DEFINE list == InitialAccountMetas(issuer)
           all == ResolvedList(h, issuer, source, destination, authority)
           S == {all[i] : i \in 1..11}
           next(before, n) == Append(before, ResolveMeta(ProgramOf(h), before, list[n]))
           s0 == <<source, MintOf(h), destination, authority, extra_account_meta_list_address(h)>>
           s(n) == SubSeq(all, 1, 5 + n)
<1>0. Len(list) = 6
  BY DEF InitialAccountMetas
<1>1. all \in Seq(S) /\ Len(all) = 11
  BY DEF ResolvedList
<1>2. /\ all[2] = MintOf(h) /\ all[4] = authority /\ all[6] = config_address(h)
      /\ all[7] = issuer.credential /\ all[8] = issuer.schema /\ all[9] = issuer.sas_program
      /\ all[10] = AttestationOf(issuer, authority)
      /\ all[11] = whitelist_entry_address(h, authority)
  BY DEF ResolvedList
<1>3. s(0) = s0 /\ s(6) = all
  <2>1. s(6) = all
    BY <1>1, SubSeqFull
  <2>2. /\ all[1] = source /\ all[3] = destination
        /\ all[5] = extra_account_meta_list_address(h)
    BY DEF ResolvedList
  <2>3. s(0) = s0
    <3>1. \A i \in 1..5 : all[i] \in S
      OBVIOUS
    <3> HIDE DEF all, S
    <3>2. /\ SubSeq(all, 1, 5) \in Seq(S) /\ Len(SubSeq(all, 1, 5)) = 5
          /\ \A i \in 1..5 : SubSeq(all, 1, 5)[i] = all[i]
      BY <3>1, SubSeqProperties
    <3>3. /\ s0 \in Seq(S) /\ Len(s0) = 5
          /\ \A i \in 1..5 : s0[i] = all[i]
      <4>1. s0[1] = all[1] /\ s0[2] = all[2] /\ s0[3] = all[3] /\ s0[4] = all[4] /\ s0[5] = all[5]
        BY <1>2, <2>2
      <4>2. s0 \in Seq(S) /\ Len(s0) = 5
        BY <1>2, <2>2, <3>1
      <4> HIDE DEF s0
      <4> QED
        BY <4>1, <4>2
    <3> HIDE DEF s0
    <3> QED
      BY <3>2, <3>3, SeqEqual
  <2> QED
    BY <2>1, <2>3
<1> HIDE DEF all
<1>4. \A n \in 0..5 : \A i \in 1..(5 + n) : s(n)[i] = all[i]
  <2>1. \A i \in 1..11 : all[i] \in S
    OBVIOUS
  <2> HIDE DEF S
  <2> SUFFICES ASSUME NEW n \in 0..5, NEW i \in 1..(5 + n)
               PROVE  s(n)[i] = all[i]
    OBVIOUS
  <2>2. \A j \in 1..(5 + n) : all[j] \in S
    BY <2>1
  <2> QED
    BY <2>2, SubSeqProperties
<1> HIDE DEF S
<1>5. \A n \in 0..5 : Append(s(n), all[5 + n + 1]) = s(n + 1)
  <2> SUFFICES ASSUME NEW n \in 0..5
               PROVE  Append(SubSeq(all, 1, 5 + n), all[(5 + n) + 1]) = SubSeq(all, 1, (5 + n) + 1)
    OBVIOUS
  <2> QED
    BY <1>1, PrefixGrows
<1> HIDE DEF s
<1>6. ResolveMeta(ProgramOf(h), s(0), list[1]) = all[6]
  <2>1. list[1] = new_with_seeds(<<Literal("config"), AccountKey(1)>>)
    BY DEF InitialAccountMetas
  <2>2. ResolveSeeds(<<Literal("config"), AccountKey(1)>>, s(0)) = <<"config", MintOf(h)>>
    <3>1. s(0)[2] = MintOf(h)
      BY <1>2, <1>4
    <3> QED
      BY <3>1, SeedsResolved
  <2> QED
    BY <1>2, <2>1, <2>2, MetaResolved DEF config_address
<1>7. /\ ResolveMeta(ProgramOf(h), s(1), list[2]) = all[7]
      /\ ResolveMeta(ProgramOf(h), s(2), list[3]) = all[8]
      /\ ResolveMeta(ProgramOf(h), s(3), list[4]) = all[9]
  BY <1>2, MetaResolved DEF InitialAccountMetas
<1>8. ResolveMeta(ProgramOf(h), s(4), list[5]) = all[10]
  <2> DEFINE seeds == <<Literal("attestation"), AccountKey(6), AccountKey(7), AccountKey(3)>>
  <2>1. list[5] = new_external_pda_with_seeds(8, seeds)
    BY DEF InitialAccountMetas
  <2>2. ResolveSeeds(seeds, s(4)) = <<"attestation", issuer.credential, issuer.schema, authority>>
    <3>1. s(4)[4] = authority /\ s(4)[7] = issuer.credential /\ s(4)[8] = issuer.schema
      BY <1>2, <1>4
    <3> QED
      BY <3>1, SeedsResolved
  <2>3. s(4)[8 + 1] = issuer.sas_program
    BY <1>2, <1>4
  <2> HIDE DEF seeds
  <2> QED
    BY <1>2, <2>1, <2>2, <2>3, MetaResolved DEF AttestationOf, attestation_address
<1>9. ResolveMeta(ProgramOf(h), s(5), list[6]) = all[11]
  <2> DEFINE seeds == <<Literal("whitelist"), AccountKey(1), AccountKey(3)>>
  <2>1. list[6] = new_with_seeds(seeds)
    BY DEF InitialAccountMetas
  <2>2. ResolveSeeds(seeds, s(5)) = <<"whitelist", MintOf(h), authority>>
    <3>1. s(5)[2] = MintOf(h) /\ s(5)[4] = authority
      BY <1>2, <1>4
    <3> QED
      BY <3>1, SeedsResolved
  <2> HIDE DEF seeds
  <2> QED
    BY <1>2, <2>1, <2>2, MetaResolved DEF whitelist_entry_address
<1> HIDE DEF list
<1>10. /\ next(s(0), 1) = s(1) /\ next(s(1), 2) = s(2) /\ next(s(2), 3) = s(3)
       /\ next(s(3), 4) = s(4) /\ next(s(4), 5) = s(5) /\ next(s(5), 6) = s(6)
  <2>1a. Append(s(0), all[6]) = s(1)
    <3>1. 0 \in 0..5 /\ 5 + 0 + 1 = 6 /\ 0 + 1 = 1
      OBVIOUS
    <3> QED
      BY <3>1, <1>5
  <2>1b. Append(s(1), all[7]) = s(2)
    <3>1. 1 \in 0..5 /\ 5 + 1 + 1 = 7 /\ 1 + 1 = 2
      OBVIOUS
    <3> QED
      BY <3>1, <1>5
  <2>1c. Append(s(2), all[8]) = s(3)
    <3>1. 2 \in 0..5 /\ 5 + 2 + 1 = 8 /\ 2 + 1 = 3
      OBVIOUS
    <3> QED
      BY <3>1, <1>5
  <2>1d. Append(s(3), all[9]) = s(4)
    <3>1. 3 \in 0..5 /\ 5 + 3 + 1 = 9 /\ 3 + 1 = 4
      OBVIOUS
    <3> QED
      BY <3>1, <1>5
  <2>1e. Append(s(4), all[10]) = s(5)
    <3>1. 4 \in 0..5 /\ 5 + 4 + 1 = 10 /\ 4 + 1 = 5
      OBVIOUS
    <3> QED
      BY <3>1, <1>5
  <2>1f. Append(s(5), all[11]) = s(6)
    <3>1. 5 \in 0..5 /\ 5 + 5 + 1 = 11 /\ 5 + 1 = 6
      OBVIOUS
    <3> QED
      BY <3>1, <1>5
  <2>3. next(s(0), 1) = s(1) /\ next(s(1), 2) = s(2) /\ next(s(2), 3) = s(3)
    BY <1>6, <1>7, <2>1a, <2>1b, <2>1c
  <2>4. next(s(3), 4) = s(4) /\ next(s(4), 5) = s(5) /\ next(s(5), 6) = s(6)
    BY <1>7, <1>8, <1>9, <2>1d, <2>1e, <2>1f
  <2> QED
    BY <2>3, <2>4
<1>11. ResolveAccounts(h, list, source, destination, authority)
           = next(next(next(next(next(next(s0, 1), 2), 3), 4), 5), 6)
  BY <1>0, ResolutionUnrolled
<1> HIDE DEF next, s0
<1>12. ResolveAccounts(h, list, source, destination, authority) = all
  BY <1>3, <1>10, <1>11
<1> QED
  BY <1>12 DEF list, all

(***************************************************************************)
(* With those accounts transfer_hook accepts every entitled authority that *)
(* owns the tokens or is a delegate with allowance left: no account it     *)
(* compares differs from what the list resolves to.                        *)
(***************************************************************************)
LEMMA ResolvedIsAccepted ==
    ASSUME ChainTypeOK, MetaListMatchesConfig, NEW h \in Hooks, NEW wallet \in Wallets,
           metaList[h] # NoList, Entitled(h, wallet), NEW source, NEW destination,
           NEW view, view.transferring, view.mint = MintOf(h),
           view.owner = wallet \/ (view.delegate = wallet /\ view.delegated_amount > 0)
    PROVE  HookAccepts(h, TransferHookAccounts(view, MintOf(h), wallet,
               ResolveAccounts(h, metaList[h], source, destination, wallet)))
<1> DEFINE issuer == config[h].issuer
           all == ResolvedList(h, issuer, source, destination, wallet)
           call == TransferHookAccounts(view, MintOf(h), wallet, all)
           a == AttestationOf(issuer, wallet)
<1>1. config[h] # NoConfig /\ metaList[h] = InitialAccountMetas(issuer)
  BY DEF MetaListMatchesConfig
<1>2. ResolveAccounts(h, metaList[h], source, destination, wallet) = all
  BY <1>1, ListResolves
<1>3. /\ call.source = view /\ call.transfer_authority = wallet
      /\ call.destination_mint = MintOf(h)
      /\ call.extra_account_meta_list = extra_account_meta_list_address(h)
      /\ call.config = config_address(h)
      /\ call.credential = issuer.credential /\ call.schema = issuer.schema
      /\ call.sas_program = issuer.sas_program
      /\ call.attestation = a
      /\ call.whitelist_entry = whitelist_entry_address(h, wallet)
  BY DEF TransferHookAccounts, ResolvedList
<1> HIDE DEF call
<1>4. account_owner(call.whitelist_entry) # ProgramOf(h) => AttestationVerified(issuer, call)
  <2> SUFFICES ASSUME account_owner(call.whitelist_entry) # ProgramOf(h)
               PROVE  AttestationVerified(issuer, call)
    OBVIOUS
  <2>1. wallet \notin whitelist[h]
    <3> SUFFICES ASSUME wallet \in whitelist[h]
                 PROVE  account_owner(whitelist_entry_address(h, wallet)) = ProgramOf(h)
      BY <1>3
    <3> QED
      BY DEF account_owner, Exists, whitelist_entry_address, find_program_address
  <2>2. HasAttestationLayout(a) /\ NotExpired(attestation[a].expiry)
    <3>1. a \in AttestationAddresses
      BY <1>1, NoConfigAssumption DEF AttestationAddresses, ChainTypeOK, HookTypeOK, HookConfig
    <3>2. attestation[a] # NoAttestation /\ attestation[a].well_formed
      BY <2>1 DEF Entitled, Attested
    <3>3. NotExpired(attestation[a].expiry)
      BY <2>1 DEF Entitled, Attested, NotExpired
    <3> QED
      BY <3>1, <3>2, <3>3 DEF HasAttestationLayout
  <2>3. account_owner(a) = issuer.sas_program
    <3>1. Exists(a)
      BY <2>2 DEF Exists, HasAttestationLayout
    <3> QED
      BY <3>1 DEF account_owner, AttestationOf, attestation_address, find_program_address
  <2> QED
    BY <1>3, <2>2, <2>3 DEF AttestationVerified
<1>5. is_direct_owner(call) \/ is_approved_delegate(call)
  BY <1>3 DEF is_direct_owner, is_approved_delegate
<1>6. HookAccepts(h, call)
  BY <1>1, <1>3, <1>4, <1>5 DEF HookAccepts, assert_is_transferring, AreTokenAccountsOf
<1> QED
  BY <1>2, <1>6 DEF call

(***************************************************************************)
(* Seen from the program's own accounts, everything else on the chain is a *)
(* stutter: its invariants hold in the composition.                        *)
(***************************************************************************)
LEMMA ChainImplementsHook == ChainSpec => HookSpec
<1>1. ChainInit => HookInit
  BY DEF ChainInit
<1>2. [ChainNext]_chainVars => [HookNext]_hookVars
  BY DEF ChainNext, chainVars, CreateAttestation, CloseAttestation, ForeignWrite,
         ChangeAuthorizedSigners, Tick
<1> QED
  BY <1>1, <1>2, PTL DEF ChainSpec, HookSpec

(***************************************************************************)
(* Completeness of transfer_hook in every reachable state: the list of the *)
(* present config is the one that resolution starts from (HookProgram's    *)
(* MetaListMatchesConfig), and what it resolves to is accepted.            *)
(***************************************************************************)
THEOREM HookIsComplete == ChainSpec => []HookComplete
<1>1. ChainTypeOK /\ MetaListMatchesConfig => HookComplete
  <2> SUFFICES ASSUME ChainTypeOK, MetaListMatchesConfig,
                      NEW h \in Hooks, NEW wallet \in Wallets, NEW destination \in Wallets,
                      metaList[h] # NoList, Entitled(h, wallet)
               PROVE  HookAccepts(h, ResolvedCall(h, wallet, destination))
    BY DEF HookComplete
  <2> DEFINE view == SourceView(MintOf(h), wallet, NoDelegate, 0, TRUE)
  <2>1. view.transferring /\ view.owner = wallet /\ view.mint = MintOf(h)
    BY DEF SourceView
  <2> HIDE DEF view
  <2>2. HookAccepts(h, TransferHookAccounts(view, MintOf(h), wallet,
            ResolveAccounts(h, metaList[h], wallet, destination, wallet)))
    BY <2>1, ResolvedIsAccepted
  <2> QED
    BY <2>2 DEF view, ResolvedCall
<1> QED
  BY <1>1, ChainTypeCorrect, ChainImplementsHook, ListNeverStale, PTL

=============================================================================
