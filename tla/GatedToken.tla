----------------------------- MODULE GatedToken -----------------------------
(***************************************************************************)
(* Token-2022 mints whose TransferHook extension names a hook program,     *)
(* composed with the accounts that TransferHook reads.  The extension's    *)
(* authority may point a mint at another program, or at none (README.md    *)
(* "Upgrading"), while transfers are under way.  Token-2022 and the client *)
(* library are external: they are modelled from how the tests, the         *)
(* deployment scripts and transfer_hook rely on them.                      *)
(*                                                                         *)
(* A client resolves the account list when it builds a transfer and sends  *)
(* the transaction; anything may happen before it lands, and it may never  *)
(* land.  Token-2022 resolves the list again, debits the source and its    *)
(* allowance, and only then calls the hook, whose refusal undoes it all.   *)
(***************************************************************************)
EXTENDS TransferHook

CONSTANTS
    MaxSupply,   \* bound on the tokens minted
    MaxInFlight  \* bound on transactions sent and not yet landed

ASSUME GatedTokenAssumption ==
    /\ MaxSupply \in Nat /\ MaxInFlight \in Nat
    /\ NoDelegate \notin Wallets

VARIABLES
    extension,  \* TransferHook extension of each mint
    supply,     \* supply of each mint
    token,      \* token account of each wallet, for each mint
    sent        \* transactions built by clients, not landed yet

tokenVars == <<extension, supply, token, sent>>
gatedVars == <<chainVars, tokenVars>>

\* The default key in the place of the program stands for no hook at all.
TransferHookExtension == [authority : Wallets, program_id : Programs \cup {DefaultKey}]

Gated(m) == extension[m].program_id # DefaultKey

\* The hook that Token-2022 calls at present for a gated mint.
HookOf(m) == <<extension[m].program_id, m>>

TokenAccount == [amount : Nat, delegate : Wallets \cup {NoDelegate}, delegated_amount : Nat]

-----------------------------------------------------------------------------
UpdateTransferHook(m, authority, program) ==
    /\ extension[m].authority = authority
    /\ extension' = [extension EXCEPT ![m].program_id = program]
    /\ UNCHANGED <<chainVars, supply, token, sent>>

MintTo(m, authority, wallet) ==
    /\ mintAuthority[m] = authority
    /\ supply[m] < MaxSupply
    /\ supply' = [supply EXCEPT ![m] = @ + 1]
    /\ token' = [token EXCEPT ![m][wallet].amount = @ + 1]
    /\ UNCHANGED <<chainVars, extension, sent>>

WithDelegate(account, delegate, amount) ==
    [account EXCEPT !.delegate = delegate, !.delegated_amount = amount]

Approve(m, owner, delegate, amount) ==
    /\ token' = [token EXCEPT ![m][owner] = WithDelegate(@, delegate, amount)]
    /\ UNCHANGED <<chainVars, extension, supply, sent>>

Revoke(m, owner) ==
    /\ token' = [token EXCEPT ![m][owner] = WithDelegate(@, NoDelegate, 0)]
    /\ UNCHANGED <<chainVars, extension, supply, sent>>

-----------------------------------------------------------------------------
\* The accounts that the present list asks for, in order.
ResolvedAccounts(m, source, destination, authority) ==
    ResolveAccounts(HookOf(m), metaList[HookOf(m)], source, destination, authority)

\* createTransferCheckedWithTransferHookInstruction: a mint without a hook, or a hook
\* without a list, needs no further accounts as far as the client can see.
ClientAccounts(m, source, destination, authority) ==
    IF Gated(m) /\ metaList[HookOf(m)] # NoList
    THEN Range(ResolvedAccounts(m, source, destination, authority))
    ELSE {}

TransferOf(m, source, destination, authority, amount) ==
    [mint |-> m, source |-> source, destination |-> destination, authority |-> authority,
     amount |-> amount, accounts |-> ClientAccounts(m, source, destination, authority)]

BuildTransfer(m, source, destination, authority, amount) ==
    /\ source # destination
    /\ Cardinality(sent) < MaxInFlight
    /\ sent' = sent \cup {TransferOf(m, source, destination, authority, amount)}
    /\ UNCHANGED <<chainVars, extension, supply, token>>

\* Mutant: the allowance is not compared with the amount.
CanDebitBeyondAllowance(account, owner, authority, amount) ==
    /\ amount <= account.amount
    /\ account.delegate = authority \/ owner = authority

\* The delegate is matched before the owner.
CanDebit(account, owner, authority, amount) ==
    /\ amount <= account.amount
    /\ IF account.delegate = authority THEN amount <= account.delegated_amount
                                       ELSE owner = authority

\* An allowance that is used up is gone together with its delegate.
Debit(account, authority, amount) ==
    IF account.delegate = authority
    THEN [amount |-> account.amount - amount,
          delegate |-> IF amount = account.delegated_amount THEN NoDelegate
                                                            ELSE account.delegate,
          delegated_amount |-> account.delegated_amount - amount]
    ELSE [account EXCEPT !.amount = @ - amount]

\* The call of the hook, whose program and list are those of this moment.
HookLetsThrough(tx) ==
    LET debited == Debit(token[tx.mint][tx.source], tx.authority, tx.amount)
        resolved == ResolvedAccounts(tx.mint, tx.source, tx.destination, tx.authority)
    IN  /\ metaList[HookOf(tx.mint)] # NoList
        /\ Range(resolved) \subseteq tx.accounts
        /\ HookAccepts(HookOf(tx.mint), TransferHookAccounts(
               SourceView(tx.mint, tx.source, debited.delegate, debited.delegated_amount, TRUE),
               tx.mint, tx.authority, resolved))

\* Mutant: the accounts that a client brought along pass for the present ones.
CanTransferByOldHook(tx) ==
    /\ CanDebit(token[tx.mint][tx.source], tx.source, tx.authority, tx.amount)
    /\ Gated(tx.mint) =>
           \E h \in Hooks : MintOf(h) = tx.mint /\ Entitled(h, tx.authority)

CanTransfer(tx) ==
    /\ CanDebit(token[tx.mint][tx.source], tx.source, tx.authority, tx.amount)
    /\ Gated(tx.mint) => HookLetsThrough(tx)

TransferChecked(tx) ==
    /\ CanTransfer(tx)
    /\ token' = [token EXCEPT
           ![tx.mint][tx.source] = Debit(@, tx.authority, tx.amount),
           ![tx.mint][tx.destination].amount = @ + tx.amount]
    /\ sent' = sent \ {tx}
    /\ UNCHANGED <<chainVars, extension, supply>>

\* The transaction fails when it lands, or is lost and its blockhash expires.
DropTransfer(tx) ==
    /\ sent' = sent \ {tx}
    /\ UNCHANGED <<chainVars, extension, supply, token>>

-----------------------------------------------------------------------------
EmptyTokenAccount == [amount |-> 0, delegate |-> NoDelegate, delegated_amount |-> 0]

GatedInit ==
    /\ ChainInit
    /\ \E program \in [Mints -> Programs] :
           extension = [m \in Mints |->
               [authority |-> mintAuthority[m], program_id |-> program[m]]]
    /\ supply = [m \in Mints |-> 0]
    /\ token = [m \in Mints |-> [w \in Wallets |-> EmptyTokenAccount]]
    /\ sent = {}

GatedNext ==
    \/ ChainNext /\ UNCHANGED tokenVars
    \/ \E m \in Mints, owner \in Wallets :
           \/ \E program \in Programs \cup {DefaultKey} : UpdateTransferHook(m, owner, program)
           \/ \E signer \in Wallets : MintTo(m, signer, owner)
           \/ \E delegate \in Wallets, amount \in 0..MaxSupply :
                  Approve(m, owner, delegate, amount)
           \/ Revoke(m, owner)
           \/ \E destination, authority \in Wallets, amount \in 1..MaxSupply :
                  BuildTransfer(m, owner, destination, authority, amount)
    \/ \E tx \in sent : TransferChecked(tx) \/ DropTransfer(tx)

GatedSpec == GatedInit /\ [][GatedNext]_gatedVars

-----------------------------------------------------------------------------
(***************************************************************************)
(* Token accounts and transactions keep their layout; amounts never run    *)
(* below zero.                                                             *)
(***************************************************************************)
GatedTypeOK ==
    /\ ChainTypeOK
    /\ extension \in [Mints -> TransferHookExtension]
    /\ supply \in [Mints -> 0..MaxSupply]
    /\ token \in [Mints -> [Wallets -> TokenAccount]]
    /\ \A tx \in sent : tx.mint \in Mints /\ tx.source \in Wallets
                            /\ tx.destination \in Wallets \ {tx.source}
                            /\ tx.authority \in Wallets /\ tx.amount \in 1..MaxSupply

(***************************************************************************)
(* A transfer built against the present hook and list lands, for an        *)
(* entitled owner or an entitled delegate with allowance to spare: neither *)
(* updates of the config nor a move to another program lock them out.      *)
(* Without a hook it lands for any owner and delegate.                     *)
(***************************************************************************)
FreshTransferLands ==
    \A tx \in sent :
        LET account == token[tx.mint][tx.source]
        IN  /\ tx = TransferOf(tx.mint, tx.source, tx.destination, tx.authority, tx.amount)
            /\ CanDebit(account, tx.source, tx.authority, tx.amount)
            /\ Gated(tx.mint) =>
                   /\ metaList[HookOf(tx.mint)] # NoList
                   /\ Entitled(HookOf(tx.mint), tx.authority)
                   /\ tx.authority = tx.source \/ tx.amount < account.delegated_amount
            => CanTransfer(tx)

\* What each wallet may move out of a token account that is not its own.
AllowancesOf(account) ==
    [s \in Wallets |-> IF account.delegate = s THEN account.delegated_amount ELSE 0]

(***************************************************************************)
(* The gated token implements GatedLedger, with the wallets entitled under *)
(* the mint's present hook as the cleared ones: whatever was true when a   *)
(* transfer was built, it moves tokens only if its authority is entitled   *)
(* when it lands, under the program the mint names by then.                *)
(***************************************************************************)
Balance == [m \in Mints |-> [w \in Wallets |-> token[m][w].amount]]
Budget == [m \in Mints |-> [w \in Wallets |-> AllowancesOf(token[m][w])]]
Cleared == [m \in Mints |-> {w \in Wallets : Gated(m) => Entitled(HookOf(m), w)}]

Ledger == INSTANCE GatedLedger
              WITH Owners <- Wallets, balance <- Balance, budget <- Budget, cleared <- Cleared

\* Every transfer that Token-2022 and transfer_hook let through is a Move of the ledger:
\* by somebody cleared when it lands, out of their own account or within an allowance.
LedgerSpec == Ledger!Spec

=============================================================================
