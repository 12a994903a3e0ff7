# A TLA+ model of the Alien ID transfer hook

Tokens of a gated mint move only between a wallet that proves an Alien ID, or is
whitelisted, and anybody. The rule is enforced by a Solana program
(`programs/alien-id-transfer-hook`) that Token-2022 calls on every transfer; it
is set up and administered by scripts (`deploy/`), a CLI (`admin-cli/`) and a
TypeScript SDK (`sdk/`). This directory models the program, the token it gates
and the people who administer it, checks the models with TLC and proves the
results that matter most with TLAPS.

Paths below are relative to the repository; program files are named without
their directory `programs/alien-id-transfer-hook/src/`.

## The system

| Component | State | Operations | What is hard |
|---|---|---|---|
| Hook program, administration (`instructions/*.rs`, `state/`) | per mint and program: `HookConfig` (authority, pending authority, credential, schema, attestation program), the `ExtraAccountMetaList` that bakes three of those keys in, one `WhitelistEntry` per exempt wallet | `initialize_config`, `initialize_extra_account_meta_list`, `update_config`, `transfer_authority`, `accept_authority`, `add_to_whitelist`, `remove_from_whitelist` | two copies of the list's table; two signers and a two-step handover; mint authority and config authority drift apart |
| Hook program, `transfer_hook` | none of its own | accepts or refuses a transfer, given the accounts of the call | the caller picks the accounts; the token account is read after the debit; expiry; any key may be named as attestation program |
| Token-2022 with the hook | token accounts, allowances, mint, the extension that names the hook program | mint, approve, revoke, point the mint at another program or none, transfer (resolves the list, debits, calls the hook, undoes everything on refusal) | transfers are built against one state, and one program, and land in another |
| Solana Attestation Service (external) | attestations, authorised signers of a credential | create (checks the data field against the schema), close, change signers | an attestation outlives what justified it; its expiry lies behind a field of variable length |
| Deployment scripts (`deploy/1,2,3,5,6`) | nothing but what is on chain | create the mint, set the hook up, hand authorities over, move the mint to another program | several transactions per script, crashes and lost confirmations between them, started again from the top, late transactions |
| Admin CLI (`admin-cli/src`) | none | one transaction per command; `info` reads config and list | the same, without a look at the chain first; `info` reads twice and takes every failure for absence |
| SDK (`sdk/`) | none | instruction builders, PDAs, attestation encoding | must agree with the program on addresses and layouts |
| Credential signer, session registry (external, `idl/`) | – | issue attestations | outside this repository |

They interact through accounts only: clients build transactions, the runtime
executes each atomically and serialises those that touch the same accounts,
Token-2022 calls `transfer_hook` in the middle of a transfer. So an instruction
is one step of the model, a check that fails is a guard that is false, and
concurrency lives between transactions: between a client's look at the chain and
the landing of what it sent, and between the transactions of one script.

## The modules

| Module | Models | Builds on |
|---|---|---|
| `HookAccounts` | keys, PDAs, entries of the account list | – |
| `HookProgram` | the seven administrative instructions | `HookAccounts` |
| `AuthorityHandover` | abstract: an office that passes only to its nominee | – |
| `TransferHook` | the `transfer_hook` handler as the predicate `HookAccepts`, list resolution, attestations, clock | `HookProgram` |
| `AttestationLayout` | the bytes of an attestation account and the parser of `transfer_hook.rs:141-170` | – |
| `AttestationView` | the bytes of `AttestationLayout` seen as an attestation of `TransferHook`: a refinement mapping | `AttestationLayout`, `TransferHook` |
| `AlienIdAttestation` | the SDK's encoder of the data field, SAS's check of it, a reader | `AttestationLayout` |
| `GatedToken` | Token-2022 with the hook, moves between hook programs; transfers in flight | `TransferHook` |
| `GatedLedger` | abstract: a ledger where only cleared owners move tokens, their own or within an allowance | – |
| `Deployment` | scripts and CLI commands as sequences of transactions, crashes, stray transactions | `HookProgram` |
| `AdminInfo` | the CLI's `info`: two reads, each of which may fail, among instructions | `HookProgram` |
| `MC*` | instances for TLC and the statements that violation runs refute | |
| `*Proofs` | theorems | |

**State and actions.** `config`, `metaList` and `whitelist` are indexed by a hook,
a pair of program and mint, because every PDA is derived from both. A PDA is
modelled as the pair of its program and seeds: all seed lists in the code start
with a fixed literal followed by 32-byte keys, so different lists are different
byte strings. Bumps and account discriminators carry no information then and are
left out. `mintAuthority` is Token-2022's. Each action is named after its
handler and has the handler's constraints and `require!`s as guards. `InitialAccountMetas`
and `UpdatedAccountMetas` are the two copies of the account table, translated
separately. `ZeroedList` is a list account with space and no entry: the handlers
never leave one behind, and a mutant shows that the invariants would notice.

`HookAccepts(h, call)` follows `transfer_hook.rs` check by check, with the early
return for whitelist entries. A `call` is the struct of accounts the handler
receives: from Token-2022 those that `ResolveAccounts` finds by interpreting the
list, from anybody else any addresses. Source and destination come with the mint they are
accounts of (`AreTokenAccountsOf`). `account_owner` says which program owns
the account at an address: the PDA's own program when it exists and the system
program, whose address is `Pubkey::default()`, otherwise.

`TransferHook` knows two things of an attestation's bytes: whether they have the
layout, and which expiry they hold. `AttestationLayout` is the bytes themselves, and
its `IsAttestation` and `ExpiryRead` are those two, as `AttestationView` shows by making
them the refinement mapping: integers as little-endian bytes
and two's complement, slices at computed offsets, each length check before the read
it guards, for accounts that SAS writes and for accounts of any other program, which
are allocated, resized and written a byte at a time. Bytes range over `Base` values,
keys have `KeySize` bytes, a `u32` two and an `i64` four, so that reading one for the
other is an error that shows; the proofs are for every `Base` and `KeySize`. The offsets are `usize` sums below 2^33, so on the 64-bit target they
cannot overflow and are plain numbers here.
`AlienIdAttestation` puts the SDK's encoding into the data field: strings are
sequences of characters of one or more bytes, `validate_data` walks the schema's
types through the bytes as `sdk/schema.ts:40-44` describes, and `DecodedField` is a
reader who knows the schema only. `Encodable` is when the encoder does not throw: lengths
fit a `u32` and the timestamp an `i64`. A version above a byte wraps, and a negative
timestamp is a large `u64` to the reader: `AsRead` says so.

In `GatedToken` the extension of a mint names the hook program, or the default key for
none (`README.md:134`); its authority is who created the mint. A client's transfer is a record in `sent` with the accounts
resolved when it was built. `TransferChecked` resolves the list again, requires
those accounts to be among the ones sent, debits the source and its allowance as
Token-2022 does (a spent allowance clears the delegate) and shows the hook the
account after the debit.

In `Deployment` a script is a sequence of steps in `todo[wallet]`; a step may
depend on an account being absent, which is looked up when the step starts
(`SendStep`, `SkipStep`) and not when it lands (`StepLands`). `ScriptDies` ends a
script anywhere and may leave its transaction in `stray`, from where it lands at
any time or expires. Landing and confirmation are one action: between them a
script does nothing, and dying between them is dying after the transaction was
left behind. The mint's key pair is fresh, so `CreateMint` is its maker's alone.
`deploy/3` hands the mint, in one step and unasked, to whatever key its environment
names: `NewMintAuthorities` are those keys, one that nobody holds among them.

In `AdminInfo` each read is an action; `ConfigUnread` and `ListUnread` are possible
whether or not the account is there, because `handle_info` treats any error as
absence. `listsSeen` is an auxiliary variable: it records what the list held between
the reads, so that a report can be compared with a moment.

## What is checked

| Run | Question | Result |
|---|---|---|
| `hook_admin` | do config, list, whitelist and authority stay consistent under all instructions in any order, and do the two reads of `info` among them add up to something that was true? | holds, 38,463 states |
| `hook_chain` | does the hook accept exactly the entitled, whatever accounts it gets, and does time only take away? | holds, 70,488 states |
| `gated_ledger` | does the gated token implement the ledger, and do up-to-date transfers land, also while the config changes and the mint moves between two hook programs and none? | holds, 53,676 states |
| `attestation_bytes` | does the parser read the expiry that was issued, can a length move it, and do the bytes behave as `TransferHook` has attestations behave? | holds, 8,448 states |
| `linkage_encoding` | does SAS accept what the SDK encodes, and does a reader find it again? | holds, 93,961 states |
| `deployment_rerun` | do scripts that die and are rerun end with every hook set up, report only what is, and never end where nobody can go on but by handing the mint to a key nobody holds? | holds, 484,575 states |
| `list_reinit` | can the list be initialised again, as `admin-cli/README.md:73` says? | no |
| `authority_revokes` | does the authority's signature suffice to revoke (`README.md:63`)? | no, the transaction must also make its account writable, as paying the fee does |
| `issuer_signer` | is whoever is accepted attested by an authorised signer (`README.md:12`)? | no, not after the signer is removed |
| `delegate_allowance` | can a delegate spend what was approved (`error.rs:23`)? | no, not the last of it |
| `exemption_migration` | does an exemption hold for all future transfers (`README.md:62`)? | no, not under a new program |
| `info_absent` | is what `info` shows as not initialized absent (`admin-cli/README.md:27`)? | no, the request may have failed |

The properties:

- `MetaListMatchesConfig`: an initialised list is that of the present config.
- `AuthorityCanSign`, `HandoverSpec`: the authority is never a key nobody has, and
  passes only to the standing nominee, once per nomination.
- `WhitelistIsGoverned`: no exemption without a config to revoke it under.
- `HookSound`: for all accounts of a call, acceptance implies `Entitled`, which is
  read from the chain and not from the call, with an expiry rule of its own.
  `HookComplete`: with the accounts that the list resolves to, an entitled owner is
  accepted. One mutant of either moves the boundary of the expiry: comparing the other way
  at equality, or comparing a zero.
- `TimeOnlyRevokes`: waiting does not let through what the hook refused.
- `LedgerSpec`: every step of the token is one of `GatedLedger`, with the wallets
  entitled *at landing* as the cleared ones. Amounts are conserved, nobody moves
  what is not theirs beyond an allowance. The program is the one that the mint names at
  landing, too: accounts resolved under an earlier program clear nobody.
  `FreshTransferLands`: the converse, so that refusing everything would not do.
- `ExpiryReadBack`: the hook reads the expiry that SAS issued, over all payloads,
  signers and expiries, and with the token account that follows it in the account;
  `LengthOnlyDecidesPresence`: an account that grows or is cut keeps the expiry it is
  read with, or is refused, also when its own length field points past its end.
- `AttestationSpec`: every step of an account's bytes is one that `TransferHook` allows an
  attestation, so what the hook does with abstract attestations it does with bytes. A
  parser that wants the exact length, and so takes SAS's own accounts for malformed ones
  because of the token account at their end, is not an implementation.
- `EncodingNeverRefused`, `AttestedAsEncoded`: the encoder, the schema's types and the
  schema's names, three lists that agree by position only, do agree.
- `ReadyAsShown`: an issuer and an initialised list shown by `info` belonged together at
  a moment between its reads, though both may have been written meanwhile. It holds
  because the config of a hook cannot be updated while there is no list: a mutant in
  which `update_config` creates a missing list breaks it.
- `ReportedIsReady`: what a script reports as set up is, and stays so.
- `OnlyHandoverStrands`: a hook that is not set up is stranded when no wallet may sign what
  it lacks, the config as the mint's authority or the list as the config's. Only a handover
  of the mint strands it, to a key nobody holds and while the config is missing, and for
  good; once the config exists nothing does.
- `SetupConverges`: setup that is run again after every failure ends with the hook in
  place, but for a hook that was stranded without a config.

Each property has a mutant, an operator next to the definition it replaces, that
TLC finds to violate it.

### Bounds

- `hook_admin` has two mints, so that an instruction for one could disturb the
  other, two wallets and two credentials, all symmetric. No counters: the state space is
  finite. Once `info` has run, the search goes on only where its hook alone has a config
  (`OneHookShown`); it may be killed and run again at any time.
- `hook_chain` has one mint, two wallets and three possible attestation programs:
  the service, another program that writes arbitrary attestation data, and
  `Pubkey::default()`. The clock runs 1..`MaxTime` = 2 with expiries 0 and 2:
  before, at and after the boundary, and "never". Wallets are symmetric.
- `gated_ledger` has two wallets, two hook programs, two tokens, two credentials and one
  transfer in flight (each lands or not by itself; what interleaves with it is everything
  else). State constraints bound administration to what matters for transfers
  (`QuietAdministration`: the rest is explored by `hook_admin`) and split the search in two
  parts (`Explored`): one program, with delegates, both credentials and time
  (`OneProgram`), and moves between the programs and to none, with two attestations or
  entries under either, without delegates (`Moving`). States just past a constraint are
  still checked.
- `deployment_rerun` has one mint, an old and a new program and two wallets. The mint is
  made by the first (`MCDeploySpec`, `Deployer`) and handed to the second or to a key that
  nobody holds (`NewMintAuthorities`). `MaxRuns` = 3 scripts or commands of any kind (mint
  creation, then for instance handover and migration), any number of repeated
  setups, `MaxFailures` = 1 script that dies. Two wallets run at the same time.
- `attestation_bytes` has bits for bytes, one-byte keys, a `u32` of two bits and an `i64`
  of four. Other programs write all contents of all lengths up to `MaxLength` = 12: every
  `u32` occurs as the length of the data field, of which 0 and 1 leave room for an
  expiry, with or without bytes behind it, and 2 and 3 point past the end. SAS
  issues longer accounts, with every `u32` as the length and every `i64`.
- `linkage_encoding` has bytes below 6, strings of up to two characters, one of which
  takes two bytes, empty fields, a version above a byte, timestamps below zero, at the
  boundary of an `i64` and past it, and lengths whose bytes look like other fields.

Some runs have `CHECK_DEADLOCK FALSE`: once every mint's authority is given up, every
transfer landed or every bound reached, nothing need happen.

### Fairness

Only `DeploySpec` has any. `WF(Proceed(o))`: a script that is not killed goes on,
as each of its `await`s resolves or rejects. `WF(RunSetupAgain(o))`: as long as the
hook of a mint is not set up, the wallets concerned start `deploy/2` again; this is
a duty of the operators, which the code cannot discharge for them, and
`SetupConverges` says what comes of it. A wallet that holds neither authority cannot, which
is why a stranded hook is an exception there. Nothing is assumed of stray transactions,
and a script's death is never forced. The other specifications assume no fairness
and claim no liveness: nothing in the program obliges anybody to act.

## What is proved

For all programs, mints, wallets, keys and bounds, from the named assumptions on
constants (`DefaultKeyAssumption`, `NoConfigAssumption`, `TimeAssumption`,
`ForeignDataAssumption`, `GatedTokenAssumption`, `DeploymentAssumption`,
`NoListAssumption`, `LayoutAssumption`, `LinkageAssumption`, `ViewAssumption`,
`InfoAssumption`: that the model's markers for
absent things are no such things, that the clock starts after 1970, that bounds are
numbers, that keys and payloads are byte sequences of the sizes they are said to have,
that strings consist of characters that have an encoding, and that no attestation program
has the default key).

- **`HookProgramProofs`.** `TypeCorrect` is inductive with one case per instruction.
  The other theorems share the lemma `ConfigStepLemma`, which sums up what any
  instruction may do to one config and its list: create, rewrite both together,
  nominate, hand over, or leave alone. `ListNeverStale`, `NeverLockedOut` and
  `EntriesAreGoverned` follow case by case, each relative to the type invariant.
  `HandoverImplemented` is a refinement: `Holder` and `Nominee` map a missing config
  to an empty office; it needs `AuthorityCanSign`, since an empty office would
  otherwise look like one held by the default key.
- **`TransferHookProofs`.** `HookIsSound` rests on PDAs of different programs or seeds
  being different: an account owned by the hook program at a wallet's whitelist
  address is that wallet's entry (`EntryIsOwn`). `NoCallIsForged` says the same of every
  record of addresses at all, not only of the calls that an instance of the model
  enumerates. `TimeNeverEntitles` is an action property: a step that changes the clock
  changes nothing else, and what is not expired after it was not before (`TickOpensNothing`). `HookIsComplete` unrolls
  the resolution of the six-entry list (`ListResolves`): each entry resolves to the
  address that `transfer_hook` derives, because its seeds point at entries resolved
  before it (`PrefixGrows`), and `ListNeverStale` says that the list is that of the config.
- **`GatedTokenProofs`.** `LedgerImplemented` maps each Token-2022 step to a step of
  `GatedLedger`; the landing of a transfer uses `HookIsSound` for the mover and
  `CanDebit` for the amount, everything else is a change of standing or a stutter; a move
  to another program is a change of who is cleared. `FreshTransfersLand` carries
  `HookIsComplete` over to transfers (`GatedImplementsChain`: the token adds no behaviour
  to the hook's accounts); what the debit leaves of an allowance is `AllowanceLeft`.
  Two consequences are stated for a reader. `NobodyLosesTokens`, an action property: a
  balance that falls falls by one whole movement to one other account of the mint, for
  somebody entitled under the present hook who owns the tokens or whose allowance falls by
  as much. `TokenImplementsHooks`: every theorem about `HookSpec` holds of the token.
- **`AttestationLayoutProofs`.** Integers are recovered from their bytes
  (`u32RoundTrip`, `u64RoundTrip`, `i64RoundTrip`), a field is found again at its offset in a
  concatenation (`FieldReadBack`), hence the whole layout is read back
  (`LayoutReadBack`) and `ExpiryIsReadBack`. `LengthNeverMovesExpiry` needs that all
  offsets are read from the part that both lengths share (`PrefixReadsSame`).
- **`AttestationViewProofs`.** `BytesImplementAttestations` maps each step: creation by SAS
  to the creation of an attestation with the issued expiry (by
  `LayoutReadBack`), each resize or write by another program to its replacing the contents
  at its address or to a stutter, since whatever bytes there are hold some expiry of an
  `i64` or are no attestation (`SeenType`). It needs that the two programs' addresses for
  the same seeds differ (`AddressesDiffer`).
- **`AlienIdAttestationProofs`.** `EncodingIsAccepted` and `LinkageIsReadBack` for strings,
  byte vectors and proofs of any length and characters of any number of bytes. The schema's
  walk is unrolled field by field (`FieldEndsUnrolled`); a field with its length before it
  ends where its content does, as long as a prefix of it is what has been read so far
  (`SizedFieldRead`), so all six are found again (`EncodedReadBack`). That the bytes of a
  string are bytes is an induction over its length, done without the library's induction
  theorems by looking at the shortest counterexample (`LeastElement`, `FlattensExists`).
  The invariant that carries this through the steps is `LinkageInv`: neither property is
  inductive, since neither says that a draft's bytes are its linkage's encoding, nor that
  the account is laid out around the encoding of what is attested.
- **`AdminInfoProofs`.** `ShownTogetherIsTrue`: `ReadyAsShown` alone is not inductive. The
  strengthening `BetweenReads` says that between the reads the list of the issuer shown
  has been seen, or there is no list and the config still names that issuer; the second
  half survives every instruction because `update_config` fails without a list.
- **`DeploymentProofs`.** `DeploymentImplementsHooks`: scripts, crashes and strays add
  no behaviour to the hook's accounts, because each transaction is one instruction;
  hence every theorem about `HookSpec` holds of the deployment.
  `ReportsAreTrue` uses it: a script that finds a list has found the one of the
  config by `ListNeverStale`, and no instruction undoes a setup (`ReadyForGood`).
  `StrandedByHandoverOnly` needs `NeverLockedOut` for the authority of a config, so that
  what is stranded lacks a config (`StrandedLacksConfig`); that nobody can give a mint away
  whose authority is a key nobody holds, so that it stays stranded; and that every script,
  and every transaction left behind, hands mints to `NewMintAuthorities` alone
  (`MintHandedOver`). It is the safety half of `SetupConverges`, for any number of runs,
  failures and late transactions.

Model-checked only: `SetupConverges`, which is liveness under fairness. Every other
property of a passing run is proved.

## Disagreements between code and documentation

The six violation runs, each with the lines it concerns, are in `PROJECT.json`
under `findings`. Three are about the code rather than a text: `remove_from_whitelist`
does not mark `authority` writable although closing an entry pays it, so that something
else in the transaction has to
(`remove_from_whitelist.rs:9`), an approved delegate is refused when a transfer
uses its allowance up (`transfer_hook.rs:78`), and `info` shows a failed request as
an account that is not initialized (`handlers.rs:25`). Three more statements were seen
and have no run: `transfer_authority` moving the role (`README.md:61`), where it only
nominates and `HandoverSpec` says how the role moves; the `credential` and `schema` fields
of an attestation being validated (`README.md:17`), where the parser skips them and the
code checks the address that is derived from the config's; and the old program's accounts
that "can be closed" after a migration (`README.md:145`), for which there is no
instruction.

## Not modelled

- Rent and lamports, and compute limits. Hence also `create_account` on an address that
  already holds lamports: `initialize_extra_account_meta_list` fails for good then
  (`initialize_extra_account_meta_list.rs:103-119`), and neither `OnlyHandoverStrands`,
  which is about who may sign, nor `SetupConverges` knows of it.
- Token accounts are the associated ones, whose owner does not change. Burning, freezing
  and closing token accounts: nothing in the repository does any of it.
- Commitment levels: the scripts look accounts up at the default level of
  `AnchorProvider.env()`, "processed", and confirm at "confirmed". A block that a look has
  seen may still be dropped; the script then skips a creation it should have sent. In the
  model a look sees the state that later steps start from.
- The Metaplex metadata script (pure I/O), parsing of arguments, environment variables
  and key files, and the external credential signer and session registry, which are
  present as interface descriptions and are never called by the hook.
- Closing the `HookConfig` and the list, which `README.md:145` mentions: there is no
  instruction for it.

`transfer_authority` reallocates the config: an account of an older, shorter layout
fails to deserialise before that, so the reallocation never has an effect.

## Plan

Done, in this order: `HookAccounts`, `HookProgram`, `AuthorityHandover`, `TransferHook`,
`GatedToken`, `GatedLedger`, `Deployment`; then moves between hook programs in
`GatedToken`, `AttestationLayout`, `AlienIdAttestation`, `AdminInfo`, `AttestationView`, and
the proofs of all safety properties. Moves between programs became part of `GatedToken`
rather than a module that composes it with `Deployment`, because there any order of the
migration's instructions is allowed, not only the scripts'.

Worth adding if the code grows that way: instructions that close the accounts of an
abandoned program, with the transfers that still name them; lamports, once an
instruction depends on them; commitment levels in `Deployment`, if a script comes to
decide anything by what it does not find.
