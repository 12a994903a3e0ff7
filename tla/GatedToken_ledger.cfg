\* One mint, two wallets, two tokens, one transfer in flight; two credentials, so
\* that update_config can make a built transfer stale, and two hook programs, so
\* that a move of the mint can; attestations expire at 2.
SPECIFICATION GatedSpec
CONSTANTS
    Programs = {p1, p2}
    Mints = {m1}
    Wallets = {w1, w2}
    DefaultKey = DefaultKey
    Credentials = {c1, c2}
    Schemas = {s1}
    SasPrograms = {sas}
    NoConfig = NoConfig
    NoList = NoList
    SasProgramId = sas
    Signers = {k1}
    Expiries = {2}
    MaxTime = 2
    ForeignData <- MCForeignData
    NoAttestation = NoAttestation
    NoDelegate = NoDelegate
    MaxSupply = 2
    MaxInFlight = 1
CONSTRAINTS QuietAdministration Explored
SYMMETRY GatedSymmetry
INVARIANTS
    GatedTypeOK
    FreshTransferLands
PROPERTY
    LedgerSpec
CHECK_DEADLOCK FALSE
