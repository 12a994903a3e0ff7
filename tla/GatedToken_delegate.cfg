\* Whether an entitled delegate can spend the whole of its allowance.
SPECIFICATION GatedSpec
CONSTANTS
    Programs = {p1}
    Mints = {m1}
    Wallets = {w1, w2}
    DefaultKey = DefaultKey
    Credentials = {c1}
    Schemas = {s1}
    SasPrograms = {sas}
    NoConfig = NoConfig
    NoList = NoList
    SasProgramId = sas
    Signers = {k1}
    Expiries = {2}
    MaxTime = 2
    ForeignData <- MCForeignData
    NoAttestation = NoAttestation
    NoDelegate = NoDelegate
    MaxSupply = 2
    MaxInFlight = 1
CONSTRAINTS QuietAdministration Explored
SYMMETRY GatedSymmetry
INVARIANT
    DelegateCanSpendAllowance
CHECK_DEADLOCK FALSE
