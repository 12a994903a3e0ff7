\* Whether an exemption outlives the move to another hook program.
SPECIFICATION MCDeploySpec
CONSTANTS
    Programs = {p1, p2}
    Mints = {m1}
    Wallets = {w1}
    DefaultKey = DefaultKey
    Credentials = {c1}
    Schemas = {s1}
    SasPrograms = {sas}
    NoConfig = NoConfig
    NoList = NoList
    SAS_PROGRAM_ID = sas
    NewMintAuthorities = {w1}
    NoMint = NoMint
    Deployer = w1
    MaxRuns = 4
    MaxFailures = 0
PROPERTY
    ExemptionHoldsForFutureTransfers
CHECK_DEADLOCK FALSE
