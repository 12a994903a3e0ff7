\* One mint, an old and a new hook program, the deployer and the new authority.
SPECIFICATION MCDeploySpec
CONSTANTS
    Programs = {p1, p2}
    Mints = {m1}
    Wallets = {w1, w2}
    DefaultKey = DefaultKey
    Credentials = {c1}
    Schemas = {s1}
    SasPrograms = {sas}
    NoConfig = NoConfig
    NoList = NoList
    SAS_PROGRAM_ID = sas
    NewMintAuthorities = {w2, DefaultKey}
    NoMint = NoMint
    Deployer = w1
    MaxRuns = 3
    MaxFailures = 1
INVARIANTS
    DeployTypeOK
    ReportedIsReady
PROPERTIES
    OnlyHandoverStrands
    SetupConverges
CHECK_DEADLOCK FALSE
