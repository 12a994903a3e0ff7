\* One mint, two wallets; the attestation service and a foreign program that a
\* config may name in its place; attestations that never expire or expire at 2.
SPECIFICATION ChainSpec
CONSTANTS
    Programs = {p1}
    Mints = {m1}
    Wallets = {w1, w2}
    DefaultKey = DefaultKey
    Credentials = {c1}
    Schemas = {s1}
    SasPrograms = {sas, other, DefaultKey}
    NoConfig = NoConfig
    NoList = NoList
    SasProgramId = sas
    Signers = {k1}
    Expiries = {0, 2}
    MaxTime = 2
    ForeignData <- MCForeignData
    NoAttestation = NoAttestation
    NoDelegate = NoDelegate
INVARIANTS
    ChainTypeOK
    HookSound
    HookComplete
PROPERTY
    TimeOnlyRevokes
SYMMETRY WalletSymmetry
CHECK_DEADLOCK FALSE
