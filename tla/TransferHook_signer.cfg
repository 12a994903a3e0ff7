\* Whether an accepted attestation was signed by an authorised signer.
SPECIFICATION ChainSpec
CONSTANTS
    Programs = {p1}
    Mints = {m1}
    Wallets = {w1, w2}
    DefaultKey = DefaultKey
    Credentials = {c1}
    Schemas = {s1}
    SasPrograms = {sas}
    NoConfig = NoConfig
    NoList = NoList
    SasProgramId = sas
    Signers = {k1}
    Expiries = {0}
    MaxTime = 2
    ForeignData <- MCForeignData
    NoAttestation = NoAttestation
    NoDelegate = NoDelegate
INVARIANT
    AcceptedIssuerIsAuthorized
CHECK_DEADLOCK FALSE
