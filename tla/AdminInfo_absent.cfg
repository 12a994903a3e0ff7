\* The same instance: a failed request is shown as an account that is absent.
SPECIFICATION InfoSpec
CONSTANTS
    Programs = {p1, p2}
    Mints = {m1}
    Wallets = {w1}
    DefaultKey = DefaultKey
    Credentials = {c1, c2}
    Schemas = {s1}
    SasPrograms = {sas}
    NoConfig = NoConfig
    NoList = NoList
    NotShown = NotShown
    NotInitialized = NotInitialized
    Initialized = Initialized
PROPERTY
    NotInitializedAsShown
