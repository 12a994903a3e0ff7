\* Two mints served by one deployment, two admins, two credentials.
SPECIFICATION InfoSpec
CONSTANTS
    Programs = {p1}
    Mints = {m1, m2}
    Wallets = {w1, w2}
    DefaultKey = DefaultKey
    Credentials = {c1, c2}
    Schemas = {s1}
    SasPrograms = {sas}
    NoConfig = NoConfig
    NoList = NoList
    NotShown = NotShown
    NotInitialized = NotInitialized
    Initialized = Initialized
CONSTRAINT OneHookShown
SYMMETRY AdminSymmetry
INVARIANTS
    InfoTypeOK
    MetaListMatchesConfig
    AuthorityCanSign
    WhitelistIsGoverned
    ReadyAsShown
PROPERTY
    HandoverSpec
