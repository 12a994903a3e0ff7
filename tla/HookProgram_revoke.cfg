\* Whether the authority's signature suffices to revoke an exemption.
SPECIFICATION HookSpec
CONSTANTS
    Programs = {p1}
    Mints = {m1}
    Wallets = {w1, w2}
    DefaultKey = DefaultKey
    Credentials = {c1, c2}
    Schemas = {s1}
    SasPrograms = {sas}
    NoConfig = NoConfig
    NoList = NoList
INVARIANT
    AuthorityCanRevoke
CHECK_DEADLOCK FALSE
