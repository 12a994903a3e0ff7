SPECIFICATION LayoutSpec
CONSTANTS
    Base = 2
    KeySize = 1
    ATTESTATION_DISCRIMINATOR = 1
    PublicKeys <- MCKeys
    Nonce <- MCNonce
    Credential <- MCCredential
    Schema <- MCSchema
    Payloads <- MCPayloads
    Issuable <- MCIssuable
    MaxLength = 12
    NotIssued = NotIssued
    Refused = Refused
    DefaultKey = DefaultKey
    Unread = Unread
    NoAccount = NoAccount
INVARIANTS
    LayoutTypeOK
    ExpiryReadBack
PROPERTIES
    LengthOnlyDecidesPresence
    AttestationSpec
