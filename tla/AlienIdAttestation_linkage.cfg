SPECIFICATION LinkageSpec
CONSTANTS
    Base = 6
    KeySize = 1
    ATTESTATION_DISCRIMINATOR = 2
    PublicKeys <- MCKeys
    Nonce <- MCNonce
    Credential <- MCCredential
    Schema <- MCSchema
    Payloads = {}
    Issuable <- MCIssuable
    MaxLength = 0
    NotIssued = NotIssued
    Refused = Refused
    Utf8 <- MCUtf8
    Addresses <- MCAddresses
    Strings <- MCStrings
    Proofs <- MCProofs
    Versions <- MCVersions
    Timestamps <- MCTimestamps
    NoLinkage = NoLinkage
INVARIANTS
    EncodingNeverRefused
    AttestedAsEncoded
