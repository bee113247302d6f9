CONSTANTS
    k1 = k1
    k2 = k2
    n1 = n1
    n2 = n2
    n0 = n0
    d1 = d1
    d2 = d2
    b1 = b1
    Passkeys <- MCPasskeys
    UserKey = k1
    Nonces <- MCNonces
    ZeroChallenge = n0
    Domains <- MCDomains
    Blobs <- MCBlobs
    NtLens <- MCNtLens
    RespLen = 2
    Bytes = {0, 1}
    P24 <- MCP24

SPECIFICATION Spec

INVARIANT NoOops
