CONSTANTS
    Names <- MCNames
    AuthMsgs <- MCAuthMsgs
    ChallengeHdrSize = 48
    AuthHdrSize = 64
SPECIFICATION Spec
INVARIANT ChallengeParses ChallengeLengthExact
