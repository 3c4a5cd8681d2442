\* One registration, digests of two bytes of three bits.
CONSTANTS
    Calls = {"RequestEmailVerification", "ConfirmEmailVerification",
             "RequestRegistrationProofOfWork", "RegisterMerchant",
             "RegisterMerchant again"}
    MaxAttempts = 2
    ByteBits = 3
    DigestBytes = 2
    MaxNonce = 1
    Difficulties = {0, 5, 7}
    Samples <- MCSamples
    Gateway = {502}
SPECIFICATION RegistrationLiveSpec
INVARIANTS
    RegistrationTypeOK
    SolvedIsAccepted
    RefusedMeansNotRegistered
PROPERTIES
    RegistrationEnds
CHECK_DEADLOCK FALSE
