SPECIFICATION MemberSpec
CONSTANTS
    bakery = bakery
    farm = farm
    safe = safe
    watch = watch
    escrowC = escrowC
    registryC = registryC
    zero = zero
    Coops = {bakery, farm}
    Safes = {safe, watch}
    StewardSafe = safe
    EscrowContract = escrowC
    RegistryContract = registryC
    ZeroAddress = zero
    MaxTime = 4
    Horizon <- MCHorizon
    Vouched = {bakery, farm}
    FullTrust = 1
    Points = {}
    Constitutions = {}
    MaxTokens = 2
    MaxUint = 7
    Bps = 2
    Scores = {0, 1}
    Thresholds = {1}
    InitialThreshold = 1
    solvencyFactorBps = 4
    Reserves = {1, 3}
    EscrowTotals = {3}
    OracleTimelock = 1
    Proposals = {1}
    MaxVetoes = 1
    BasePays = {1, 2}
    Amounts = {1, 2, 3}
    Ratios = {2, 3, 4}
    InitialRatio = 2
    RatioScale = 2
    MaxWages = 4
    Durations = {0, 1}
    Tallies <- OneOfTwo
    VerifierSet = TRUE
    QuorumBps = 1
    VoteBps = 2
    MaxBallots = 2
    MaxMessages = 1
    Sdcs = {d1}
    MaxScore = 7
    MaxDelta = 3
    DeadAfter = 3
    InitialScores = {7, 8}
    Deltas <- Change
    TierThresholds <- LowOrHigh
    InitialTiers <- Low
    HalfLives = {1, 2, 3}
    DefaultHalfLife = 3
    FrsTimelock = 1
    Fingerprints = {k1, k2}
SYMMETRY CoopSymmetry
CHECK_DEADLOCK FALSE
INVARIANTS
    TypeOK
    DelegationsCounted
    RevokeAlwaysExecutable
    EmergencyStopWorks
    ActiveIssuersFit
PROPERTIES
    OracleChangesOnNotice
    PayWithinRatio
    BallotSealed
    TrustIsEarned
