SPECIFICATION Spec
CONSTANTS
    bakery = bakery
    farm = farm
    safe = safe
    escrowC = escrowC
    registryC = registryC
    zero = zero
    eur = eur
    charter = charter
    Coops = {bakery, farm}
    Safes = {safe}
    StewardSafe = safe
    EscrowContract = escrowC
    RegistryContract = registryC
    ZeroAddress = zero
    MaxTime = 2
    Vouched = {bakery}
    FullTrust = 3
    Points = {2}
    Constitutions = {}
    MaxTokens = 1
    Token = {eur}
    Amounts = {2}
    Wealth = 2
    Appointable = {farm, registryC}
    MaxEscrows = 2
    Outcomes = {"Dismissed"}
    MaxCases = 2
CHECK_DEADLOCK FALSE
INVARIANTS
    VaultBacked
    VerdictsMatchEscrows
    DisputeNeverStranded
PROPERTIES
    PromiseKept
