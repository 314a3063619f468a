SPECIFICATION Spec
CONSTANTS
    bakery = bakery
    farm = farm
    safe = safe
    escrowC = escrowC
    registryC = registryC
    zero = zero
    eur = eur
    charter = charter
    Coops = {bakery, farm}
    Safes = {safe}
    StewardSafe = safe
    EscrowContract = escrowC
    RegistryContract = registryC
    ZeroAddress = zero
    MaxTime = 1
    Vouched = {bakery, farm}
    FullTrust = 3
    Points = {1, 2}
    Constitutions = {charter}
    MaxTokens = 3
    Token = {eur}
    Amounts = {1}
    Wealth = 1
    Appointable = {registryC}
    MaxEscrows = 1
    Outcomes = {"Dismissed"}
    MaxCases = 1
SYMMETRY CoopSymmetry
CHECK_DEADLOCK FALSE
INVARIANT
    RehabilitationAvailable
