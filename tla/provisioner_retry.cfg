SPECIFICATION FairSpec
CONSTANTS
    ada = ada
    r1 = r1
    r2 = r2
    Users = {ada}
    Requests = {r1, r2}
    MaxFaults = 2
PROPERTY
    RetryIsSafe
