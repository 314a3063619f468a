CONSTANTS
    alice = alice
    bob = bob
    scheduler = scheduler
    c1 = c1
    c2 = c2
    s = s
    w = w
    p1 = p1
    Members = {alice, bob}
    Polls = {p1}
    MaxDay = 2
    MaxRows = 1
    MaxFaults = 1
    Convs = {c1}
    AgentOf <- MCAgentOf
    UserOf <- MCUserOf
    Offers <- OffersLabour
    Ahead = 0
    MaxToolRounds = 3
    MaxRunning = 1
    MaxBlocks = 2
SPECIFICATION Spec
INVARIANTS OneEntryPerWrite
CHECK_DEADLOCK FALSE
