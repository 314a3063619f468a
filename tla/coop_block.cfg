SPECIFICATION Spec
CONSTANTS
  Thread = {t1}
  Mixes = {{"stances"}}
  Task = {k1, k2, k3}
  RequireSigned = FALSE
  Payee = {p1}
  Member = {m1, m2}
  Amounts = {1, 2}
  Threshold = 1
  MaxLedger = 3
  Trade = {e1}
  Coop = {c1, c2}
  Asset = {a1, a2, a3}
  MaxDependents = 1
  MaxGlass = 2
  Sdc = {s1}
  External = {x1}
  Key = {key1}
  Attestation = {at1, at2}
  HalfLife = 4
  Ticks = {3, 4, 55}
  App = {ap1, ap2}
  Agent = {ag1}
  Request = {r1, r2}
  Proposal = {pr1}
  Voter = {v1, v2}
  MaxDepth = 1
  Proposals <- MCProposals
  DefaultManifest <- MCDefault
  Cid = {q1, q2}
  MaxTxs = 2
  MaxBatches = 2
  Did = {f1, f2}
  Templates <- MCTemplates
  Bylaws <- MCBylaws
  MinFounders = 2
  MaxDeliveries = 3
  Handle = {h1, h2}
  Contents <- MCContents
  Actor = {"a1", "a2", "a3"}
  MaxHeld = 2
  MaxHeldOf = 1
  JurySize = 5
  MaxNotices = 2
  MaxHistory = 1
INVARIANTS BlockIsHeard
SYMMETRY MCSymmetry
CHECK_DEADLOCK FALSE
