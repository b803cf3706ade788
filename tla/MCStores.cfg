SPECIFICATION StoresSpec
CONSTANTS
  \* result commit
  Owners = {o1, o2}
  Outcomes = {r1, r2}
  MaxDeliveries = 3
  MaxLosses = 2
  \* memory store
  Events = {"e1", "e2"}
  Rule <- TwoRules
  EvidenceOf <- OneEvidence
  Artifact <- OneArtifact
  HeldRecords = {}
  Workers = {"w1", "w2"}
  Poisoned = {"e1"}
  MaxCleanup = 1
  Deployments <- EveryDeployment
  MaxFlips = 1
  MaxRestarts = 1
  \* promotion
  Promoters = {"p1", "p2"}
  Candidates = {1, 2, 3}
  Eligible = {1, 3}
  BatchSize = 1
  MaxInterrupts = 2
  \* prompt activation
  Managers = {"m1", "m2"}
  Releases = {"r1", "r2"}
  Manifests <- OneBehind
  Authorities = {TRUE, FALSE}
  MaxSwitches = 3
  MaxHookFaults = 1
INVARIANTS
    StoresSound
PROPERTIES
    StoresServe
CHECK_DEADLOCK FALSE
