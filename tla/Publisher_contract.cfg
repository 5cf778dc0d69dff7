\* A contract being activated while two roles that write under one prefix fail
\* and the orchestrator grants.
SPECIFICATION FairSpec
CONSTANTS
  Procs = {p1, p2}
  AgentRoutes = {a1, a2}
  OrchRoutes = {o1}
  Writer <- OneWriter
  Orchestrator = Orchestrator
  ContractEnabled = TRUE
  ContractFile = ContractFile
  NoEvent = NoEvent
  Nobody = Nobody
  NoAdmission = NoAdmission
  MaxSequence = 2
  Offers <- ContractOffers
INVARIANTS EpochStaysReadable UniqueIdentity HoldersNeverWait
PROPERTIES LayerFollowsActivation AuthorityIsCapped LocksComeBack
