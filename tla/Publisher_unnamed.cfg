\* File names without the writer prefix.
SPECIFICATION Spec
CONSTANTS
  Procs = {p1}
  AgentRoutes = {}
  OrchRoutes = {o1}
  Writer <- OwnWriters
  Orchestrator = Orchestrator
  ContractEnabled = FALSE
  ContractFile = ContractFile
  NoEvent = NoEvent
  Nobody = Nobody
  NoAdmission = NoAdmission
  MaxSequence = 1
  Offers <- UnnamedOffers
INVARIANTS OrphanedSequenceStaysTaken
