\* Authorities written at the top level of an event.
SPECIFICATION Spec
CONSTANTS
  Procs = {p1}
  AgentRoutes = {}
  OrchRoutes = {o1}
  Writer <- OwnWriters
  Orchestrator = Orchestrator
  ContractEnabled = FALSE
  ContractFile = ContractFile
  NoEvent = NoEvent
  Nobody = Nobody
  NoAdmission = NoAdmission
  MaxSequence = 2
  Offers <- InlineOffers
INVARIANTS SecondAuthorityNeedsNothing
