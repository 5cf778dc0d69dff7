\* Two processes, two orchestrator routes and one agent route, no contract.
SPECIFICATION Spec
CONSTANTS
  Procs = {p1, p2}
  AgentRoutes = {a1}
  OrchRoutes = {o1, o2}
  Writer <- OwnWriters
  Orchestrator = Orchestrator
  ContractEnabled = FALSE
  ContractFile = ContractFile
  NoEvent = NoEvent
  Nobody = Nobody
  NoAdmission = NoAdmission
  MaxSequence = 2
  Offers <- PlainOffers
SYMMETRY Symmetry
INVARIANTS TypeOK PointerBound UniqueIdentity AdmissionsDoNotOverlap
PROPERTIES SequenceRises LogSpec
