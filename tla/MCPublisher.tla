---------------------------- MODULE MCPublisher -----------------------------
(***************************************************************************)
(* Instances of Publisher for TLC: which events the processes offer.       *)
(***************************************************************************)
EXTENDS Publisher, TLC

CONSTANTS MaxSequence   \* bound on the sequences callers choose

Numbers == 1 .. MaxSequence

\* Every role writes under a prefix of its own, or all under one.
OwnWriters == [r \in AgentRoutes |-> r]
OneWriter == [r \in AgentRoutes |-> "agents"]

\* Ordinary events over every route; the orchestrator's are retried, in the
\* same second or the next.
PlainOffers ==
  [route: AgentRoutes, sequence: Numbers, kind: {"plain"}, terminal: {"none"},
   layer: {FALSE}, named: {TRUE}, stamp: {0}]
    \cup
  [route: OrchRoutes, sequence: Numbers, kind: {"plain"}, terminal: {"none"},
   layer: {FALSE}, named: {TRUE}, stamp: {0, 1}]

\* The roles choose file names in different seconds.
Second ==
  CHOOSE f \in [AgentRoutes -> 0..1] :
    \A q, r \in AgentRoutes : f[q] = f[r] => q = r

\* The orchestrator activates the contract, then grants; every role reports a
\* failure under the first sequence and ahead of the activation, and one of
\* them another under the second and after it.
ContractOffers ==
  [route: OrchRoutes, sequence: {1}, kind: {"activation"}, terminal: {"none"},
   layer: {TRUE}, named: {TRUE}, stamp: {0}]
    \cup
  [route: OrchRoutes, sequence: {2}, kind: {"authority"}, terminal: {"none"},
   layer: {TRUE}, named: {TRUE}, stamp: {0}]
    \cup
  {e \in [route: AgentRoutes, sequence: {1, 2}, kind: {"plain"},
          terminal: {"failed"}, layer: BOOLEAN, named: {TRUE}, stamp: {0, 1}] :
     /\ e.stamp = Second[e.route]
     /\ e.layer <=> e.sequence = 2
     /\ e.layer => e.stamp = 1}

\* File names that do not repeat the writer.
UnnamedOffers ==
  [route: Routes, sequence: Numbers, kind: {"plain"}, terminal: {"none"},
   layer: {FALSE}, named: {FALSE}, stamp: {0, 1}]

\* Authorities that carry their count, and so their descriptor, at the top
\* level of the event, and failures.
InlineOffers ==
  [route: OrchRoutes, sequence: Numbers, kind: {"authority"},
   terminal: {"unclear"}, layer: {FALSE}, named: {TRUE}, stamp: {0}]
    \cup
  [route: OrchRoutes, sequence: Numbers, kind: {"plain"},
   terminal: {"failed"}, layer: {FALSE}, named: {TRUE}, stamp: {0}]

Symmetry == Permutations(Procs) \cup Permutations(OrchRoutes)
              \cup Permutations(AgentRoutes)
=============================================================================
