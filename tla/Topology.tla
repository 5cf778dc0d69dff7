------------------------------ MODULE Topology -------------------------------
(***************************************************************************)
(* What coordination_substrate/topology.py accepts as the description of a *)
(* bridge, the route tables the other modules read off it, and what they   *)
(* may rely on.  A path or a name is a value that is only compared, as it  *)
(* is in the code: two spellings of one path are two paths.  Where a lock  *)
(* file is derived from it, a path is a record of its directory and of its *)
(* file name, split at the dots.  The checks of single fields (relative,   *)
(* unpadded, a digest) are left out.                                       *)
(*                                                                         *)
(* A topology is a record: its roles, each with its inbound and outbound   *)
(* pointer, its writer prefix, its event directory and whether it may hold *)
(* the mutating lease; the orchestrator and its event directory; the       *)
(* reference intents; the layer vocabulary with its activation value; the  *)
(* locks; and the two terms that have to be positive.                      *)
(***************************************************************************)
EXTENDS Naturals, Sequences, TLAPS

\* No pointer is claimed twice, by two roles or by one in both directions.
PointersAreApart(t) ==
  \A r, s \in t.roles :
    /\ r.inbound # s.outbound
    /\ r.inbound = s.inbound => r = s
    /\ r.outbound = s.outbound => r = s

\* What parse() asks of the lists: some role, the intent every event reference
\* needs, and an activation value out of the vocabulary.
Parses(t) ==
  /\ t.roles # {}
  /\ "immutable_ref" \in t.intents
  /\ t.vocabulary # {} => t.activation \in t.vocabulary

\* What validate() asks of the whole.
Validates(t) ==
  /\ PointersAreApart(t)
  /\ \A r \in t.roles : r.writer # t.orchestrator
  /\ t.leaseSeconds >= 1 /\ t.ackTimeout >= 1
  /\ \A r, s \in t.roles : r.lease /\ s.lease => r = s
  /\ t.vocabulary # {} => t.contractLock # t.sequenceLock

Accepted(t) == Parses(t) /\ Validates(t)

-----------------------------------------------------------------------------
\* The routes table, as a set: a later entry would overwrite one of the same
\* pointer.
RouteEntries(t) ==
  {[pointer |-> r.inbound, events |-> t.orchestratorEvents,
    writer |-> t.orchestrator] : r \in t.roles}
    \cup {[pointer |-> r.outbound, events |-> r.events,
           writer |-> r.writer] : r \in t.roles}

AgentRoutes(t) == {r.outbound : r \in t.roles}

OrchestratorRoutes(t) == {r.inbound : r \in t.roles}

EventDirs(t) == {t.orchestratorEvents} \cup {r.events : r \in t.roles}

\* The lock files of publish(): a pointer's or the sequence's lies next to it,
\* the contract's at the root, whatever directory was declared for it.
RootDir == "root"

PointerLock(path) == [dir |-> path.dir, name |-> Append(path.name, "publish")]

ContractLock(path) == [dir |-> RootDir, name |-> path.name]

\* What publish() locks inside the contract lock for a pointer.
RouteLock(t, pointer) ==
  PointerLock(IF pointer \in OrchestratorRoutes(t) THEN t.sequenceLock
              ELSE pointer)

-----------------------------------------------------------------------------
\* The routes table loses no route: one pointer, one directory and one writer
\* (Topology.routes, topology.py:195-205; validate, 360-371).
THEOREM NoRouteIsOverwritten ==
  ASSUME NEW t, Accepted(t),
         NEW d \in RouteEntries(t), NEW e \in RouteEntries(t),
         d.pointer = e.pointer
  PROVE  d = e
<1>1. PointersAreApart(t)
  BY DEF Accepted, Validates
<1>2. PICK r \in t.roles :
        \/ d = [pointer |-> r.inbound, events |-> t.orchestratorEvents,
                writer |-> t.orchestrator]
        \/ d = [pointer |-> r.outbound, events |-> r.events,
                writer |-> r.writer]
  BY DEF RouteEntries
<1>3. PICK s \in t.roles :
        \/ e = [pointer |-> s.inbound, events |-> t.orchestratorEvents,
                writer |-> t.orchestrator]
        \/ e = [pointer |-> s.outbound, events |-> s.events,
                writer |-> s.writer]
  BY DEF RouteEntries
<1>4. QED
  BY <1>1, <1>2, <1>3 DEF PointersAreApart

\* A pointer is written either by the orchestrator, in its one sequence space,
\* or by an agent under its listener's lineage, and which of the two can be
\* told from the writer: what Publisher assumes of its routes
\* (agent_routes and orchestrator_routes, topology.py:207-215).
THEOREM RoutesAreApart ==
  ASSUME NEW t, Accepted(t)
  PROVE  /\ AgentRoutes(t) \cap OrchestratorRoutes(t) = {}
         /\ \A e \in RouteEntries(t) :
              /\ e.writer = t.orchestrator
                   <=> e.pointer \in OrchestratorRoutes(t)
              /\ e.writer # t.orchestrator <=> e.pointer \in AgentRoutes(t)
              /\ e.events \in EventDirs(t)
<1>1. PointersAreApart(t) /\ \A r \in t.roles : r.writer # t.orchestrator
  BY DEF Accepted, Validates
<1>2. AgentRoutes(t) \cap OrchestratorRoutes(t) = {}
  BY <1>1 DEF PointersAreApart, AgentRoutes, OrchestratorRoutes
<1>3. ASSUME NEW e \in RouteEntries(t)
      PROVE  \/ /\ e.writer = t.orchestrator
                /\ e.pointer \in OrchestratorRoutes(t)
                /\ e.events \in EventDirs(t)
             \/ /\ e.writer # t.orchestrator
                /\ e.pointer \in AgentRoutes(t)
                /\ e.events \in EventDirs(t)
  BY <1>1, <1>3
     DEF RouteEntries, AgentRoutes, OrchestratorRoutes, EventDirs
<1>4. QED
  BY <1>2, <1>3

\* The two locks of a publication are two files, and so nest, unless the name
\* of the contract's ends as a pointer lock's does.  validate() compares what was
\* declared for the two (topology.py:382-385), not the files that come of it
\* (_pointer_lock, publisher.py:196; _layer_contract_lock, 839).
THEOREM LocksNest ==
  ASSUME NEW t, NEW pointer \in AgentRoutes(t) \cup OrchestratorRoutes(t),
         \A path : t.contractLock.name # Append(path.name, "publish")
  PROVE  ContractLock(t.contractLock) # RouteLock(t, pointer)
BY DEF ContractLock, RouteLock, PointerLock
=============================================================================
