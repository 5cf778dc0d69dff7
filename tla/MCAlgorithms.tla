---------------------------- MODULE MCAlgorithms -----------------------------
(***************************************************************************)
(* The pure algorithms on bounded inputs: what the theorems of Orient,     *)
(* Topology and Metrics leave to be seen on examples.  TLC evaluates the   *)
(* assumptions below ahead of a run.                                       *)
(***************************************************************************)
EXTENDS Naturals

O == INSTANCE Orient
T == INSTANCE Topology
M == INSTANCE Metrics

-----------------------------------------------------------------------------
Ccirs == [vertical: {"a", "b"}, onTrip: {{}, {0}, {3}},
          tripped: BOOLEAN, evidence: BOOLEAN]

Assumptions ==
  [vertical: {"a"}, status: {"holds", "failed", "garbled"},
   onFail: {{}, {0}, {4}}, validated: {{}, {1}, {5}}, maxAge: {{}, {2}}]

Registry(ccirs, assumptions) ==
  [verticals |-> {"a", "b"}, ccirs |-> ccirs, assumptions |-> assumptions,
   moes |-> {}]

\* An effort can go on although an assumption failed or a trigger tripped, when
\* that was declared to change nothing; and on a validation dated in the future
\* (decide, orient.py:93-120).
ASSUME FailedMayContinue ==
  \E a \in Assumptions :
    a.status = "failed" /\ O!Allow(Registry({}, {a}), "a", 2)

ASSUME TrippedMayContinue ==
  \E c \in Ccirs : c.tripped /\ O!Allow(Registry({c}, {}), c.vertical, 2)

ASSUME FutureIsFresh ==
  \E a \in Assumptions :
    /\ a.status = "holds" /\ a.validated = {5} /\ a.maxAge = {2}
    /\ O!Allow(Registry({}, {a}), "a", 2)
    /\ ~O!Allow(Registry({}, {a}), "a", 8)

\* A vertical may go on while the whole may not.
ASSUME PartMayContinue ==
  \E c, d \in Ccirs :
    /\ O!Allow(Registry({c, d}, {}), "a", 2)
    /\ ~O!Allow(Registry({c, d}, {}), O!Anything, 2)

-----------------------------------------------------------------------------
At(dir, name) == [dir |-> dir, name |-> name]

Pointers == {At("bridge", <<n>>) : n \in {"p1", "p2", "p3", "p4"}}

BridgeRoles ==
  [inbound: Pointers, outbound: Pointers, writer: {"w1", "w2"},
   events: {"d1"}, lease: {FALSE}]

Bridge(roles, contractLock, sequenceLock) ==
  [roles |-> roles, orchestrator |-> "w0", orchestratorEvents |-> "d0",
   intents |-> {"immutable_ref"}, vocabulary |-> {"live"},
   activation |-> "live", contractLock |-> contractLock,
   sequenceLock |-> sequenceLock, leaseSeconds |-> 1, ackTimeout |-> 1]

\* What validate() does not ask: two roles may write under one prefix, into one
\* directory and so in one sequence space, each under its own pointer's lock
\* (topology.py:360-385).
ASSUME WritersMayCoincide ==
  \E r, s \in BridgeRoles :
    /\ r # s /\ r.writer = s.writer /\ r.events = s.events
    /\ LET t == Bridge({r, s}, At("locks", <<"c">>), At("locks", <<"s">>))
       IN  /\ T!Accepted(t)
           /\ T!RouteLock(t, r.outbound) # T!RouteLock(t, s.outbound)

LockPaths ==
  [dir: {"root", "locks"}, name: {<<"s">>, <<"s", "publish">>}]

\* Nor that the contract's lock file is another than the sequence's: a topology
\* is accepted with which a publication waits for the lock that it holds.  What
\* validate() refuses, one path declared for both, makes two files.
ASSUME PublicationMayBlockItself ==
  \E r \in BridgeRoles, c, s \in LockPaths :
    LET t == Bridge({r}, c, s)
    IN  /\ T!Accepted(t)
        /\ T!ContractLock(c) = T!RouteLock(t, r.inbound)
        /\ T!ContractLock(s) # T!RouteLock(Bridge({r}, s, s), r.inbound)

-----------------------------------------------------------------------------
DigestFields == {M!Missing, M!Null, M!IllTyped, "x"}

Bindings ==
  [path: {M!Missing, M!IllTyped, "f"},
   intent: M!Known \cup {M!Missing, M!Null, "other"},
   sha256: DigestFields, declared: DigestFields, form: {"snapshot", "none"},
   authority: BOOLEAN, outside: BOOLEAN, dotted: BOOLEAN]

\* One reader stops where the other does not, and what sets the reference apart.
Apart(first(_, _, _), second(_, _, _), why(_, _, _)) ==
  \E r \in Bindings, content \in {M!Absent, "x", "y"}, linked \in {{}, {"f"}} :
    LET disk == [p \in {"f"} |-> content]
    IN  /\ first(r, disk, linked)
        /\ ~second(r, disk, linked)
        /\ why(r, disk, linked)

CalculatorAlarms(r, disk, linked) == M!Alarms(r, disk)

\* A reference without fault: declared, with its digest, on a straight path.
Plain(r) ==
  /\ r.path = "f" /\ r.intent \in M!Known /\ r.sha256 = "x"
  /\ ~r.outside /\ ~r.dotted

\* Every difference between the two readers that the theorems leave does occur,
\* each by itself (integrity.py:192-281; metrics_reference.py:383-478).
ASSUME ReadersDiffer ==
  /\ Apart(M!PeerAlarms, CalculatorAlarms,
           LAMBDA r, disk, linked : Plain([r EXCEPT !.path = "f"]) /\ linked = {})
  /\ Apart(M!PeerAlarms, CalculatorAlarms,
           LAMBDA r, disk, linked : Plain([r EXCEPT !.sha256 = "x"]) /\ linked = {})
  /\ Apart(M!PeerAlarms, CalculatorAlarms,
           LAMBDA r, disk, linked :
             Plain([r EXCEPT !.intent = "immutable_ref"]) /\ linked = {})
  /\ Apart(M!PeerAlarms, CalculatorAlarms,
           LAMBDA r, disk, linked : Plain([r EXCEPT !.dotted = FALSE]) /\ linked = {})
  /\ Apart(M!PeerAlarms, CalculatorAlarms, LAMBDA r, disk, linked : Plain(r))
  /\ Apart(CalculatorAlarms, M!PeerAlarms,
           LAMBDA r, disk, linked :
             r.intent = M!Missing /\ Plain([r EXCEPT !.intent = "immutable_ref"]))
  /\ Apart(CalculatorAlarms, M!PeerAlarms,
           LAMBDA r, disk, linked :
             r.sha256 = M!Missing /\ Plain([r EXCEPT !.sha256 = "x"]))
  /\ Apart(CalculatorAlarms, M!PeerAlarms,
           LAMBDA r, disk, linked : Plain([r EXCEPT !.outside = FALSE]) /\ r.outside)
  /\ Apart(CalculatorAlarms, M!PeerAlarms, LAMBDA r, disk, linked : Plain(r))

\* Two rebounds that would between them retire every record reconcile nothing.
ASSUME ReboundsSpareOne ==
  LET rebound(p) == [target |-> p, digest |-> "x"]
      disk == [p \in {"f", "g"} |-> "x"]
  IN  /\ M!Reconciled({rebound("f")}, {"f", "g"}, disk)
      /\ ~M!Reconciled({rebound("f"), rebound("g")}, {"f", "g"}, disk)
=============================================================================
