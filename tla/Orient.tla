------------------------------- MODULE Orient --------------------------------
(***************************************************************************)
(* decide() of coordination_substrate/orient.py: whether an effort may go  *)
(* on, given what it assumes, the triggers it committed to and the effects *)
(* it has to show, at a given time.                                        *)
(*                                                                         *)
(* A decision is its severity, from 0 for CONTINUE to 4 for ABANDON.  The  *)
(* registry is a record of three sets of rows and the verticals it knows;  *)
(* a row is a record, in which what can be missing or unreadable is a set  *)
(* of at most one value: the decisions, the times and the limits.          *)
(*                                                                         *)
(*   assumptions  vertical, status, onFail, validated, maxAge              *)
(*   ccirs        vertical, onTrip, tripped, evidence                      *)
(*   moes         vertical, demonstrated, opened, window                   *)
(*                                                                         *)
(* Findings and problems are the rows that demand something; their wording *)
(* is left out.  Rows of one content are one row.                          *)
(***************************************************************************)
EXTENDS Integers, WellFoundedInduction, TLAPS

\* The severities.
Continue == 0
HoldValidate == 1
Reframe == 2
Decisions == 0..4

\* No vertical is asked for.
Anything == "all"

\* More than `limit' has passed since `then'.
Over(then, limit, now) == now - then > limit

\* keep(): the rows of the vertical asked for.
Keep(rows, scope) ==
  {r \in rows : scope = Anything \/ r.vertical = scope}

\* An on_trip that is no decision is a problem, tripped or not; a trip without
\* evidence is a problem on top of its decision.
CcirDemands(c) ==
  IF c.onTrip = {} THEN {HoldValidate}
  ELSE IF ~c.tripped THEN {}
  ELSE c.onTrip \cup (IF c.evidence THEN {} ELSE {HoldValidate})

\* An assumption that holds has to have been validated, and lately if it is to
\* be validated again.
Fresh(a, now) ==
  /\ a.validated # {}
  /\ \A v \in a.validated, age \in a.maxAge : ~Over(v, age, now)

AssumptionDemands(a, now) ==
  IF a.status = "failed" THEN IF a.onFail = {} THEN {Reframe} ELSE a.onFail
  ELSE IF a.status = "holds" /\ Fresh(a, now) THEN {}
  ELSE {HoldValidate}

\* An effect that was not shown within its window; one without a window is due.
Matured(m, now) ==
  \/ m.opened = {} \/ m.window = {}
  \/ \E o \in m.opened, w \in m.window : Over(o, w, now)

MoeDemands(m, now) ==
  IF ~m.demonstrated /\ Matured(m, now) THEN {Reframe} ELSE {}

\* Everything the rows demand, for a known scope with some row.
RowDemands(reg, scope, now) ==
  (UNION {CcirDemands(c) : c \in Keep(reg.ccirs, scope)})
    \cup (UNION {AssumptionDemands(a, now) :
                   a \in Keep(reg.assumptions, scope)})
    \cup (UNION {MoeDemands(m, now) : m \in Keep(reg.moes, scope)})

Vacuous(reg, scope) ==
  /\ Keep(reg.ccirs, scope) = {}
  /\ Keep(reg.assumptions, scope) = {}
  /\ Keep(reg.moes, scope) = {}

\* What a decision has to be as severe as.
Demands(reg, scope, now) ==
  IF scope # Anything /\ scope \notin reg.verticals THEN {HoldValidate}
  ELSE IF Vacuous(reg, scope) THEN {HoldValidate}
  ELSE RowDemands(reg, scope, now) \cup {Continue}

\* The loops of decide(): from CONTINUE, by _worse(), demand after demand.
Worse(a, b) == IF a >= b THEN a ELSE b

InTurn(acc, demands, n) ==
  /\ acc[0] = Continue
  /\ \A i \in 1..n : acc[i] = Worse(acc[i - 1], demands[i])

\* What they come to, in whatever order.
Worst(S) == CHOOSE d \in S : \A e \in S : e <= d

Decision(reg, scope, now) == Worst(Demands(reg, scope, now))

Allow(reg, scope, now) == Decision(reg, scope, now) = Continue

-----------------------------------------------------------------------------
\* The rows a registry can hold.
Optional(S) == {{}} \cup {{x} : x \in S}

RegistryOK(reg) ==
  /\ \A c \in reg.ccirs : c.onTrip \in Optional(Decisions)
  /\ \A a \in reg.assumptions :
       /\ a.onFail \in Optional(Decisions)
       /\ a.validated \in Optional(Int) /\ a.maxAge \in Optional(Int)
  /\ \A m \in reg.moes :
       m.opened \in Optional(Int) /\ m.window \in Optional(Int)

\* The worst of some decisions is one of them, and no milder than any.
LEMMA WorstIsWorst ==
  ASSUME NEW S \in SUBSET Decisions, S # {}
  PROVE  Worst(S) \in S /\ \A e \in S : e <= Worst(S)
<1>1. \E d \in S : \A e \in S : e <= d
  <2>1. CASE 4 \in S
    BY <2>1 DEF Decisions
  <2>2. CASE 4 \notin S /\ 3 \in S
    BY <2>2 DEF Decisions
  <2>3. CASE 4 \notin S /\ 3 \notin S /\ 2 \in S
    BY <2>3 DEF Decisions
  <2>4. CASE 4 \notin S /\ 3 \notin S /\ 2 \notin S /\ 1 \in S
    BY <2>4 DEF Decisions
  <2>5. CASE 4 \notin S /\ 3 \notin S /\ 2 \notin S /\ 1 \notin S
    <3>1. \A e \in S : e = 0
      BY <2>5 DEF Decisions
    <3>2. QED
      BY <3>1
  <2>6. QED
    BY <2>1, <2>2, <2>3, <2>4, <2>5
<1>2. QED
  BY <1>1 DEF Worst

\* More demands are no milder.
LEMMA WorstGrows ==
  ASSUME NEW S \in SUBSET Decisions, NEW T \in SUBSET Decisions,
         S # {}, S \subseteq T
  PROVE  Worst(S) <= Worst(T)
BY WorstIsWorst

\* What the rows demand is what some row demands.
LEMMA RowsDemand ==
  ASSUME NEW reg, NEW scope, NEW now, NEW d
  PROVE  d \in RowDemands(reg, scope, now) <=>
           \/ \E c \in Keep(reg.ccirs, scope) : d \in CcirDemands(c)
           \/ \E a \in Keep(reg.assumptions, scope) :
                d \in AssumptionDemands(a, now)
           \/ \E m \in Keep(reg.moes, scope) : d \in MoeDemands(m, now)
BY DEF RowDemands

\* The demands of a registry are decisions, and there is always one.
LEMMA DemandsAreDecisions ==
  ASSUME NEW reg, RegistryOK(reg), NEW scope, NEW now \in Int
  PROVE  Demands(reg, scope, now) \in (SUBSET Decisions) \ {{}}
<1>1. ASSUME NEW c \in Keep(reg.ccirs, scope)
      PROVE  CcirDemands(c) \subseteq Decisions
  <2>1. c.onTrip \subseteq Decisions
    BY <1>1 DEF RegistryOK, Keep, Optional
  <2>2. QED
    BY <2>1 DEF CcirDemands, HoldValidate, Decisions
<1>2. ASSUME NEW a \in Keep(reg.assumptions, scope)
      PROVE  AssumptionDemands(a, now) \subseteq Decisions
  <2>1. a.onFail \subseteq Decisions
    BY <1>2 DEF RegistryOK, Keep, Optional
  <2>2. QED
    BY <2>1 DEF AssumptionDemands, HoldValidate, Reframe, Decisions
<1>3. ASSUME NEW m \in Keep(reg.moes, scope)
      PROVE  MoeDemands(m, now) \subseteq Decisions
  BY DEF MoeDemands, Reframe, Decisions
<1>4. RowDemands(reg, scope, now) \subseteq Decisions
  BY <1>1, <1>2, <1>3, RowsDemand
<1>5. Continue \in Decisions /\ HoldValidate \in Decisions
  BY DEF Continue, HoldValidate, Decisions
<1>6. QED
  BY <1>4, <1>5 DEF Demands

\* An effort goes on only over a known vertical that declares something, with
\* every assumption validated in time, every trigger readable and every effect
\* shown or still in its window; what failed or tripped was declared to change
\* nothing, and a trip has its evidence (decide, orient.py:66-139).
THEOREM ContinueIsEarned ==
  ASSUME NEW reg, RegistryOK(reg), NEW scope, NEW now \in Int,
         Allow(reg, scope, now)
  PROVE  /\ scope = Anything \/ scope \in reg.verticals
         /\ ~Vacuous(reg, scope)
         /\ \A a \in Keep(reg.assumptions, scope) :
              \/ a.status = "holds" /\ Fresh(a, now)
              \/ a.status = "failed" /\ a.onFail = {Continue}
         /\ \A c \in Keep(reg.ccirs, scope) :
              /\ c.onTrip # {}
              /\ c.tripped => c.onTrip = {Continue} /\ c.evidence
         /\ \A m \in Keep(reg.moes, scope) :
              m.demonstrated \/ ~Matured(m, now)
<1>1. \A d \in Demands(reg, scope, now) : d <= Continue /\ d \in Decisions
  BY DemandsAreDecisions, WorstIsWorst DEF Allow, Decision
<1>2. \A d \in Demands(reg, scope, now) : d = Continue
  BY <1>1 DEF Continue, Decisions
<1>3. HoldValidate # Continue /\ Reframe # Continue
  BY DEF HoldValidate, Continue, Reframe
<1>4. /\ scope = Anything \/ scope \in reg.verticals
      /\ ~Vacuous(reg, scope)
  BY <1>2, <1>3 DEF Demands
<1>5. \A d \in RowDemands(reg, scope, now) : d = Continue
  BY <1>2, <1>4 DEF Demands
<1>6. ASSUME NEW a \in Keep(reg.assumptions, scope)
      PROVE  \/ a.status = "holds" /\ Fresh(a, now)
             \/ a.status = "failed" /\ a.onFail = {Continue}
  <2>1. \A d \in AssumptionDemands(a, now) : d = Continue
    BY <1>5, <1>6, RowsDemand
  <2>2. a.onFail \in Optional(Decisions)
    BY <1>6 DEF RegistryOK, Keep
  <2>3. QED
    BY <1>3, <2>1, <2>2 DEF AssumptionDemands, Optional
<1>7. ASSUME NEW c \in Keep(reg.ccirs, scope)
      PROVE  /\ c.onTrip # {}
             /\ c.tripped => c.onTrip = {Continue} /\ c.evidence
  <2>1. \A d \in CcirDemands(c) : d = Continue
    BY <1>5, <1>7, RowsDemand
  <2>2. c.onTrip \in Optional(Decisions)
    BY <1>7 DEF RegistryOK, Keep
  <2>3. QED
    BY <1>3, <2>1, <2>2 DEF CcirDemands, Optional
<1>8. ASSUME NEW m \in Keep(reg.moes, scope)
      PROVE  m.demonstrated \/ ~Matured(m, now)
  <2>1. \A d \in MoeDemands(m, now) : d = Continue
    BY <1>5, <1>8, RowsDemand
  <2>2. QED
    BY <1>3, <2>1 DEF MoeDemands
<1>9. QED
  BY <1>4, <1>6, <1>7, <1>8

\* With the registry left alone, time only makes the verdict worse: nothing is
\* revalidated or shown by waiting (decide, orient.py:103-131).
THEOREM TimeOnlyWorsens ==
  ASSUME NEW reg, RegistryOK(reg), NEW scope,
         NEW now \in Int, NEW later \in Int, now <= later
  PROVE  Decision(reg, scope, now) <= Decision(reg, scope, later)
<1>1. ASSUME NEW v \in Int, NEW limit \in Int, Over(v, limit, now)
      PROVE  Over(v, limit, later)
  BY <1>1 DEF Over
<1>2. ASSUME NEW a \in Keep(reg.assumptions, scope)
      PROVE  AssumptionDemands(a, now) \subseteq AssumptionDemands(a, later)
  <2>1. a.validated \subseteq Int /\ a.maxAge \subseteq Int
    BY <1>2 DEF RegistryOK, Keep, Optional
  <2>2. Fresh(a, later) => Fresh(a, now)
    BY <1>1, <2>1 DEF Fresh
  <2>3. QED
    BY <2>2 DEF AssumptionDemands
<1>3. ASSUME NEW m \in Keep(reg.moes, scope)
      PROVE  MoeDemands(m, now) \subseteq MoeDemands(m, later)
  <2>1. m.opened \subseteq Int /\ m.window \subseteq Int
    BY <1>3 DEF RegistryOK, Keep, Optional
  <2>2. Matured(m, now) => Matured(m, later)
    BY <1>1, <2>1 DEF Matured
  <2>3. QED
    BY <2>2 DEF MoeDemands
<1>4. RowDemands(reg, scope, now) \subseteq RowDemands(reg, scope, later)
  BY <1>2, <1>3, RowsDemand
<1>5. Demands(reg, scope, now) \subseteq Demands(reg, scope, later)
  BY <1>4 DEF Demands
<1>6. QED
  BY <1>5, DemandsAreDecisions, WorstGrows DEF Decision

\* The verdict over everything is no milder than the verdict over any vertical
\* that declares something (decide, orient.py:69-78).
THEOREM WholeIsNoMilder ==
  ASSUME NEW reg, RegistryOK(reg), NEW v \in reg.verticals,
         NEW now \in Int, ~Vacuous(reg, v)
  PROVE  Decision(reg, v, now) <= Decision(reg, Anything, now)
<1>1. /\ Keep(reg.ccirs, v) \subseteq Keep(reg.ccirs, Anything)
      /\ Keep(reg.assumptions, v) \subseteq Keep(reg.assumptions, Anything)
      /\ Keep(reg.moes, v) \subseteq Keep(reg.moes, Anything)
  BY DEF Keep
<1>2. RowDemands(reg, v, now) \subseteq RowDemands(reg, Anything, now)
  BY <1>1, RowsDemand
<1>3. ~Vacuous(reg, Anything)
  BY <1>1 DEF Vacuous
<1>4. Demands(reg, v, now) \subseteq Demands(reg, Anything, now)
  BY <1>2, <1>3 DEF Demands
<1>5. QED
  BY <1>4, DemandsAreDecisions, WorstGrows DEF Decision

\* Declaring more never makes the verdict milder, except for a vertical that
\* declared nothing (decide, orient.py:80-139).
THEOREM MoreRowsAreNoMilder ==
  ASSUME NEW reg, NEW more, RegistryOK(reg), RegistryOK(more),
         reg.verticals = more.verticals, reg.ccirs \subseteq more.ccirs,
         reg.assumptions \subseteq more.assumptions,
         reg.moes \subseteq more.moes,
         NEW scope, NEW now \in Int, ~Vacuous(reg, scope)
  PROVE  Decision(reg, scope, now) <= Decision(more, scope, now)
<1>1. /\ Keep(reg.ccirs, scope) \subseteq Keep(more.ccirs, scope)
      /\ Keep(reg.assumptions, scope) \subseteq Keep(more.assumptions, scope)
      /\ Keep(reg.moes, scope) \subseteq Keep(more.moes, scope)
  BY DEF Keep
<1>2. RowDemands(reg, scope, now) \subseteq RowDemands(more, scope, now)
  BY <1>1, RowsDemand
<1>3. ~Vacuous(more, scope)
  BY <1>1 DEF Vacuous
<1>4. Demands(reg, scope, now) \subseteq Demands(more, scope, now)
  BY <1>2, <1>3 DEF Demands
<1>5. QED
  BY <1>4, DemandsAreDecisions, WorstGrows DEF Decision

-----------------------------------------------------------------------------
\* The order of the naturals as a relation, for WFMin.
LEMMA LessIsWellFounded ==
  \E R : /\ IsWellFoundedOn(R, Nat)
         /\ \A k, m \in Nat : <<k, m>> \in R <=> k < m
<1>1. \A k, m \in Nat : <<k, m>> \in OpToRel(<, Nat) <=> k < m
  BY DEF OpToRel
<1>2. QED
  BY <1>1, NatLessThanWellFounded

\* A set of naturals has a least one.
LEMMA LeastNatural ==
  ASSUME NEW S \in SUBSET Nat, S # {}
  PROVE  \E m \in S : \A k \in S : m <= k
<1>1. PICK R : /\ IsWellFoundedOn(R, Nat)
               /\ \A k, m \in Nat : <<k, m>> \in R <=> k < m
  BY LessIsWellFounded
<1>2. S \subseteq Nat
  OBVIOUS
<1>3. \E m \in S : \A k \in S : ~(<<k, m>> \in R)
  <2>1. IsWellFoundedOn(R, Nat)
    BY <1>1
  <2>2. QED
    BY <1>2, <2>1, WFMin, Zenon
<1>4. PICK m \in S : \A k \in S : ~(<<k, m>> \in R)
  BY <1>3
<1>5. ASSUME NEW k \in S
      PROVE  m <= k
  <2>1. k \in Nat /\ m \in Nat
    BY <1>2
  <2>2. ~(k < m)
    BY <1>1, <1>4, <2>1, Zenon
  <2>3. QED
    BY <2>1, <2>2
<1>6. QED
  BY <1>5

\* The demands met by the i-th step, with the CONTINUE the loop starts from.
Met(demands, i) == {Continue} \cup {demands[j] : j \in 1..i}

LEMMA MetAreDecisions ==
  ASSUME NEW n \in Nat, NEW demands \in [1..n -> Decisions], NEW i \in 0..n
  PROVE  Met(demands, i) \in SUBSET Decisions /\ Met(demands, i) # {}
<1>1. \A j \in 1..i : demands[j] \in Decisions
  OBVIOUS
<1>2. QED
  BY <1>1 DEF Met, Continue, Decisions

\* The worst of what was met and one more demand is what _worse() returns.
LEMMA WorseIsWorst ==
  ASSUME NEW S \in SUBSET Decisions, S # {}, NEW d \in Decisions
  PROVE  Worst(S \cup {d}) = Worse(Worst(S), d)
<1>1. Worst(S) \in S /\ \A e \in S : e <= Worst(S)
  BY WorstIsWorst
<1>2. /\ Worst(S \cup {d}) \in S \cup {d}
      /\ \A e \in S \cup {d} : e <= Worst(S \cup {d})
  <2>1. S \cup {d} \in SUBSET Decisions /\ S \cup {d} # {}
    OBVIOUS
  <2>2. QED
    BY <2>1, WorstIsWorst
<1>3. Worst(S \cup {d}) \in Int /\ Worst(S) \in Int /\ d \in Int
  <2>1. Worst(S \cup {d}) \in Decisions /\ Worst(S) \in Decisions
    BY <1>1, <1>2
  <2>2. QED
    BY <2>1 DEF Decisions
<1>4. QED
  BY <1>1, <1>2, <1>3 DEF Worse

\* For any number of rows, in any order and however often repeated, the loops
\* end with the worst demand they met: nothing met later takes a verdict back
\* (_worse, orient.py:60-61; the loops of decide, orient.py:83-131).
THEOREM InAnyOrder ==
  ASSUME NEW n \in Nat, NEW demands \in [1..n -> Decisions], NEW acc,
         InTurn(acc, demands, n), NEW i \in 0..n
  PROVE  acc[i] = Worst(Met(demands, i))
<1> DEFINE Wrong == {j \in 0..n : acc[j] # Worst(Met(demands, j))}
<1>1. SUFFICES ASSUME Wrong # {}
               PROVE  FALSE
  OBVIOUS
<1>2. PICK j \in Wrong : \A k \in Wrong : j <= k
  <2>1. Wrong \in SUBSET Nat
    OBVIOUS
  <2> HIDE DEF Wrong
  <2>2. QED
    BY <1>1, <2>1, LeastNatural
<1>3. CASE j = 0
  <2>1. Met(demands, 0) = {Continue}
    BY DEF Met
  <2>2. Worst({Continue}) = Continue
    BY WorstIsWorst DEF Continue, Decisions
  <2>3. QED
    BY <1>2, <1>3, <2>1, <2>2 DEF InTurn
<1>4. CASE j # 0
  <2>1. j - 1 \in 0..n /\ j - 1 \notin Wrong /\ j \in 1..n
    BY <1>2, <1>4
  <2>2. acc[j - 1] = Worst(Met(demands, j - 1))
    BY <2>1
  <2>3. Met(demands, j) = Met(demands, j - 1) \cup {demands[j]}
    BY <2>1 DEF Met
  <2>4. Worst(Met(demands, j)) = Worse(acc[j - 1], demands[j])
    BY <2>1, <2>2, <2>3, MetAreDecisions, WorseIsWorst
  <2>5. QED
    BY <1>2, <2>1, <2>4 DEF InTurn
<1>5. QED
  BY <1>3, <1>4

\* Whatever order the rows come in, decide() returns the decision of this
\* model, for a known scope that declares something (decide, orient.py:83-139).
THEOREM LoopsDecide ==
  ASSUME NEW reg, RegistryOK(reg), NEW scope, NEW now \in Int,
         scope = Anything \/ scope \in reg.verticals, ~Vacuous(reg, scope),
         NEW n \in Nat, NEW demands \in [1..n -> Decisions],
         RowDemands(reg, scope, now) = {demands[i] : i \in 1..n},
         NEW acc, InTurn(acc, demands, n)
  PROVE  acc[n] = Decision(reg, scope, now)
<1>1. acc[n] = Worst(Met(demands, n))
  BY InAnyOrder
<1>2. Met(demands, n) = Demands(reg, scope, now)
  BY DEF Met, Demands
<1>3. QED
  BY <1>1, <1>2 DEF Decision
=============================================================================
