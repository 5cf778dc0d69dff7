------------------------------- MODULE Metrics -------------------------------
(***************************************************************************)
(* What coordination_substrate/metrics_reference.py holds against a ledger *)
(* before it computes anything from it: the references of its records, and *)
(* the identities claimed by more than one of them.  It is the calculator  *)
(* that integrity.py was distilled from, and does not import it.           *)
(*                                                                         *)
(* A reference is a mapping found somewhere in a record, whose keys may be *)
(* Missing, Null, or IllTyped (a value of another type than the one meant):*)
(*   path       what it names, or Missing, or IllTyped for no string       *)
(*   intent     its reference_intent: Missing, Null, or what it declares   *)
(*   sha256     its digest: Missing, Null, IllTyped, or a content          *)
(*   declared   its sha256_declared, likewise                              *)
(*   form       the first table that its path matches: "event" (append-    *)
(*              only directories), "snapshot", "artifact", or "none"       *)
(*   authority  it sits right under an authority-bearing key               *)
(*   outside    its path, read as text, leaves the root                    *)
(*   dotted     its path is absolute or has a ".." component               *)
(*                                                                         *)
(* `disk' gives what a path reads as, links followed, Absent for nothing;  *)
(* `linked' are the paths that are links or resolve out of the root.  A    *)
(* digest is the content it is the digest of.  A record has its path and   *)
(* its identity, a set of at most one; `rebounds' are the loaded rebound   *)
(* events whose supersedes field is well-formed, each with its target and  *)
(* digest.  Nothing asks that a rebound be later than what it supersedes.  *)
(***************************************************************************)
EXTENDS Naturals, TLAPS

Absent == "absent"

Missing == "missing"
Null == "null"
IllTyped == "ill-typed"

Known == {"immutable_ref", "snapshot_at_publication"}

\* The digest that walk() compares with: sha256, or what was declared of it.
Digest(r) == IF r.sha256 \in {Missing, Null} THEN r.declared ELSE r.sha256

\* The mappings that walk() takes for references; it says nothing of others.
Collected(r) ==
  /\ r.path \notin {Missing, IllTyped}
  /\ Digest(r) \notin {Missing, Null}

\* classify_reference_intent(): from the declaration or the path's form.
Intent(r) ==
  IF r.intent \notin {Missing, Null} THEN {r.intent} \cap Known
  ELSE IF r.form = "snapshot" THEN {"snapshot_at_publication"}
  ELSE IF r.form = "event" \/ r.authority \/ r.form = "artifact"
         THEN {"immutable_ref"}
  ELSE {}

\* The bucket of a reference in check_hash_bindings().
Bucket(r, disk) ==
  IF ~Collected(r) THEN "skipped"
  ELSE IF Digest(r) = IllTyped \/ r.outside THEN "malformed"
  ELSE IF Intent(r) = {} THEN "unknown"
  ELSE IF disk[r.path] = Absent THEN "missing"
  ELSE IF disk[r.path] = Digest(r) THEN "sound"
  ELSE IF "immutable_ref" \in Intent(r) THEN "immutable-failure"
  ELSE "snapshot-drift"

\* Only drift of a snapshot is reported without an alarm.
Alarms(r, disk) == Bucket(r, disk) \notin {"skipped", "sound", "snapshot-drift"}

\* check_identities(): the paths of each identity claimed more than once.
Claimants(records, identity) ==
  {r.path : r \in {s \in records : identity \in s.identity}}

Duplicates(records) ==
  {c \in {Claimants(records, i) : i \in UNION {r.identity : r \in records}} :
     \E p, q \in c : p # q}

\* Rebounds that name a record of the duplicate, and those whose digest is that
\* of the file they supersede.
Naming(rebounds, paths) == {b \in rebounds : b.target \in paths}

Verified(rebounds, paths, disk) ==
  {b \in Naming(rebounds, paths) :
     disk[b.target] # Absent /\ disk[b.target] = b.digest}

Retained(rebounds, paths, disk) ==
  paths \ {b.target : b \in Verified(rebounds, paths, disk)}

\* reconcile_duplicates(): every rebound that names one of the paths holds, and
\* together they leave one.
Reconciled(rebounds, paths, disk) ==
  /\ Verified(rebounds, paths, disk) # {}
  /\ Verified(rebounds, paths, disk) = Naming(rebounds, paths)
  /\ \E p \in paths : Retained(rebounds, paths, disk) = {p}

\* fail_closed: `defects' are the files that did not load.
FailClosed(defects, records, rebounds, refs, disk) ==
  \/ defects # {}
  \/ \E paths \in Duplicates(records) : ~Reconciled(rebounds, paths, disk)
  \/ \E r \in refs : Alarms(r, disk)

-----------------------------------------------------------------------------
\* The mappings that integrity.py takes for references (_declared_bindings).
Declared(r) == Missing \notin {r.intent, r.path, r.sha256}

\* What it finds wrong with one (check_bindings).
Peer(r, disk, linked) ==
  IF ~Declared(r) THEN "skipped"
  ELSE IF r.path = IllTyped \/ r.sha256 \in {Null, IllTyped} THEN "malformed"
  ELSE IF r.intent \notin Known THEN "unknown"
  ELSE IF r.dotted THEN "path-escape"
  ELSE IF r.path \in linked THEN "redirected"
  ELSE IF disk[r.path] = Absent /\ r.intent # "immutable_ref"
         THEN "snapshot-absent"
  ELSE IF disk[r.path] = Absent THEN "immutable-failure"
  ELSE IF disk[r.path] = r.sha256 THEN "sound"
  ELSE IF r.intent = "immutable_ref" THEN "immutable-failure"
  ELSE "snapshot-drift"

PeerAlarms(r, disk, linked) ==
  Peer(r, disk, linked)
    \notin {"skipped", "sound", "snapshot-drift", "snapshot-absent"}

-----------------------------------------------------------------------------
\* What the successor stops at and the calculator lets pass is a reference
\* whose path is no string, whose digest or intent is null, or whose path makes
\* a detour or goes over a link; of any other, integrity is no stricter
\* (check_hash_bindings, metrics_reference.py:383-478, against check_bindings,
\* integrity.py:216-281; "superseded by integrity.py", README.md:233).
THEOREM OnlyIntegrityAlarms ==
  ASSUME NEW disk, NEW linked, NEW r,
         PeerAlarms(r, disk, linked), ~Alarms(r, disk)
  PROVE  \/ r.path = IllTyped
         \/ r.sha256 = Null
         \/ r.intent = Null
         \/ r.dotted
         \/ r.path \in linked
<1>1. SUFFICES ASSUME r.path # IllTyped, r.sha256 # Null, r.intent # Null,
                      ~r.dotted, r.path \notin linked
               PROVE  FALSE
  OBVIOUS
<1>2. Missing \notin {r.intent, r.path, r.sha256}
  BY DEF PeerAlarms, Peer, Declared
<1>3. /\ Digest(r) = r.sha256
      /\ Collected(r)
      /\ Intent(r) = {r.intent} \cap Known
  BY <1>1, <1>2 DEF Digest, Collected, Intent
<1>4. r.sha256 # IllTyped /\ r.intent \in Known
  BY <1>3 DEF Alarms, Bucket
<1>5. Peer(r, disk, linked) = "immutable-failure"
  BY <1>1, <1>2, <1>4 DEF PeerAlarms, Peer, Declared
<1>6. /\ r.intent = "immutable_ref"
      /\ disk[r.path] = Absent \/ disk[r.path] # r.sha256
  BY <1>1, <1>2, <1>4, <1>5 DEF Peer, Declared
<1>7. Alarms(r, disk)
  BY <1>3, <1>6 DEF Alarms, Bucket, Known
<1>8. QED
  BY <1>7

\* What the calculator stops at and the successor lets pass is a reference
\* without an intent or with its digest under the other key, which integrity
\* never sees, a path that leaves the root in text only ("~", a backslash), or
\* a snapshot whose target is gone, which integrity expects
\* (_declared_bindings, integrity.py:192-214; 251-258).
THEOREM OnlyCalculatorAlarms ==
  ASSUME NEW disk, NEW linked, NEW r,
         Alarms(r, disk), ~PeerAlarms(r, disk, linked)
  PROVE  \/ r.intent = Missing
         \/ r.sha256 = Missing
         \/ r.outside /\ ~r.dotted
         \/ disk[r.path] = Absent /\ r.intent = "snapshot_at_publication"
<1>1. SUFFICES ASSUME r.intent # Missing, r.sha256 # Missing,
                      ~(r.outside /\ ~r.dotted)
               PROVE  disk[r.path] = Absent /\ r.intent = "snapshot_at_publication"
  OBVIOUS
<1>2. Collected(r)
  BY DEF Alarms, Bucket
<1>3. Declared(r) /\ r.path # IllTyped
  BY <1>1, <1>2 DEF Declared, Collected
<1>4. /\ r.sha256 \notin {Null, IllTyped}
      /\ r.intent \in Known
      /\ ~r.dotted
      /\ r.path \notin linked
  BY <1>3 DEF PeerAlarms, Peer
<1>5. Digest(r) = r.sha256 /\ Intent(r) = {r.intent}
  BY <1>1, <1>4 DEF Digest, Intent, Missing, Null, Known
<1>6. disk[r.path] = Absent \/ (disk[r.path] # r.sha256 /\ r.intent = "immutable_ref")
  BY <1>1, <1>2, <1>4, <1>5 DEF Alarms, Bucket, Known
<1>7. ~(disk[r.path] # r.sha256 /\ r.intent = "immutable_ref")
  BY <1>3, <1>4 DEF PeerAlarms, Peer
<1>8. r.intent # "immutable_ref"
  BY <1>3, <1>4, <1>6 DEF PeerAlarms, Peer
<1>9. QED
  BY <1>4, <1>6, <1>8 DEF Known

\* A reconciled identity keeps one record, which no rebound names, and every
\* other record is superseded by a rebound bound to what its file holds now:
\* rebounds never erase a record that they do not match, nor all of them
\* (reconcile_duplicates, metrics_reference.py:311-380).
THEOREM ReconciledKeepsOne ==
  ASSUME NEW disk, NEW rebounds, NEW paths, Reconciled(rebounds, paths, disk)
  PROVE  \E p \in paths :
           /\ \A b \in rebounds : b.target # p
           /\ \A q \in paths \ {p} :
                \E b \in rebounds : b.target = q /\ b.digest = disk[q]
<1>1. PICK p \in paths : Retained(rebounds, paths, disk) = {p}
  BY DEF Reconciled
<1>2. ASSUME NEW b \in rebounds PROVE b.target # p
  <2>1. SUFFICES ASSUME b.target = p PROVE FALSE
    OBVIOUS
  <2>2. b \in Verified(rebounds, paths, disk)
    BY <2>1 DEF Reconciled, Naming
  <2>3. p \notin Retained(rebounds, paths, disk)
    BY <2>1, <2>2 DEF Retained
  <2>4. QED
    BY <1>1, <2>3
<1>3. ASSUME NEW q \in paths \ {p}
      PROVE  \E b \in rebounds : b.target = q /\ b.digest = disk[q]
  <2>1. q \notin Retained(rebounds, paths, disk)
    BY <1>1, <1>3
  <2>2. PICK b \in Verified(rebounds, paths, disk) : b.target = q
    BY <1>3, <2>1 DEF Retained
  <2>3. QED
    BY <2>2 DEF Verified, Naming
<1>4. QED
  BY <1>2, <1>3

\* When the calculator lets a ledger pass, every reference that it collects has
\* a known intent and a target, and one that no longer matches is a snapshot;
\* two records of one identity are told apart by a rebound that holds (fail_closed,
\* metrics_reference.py:630-635).
THEOREM PassAccounts ==
  ASSUME NEW disk, NEW defects, NEW records, NEW rebounds, NEW refs,
         ~FailClosed(defects, records, rebounds, refs, disk)
  PROVE  /\ \A r \in refs :
              Collected(r) =>
                /\ Intent(r) # {} /\ ~r.outside /\ disk[r.path] # Absent
                /\ \/ disk[r.path] = Digest(r)
                   \/ "immutable_ref" \notin Intent(r)
         /\ \A r, s \in records :
              /\ r.path # s.path
              /\ r.identity \cap s.identity # {}
              => \E b \in rebounds :
                   b.target \in {r.path, s.path} /\ b.digest = disk[b.target]
<1>1. ASSUME NEW r \in refs, Collected(r)
      PROVE  /\ Intent(r) # {} /\ ~r.outside /\ disk[r.path] # Absent
             /\ \/ disk[r.path] = Digest(r)
                \/ "immutable_ref" \notin Intent(r)
  <2>1. ~Alarms(r, disk)
    BY DEF FailClosed
  <2>2. QED
    BY <1>1, <2>1 DEF Alarms, Bucket
<1>2. ASSUME NEW r \in records, NEW s \in records, r.path # s.path,
             NEW i \in r.identity \cap s.identity
      PROVE  \E b \in rebounds :
               b.target \in {r.path, s.path} /\ b.digest = disk[b.target]
  <2> DEFINE c == Claimants(records, i)
  <2>1. r.path \in c /\ s.path \in c
    BY <1>2 DEF Claimants
  <2>2. i \in UNION {q.identity : q \in records}
    BY <1>2
  <2>3. c \in Duplicates(records)
    BY <1>2, <2>1, <2>2 DEF Duplicates
  <2>4. Reconciled(rebounds, c, disk)
    BY <2>3 DEF FailClosed
  <2> HIDE DEF c
  <2>5. PICK p \in c : \A q \in c \ {p} :
          \E b \in rebounds : b.target = q /\ b.digest = disk[q]
    BY <2>4, ReconciledKeepsOne
  <2>6. QED
    BY <1>2, <2>1, <2>5
<1>3. QED
  BY <1>1, <1>2
=============================================================================
