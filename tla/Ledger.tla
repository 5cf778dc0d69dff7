------------------------------- MODULE Ledger -------------------------------
(***************************************************************************)
(* The ledger between those who write it and the one who audits it:        *)
(* publishers that bind and verify references (References), a verify()     *)
(* that recomputes them while they go on (Integrity), and files that       *)
(* change under both.  It asks whether an alarm always has a cause, and    *)
(* whether a cause always raises one.                                      *)
(***************************************************************************)
EXTENDS References

VARIABLES
  scan,      \* how far verify() is
  tampered,  \* history: the events that were damaged, or a reference of which
             \* broke after it was verified
  broken     \* history: those broken since the scan began and to this moment

Reader == INSTANCE Integrity WITH
  Events <- Events, Identity <- Identity, DirCount <- DirCount, DirOf <- DirOf,
  disk <- disk, binding <- binding, scan <- scan

ledgerVars == <<refVars, scan, tampered, broken>>

-----------------------------------------------------------------------------
\* With that content at its path, reference r no longer is what it names.
Breaks(r, content) ==
  \/ content = Symlink
  \/ r.intent = "immutable_ref" /\ content # r.digest

\* The references of the events there are, as <<event, reference>>.
Declared == UNION {{<<e, r>> : r \in binding[e]} : e \in installed}

BrokenNow ==
  {b \in Declared : disk[b[1]] # Absent /\ Breaks(b[2], disk[b[2].path])}

LedgerInit ==
  /\ Init
  /\ Reader!Init
  /\ tampered = {} /\ broken = {}

\* The step in which p's event joins the history.
Links(p) == pc[p] = "checking" /\ job[p].event \in installed' \ installed

\* What breaks before the link counts if it was verified before it broke.
Tampering ==
  tampered' = tampered
    \cup {e \in installed : disk[e] = Intact /\ disk'[e] # Intact}
    \cup {b[1] : b \in {c \in Declared : ~Breaks(c[2], disk[c[2].path])
                                        /\ Breaks(c[2], disk'[c[2].path])}}
    \cup {job[p].event : p \in
            {q \in Procs : /\ Links(q)
                           /\ \E r \in job[q].bound \cap job[q].stirred :
                                Breaks(r, disk[r.path])}}

\* A publication goes on, or a file changes.
Write ==
  /\ (\E p \in Procs : Publish(p)) \/ Environment
  /\ Tampering
  /\ broken' = broken \cap BrokenNow'
  /\ UNCHANGED scan

\* The audit goes on, next to all that.
Audit ==
  /\ Reader!Step
  /\ broken' = IF scan.at = "rest" THEN BrokenNow ELSE broken
  /\ UNCHANGED <<refVars, tampered>>

LedgerNext == Write \/ Audit

LedgerSpec == LedgerInit /\ [][LedgerNext]_ledgerVars

-----------------------------------------------------------------------------
(***************************************************************************)
(* Properties.                                                             *)
(***************************************************************************)

Bound == SUBSET Reference(Digests)

Job == [event: Events \cup {Nobody},
        left: SUBSET Reference(Digests \cup {Unbound}),
        bound: Bound, open: Bound, checked: Bound, stirred: Bound]

Scan == [at: {"rest", "load", "check", "done"}, dir: 0..DirCount,
         listed: SUBSET Events, loaded: SUBSET Events,
         left: SUBSET (Events \X Reference(Digests)),
         defects: SUBSET (Reader!Kinds \X Events)]

\* Every variable has its type: a reference past the locks has a digest, what
\* an installed event declares too, and an audit is of installed events.
TypeOK ==
  /\ disk \in [Paths -> {Absent, Symlink} \cup Digests]
  /\ installed \subseteq Events
  /\ binding \in [Events -> Bound]
  /\ lock \in [Locks -> Procs \cup {Nobody}]
  /\ pc \in [Procs -> {"idle", "binding", "locked", "checking"}]
  /\ job \in [Procs -> Job]
  /\ \A p \in Procs :
       /\ pc[p] # "idle" => job[p].event \in Events
       /\ pc[p] = "checking" => job[p].left \in Bound
  /\ faults \in Nat
  /\ scan \in Scan
  /\ scan.listed \cup scan.loaded \subseteq installed
  /\ tampered \subseteq installed
  /\ broken \subseteq BrokenNow

\* What the publisher admits although the reader never accepts it: an intent
\* the topology allows and integrity.py does not know, or a path with "..".
Foreign(r) == r.intent \notin Reader!Known \/ r.dotted

\* An audit that stops its reader has a cause outside the publisher: the
\* event it complains of was damaged, a target of it changed after it was
\* verified, or it has a reference outside the vocabulary of the audit.  It
\* never is a half-done or a concurrent publication, nor, unless two pointers
\* that share a writer have a lock or a directory each, a sequence published
\* twice (integrity.py:118-130; publisher.py:1046-1120, 1176-1180, 1235-1239).
Together(e, f) == LockOf[e] = LockOf[f] /\ DirOf[e] = DirOf[f]

AlarmIsJustified ==
  scan.at = "done" =>
    /\ \A d \in Reader!Alarms :
         d[2] \in tampered \/ \E r \in binding[d[2]] : Foreign(r)
    /\ \A d \in Reader!Duplicates :
         Together(d[1], d[2]) => d[1] \in tampered \/ d[2] \in tampered

\* An audit that lets its reader go on has missed nothing that was broken all
\* the while it ran, however the files moved during the scan
\* (integrity.py:216-281, 305-329).
DamageIsSeen ==
  scan.at = "done" /\ ~Reader!FailClosed => broken = {}

\* When an event is linked, each of its references, and everything that the
\* indexes among them declare, to any depth, was verified and is as verified
\* unless its target changed in the meantime.  The index is hashed in one read
\* and opened in another (publisher.py:1109-1119).
Listed(r) == IF r.path \in Events THEN binding[r.path] ELSE Lists[r.digest]

Held(p, r) == \/ r \in job[p].stirred
              \/ /\ r \in job[p].checked
                 /\ disk[r.path] = r.digest
                 /\ r.index => Listed(r) \subseteq job[p].checked

IndexIsVerified ==
  [][\A p \in Procs :
       Links(p) => \A r \in job[p].bound \cup job[p].checked : Held(p, r)
    ]_ledgerVars
=============================================================================
