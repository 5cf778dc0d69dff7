------------------------------ MODULE MCLedger -------------------------------
(***************************************************************************)
(* An instance of Ledger for TLC: an event of one role and its retry under *)
(* one identity and one lock; and an event of another role that writes     *)
(* under the same prefix, so under that identity too, with a lock and a    *)
(* directory of its own.  The first role's event answers the second's,     *)
(* takes it for an index, and cites an index that is a plain file.         *)
(* Ahead of it TLC evaluates the assumptions of MCAlgorithms.              *)
(***************************************************************************)
EXTENDS Ledger, MCAlgorithms, TLC

CONSTANTS a1, a1x, b1,  \* the events
          doc, index,   \* the files
          t1, t2        \* the texts

Ref(path, intent, digest) ==
  [path |-> path, intent |-> intent, digest |-> digest,
   answers |-> FALSE, index |-> FALSE, dotted |-> FALSE]

MCIdentity == [e \in {a1, a1x, b1} |-> [writer |-> "agent", sequence |-> 1]]

MCLockOf == (a1 :> "a") @@ (a1x :> "a") @@ (b1 :> "b")

MCDirOf == (b1 :> 1) @@ (a1 :> 2) @@ (a1x :> 2)

\* Read as an index, t1 declares that the document is t2.
MCLists == (t1 :> {Ref(doc, "immutable_ref", t2)}) @@ (t2 :> {})

\* The retry has a snapshot and, by a path with ".." in it, one under an
\* intent that only the topology knows.
MCRefs ==
     (b1 :> {Ref(doc, "immutable_ref", Unbound)})
  @@ (a1x :> {Ref(doc, "snapshot_at_publication", t1),
              [Ref(index, "working_copy", t2) EXCEPT !.dotted = TRUE]})
  @@ (a1 :> {[Ref(b1, "immutable_ref", Unbound) EXCEPT !.answers = TRUE,
                                                       !.index = TRUE],
             [Ref(index, "immutable_ref", t1) EXCEPT !.index = TRUE]})

Symmetry == Permutations(Procs)
=============================================================================
