----------------------------- MODULE MCEventlog -----------------------------
(***************************************************************************)
(* Two callers of one handle over one tenant: single records, a batch that *)
(* repeats one of them, imports of the same subject, a refusal.            *)
(***************************************************************************)
EXTENDS EventlogAdapter

CONSTANTS s1, s2, c1, c2, h1, r1, r2, r3, b1, a1, a2

MCInitialState == "new" :> "open"

MCLifecycle == "touch" :> ("open" :> "open")

MCEmits == "new" :> 0 @@ "touch" :> 1

MCHandleAuthority == [h \in Handles |-> a1]

Created(s, r) == Seal(create(s, "new"), r)

Touched(s, r) == Seal(execute(create(s, "new").instance, "touch"), r)

Observed(s, r) == [subject |-> s, revision |-> 1, record_id |-> r, note |-> "note"]

Single(entry, expect) ==
  [key |-> [kind |-> "single", id |-> EntryId(entry)],
   members |-> <<[expect |-> expect, entry |-> entry]>>]

Named(members) == [key |-> [kind |-> "named", id |-> b1], members |-> members]

Creates(s, r) == [expect |-> Absent, entry |-> Created(s, r)]

MCBatches ==
  {Single(Created(s1, r1), Absent), Single(Observed(s1, r2), 1), Single(Touched(s1, r3), 1),
   Named(<<Creates(s1, r1), Creates(s2, r3)>>)}

MCSeeds == {None, Single(Created(s1, r1), Absent)}

Legacy(s, r) == [anchor |-> create(s, "new").instance, evidence |-> <<Created(s, r)>>]

MCImportBatches == {<<Legacy(s1, r1)>>, <<Legacy(s1, r1), Legacy(s2, r3), Legacy(s1, r1)>>}

Setup(atomic_blobs, reliable, attempts) ==
  [atomic_blobs |-> atomic_blobs, reliable |-> reliable, ATTEMPTS |-> attempts]

MCSetups ==
  {Setup(TRUE, TRUE, 1), Setup(FALSE, TRUE, 2), Setup(TRUE, FALSE, 2), Setup(FALSE, FALSE, 1)}

Symmetry == Permutations(Callers)

=============================================================================
