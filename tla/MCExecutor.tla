----------------------------- MODULE MCExecutor -----------------------------
(***************************************************************************)
(* Two callers make the same few requests of two subjects: single records, *)
(* a named batch, single retries of its members, the same command spelled  *)
(* twice, other commands under used ids and keys, and malformed requests.  *)
(***************************************************************************)
EXTENDS Executor

CONSTANTS s1, s2, c1, c2, r1, r2, r3, b1, b2

MCInitialState == "new" :> "open"

MCLifecycle == "touch" :> ("open" :> "open")

MCEmits == "new" :> 0 @@ "touch" :> 1

MCNormal == "new" :> "new" @@ "touch" :> "touch" @@ "touch, defaulted" :> "touch"

Create(s, r) ==
  [kind |-> "create", subject |-> s, record_id |-> r, expected |-> Absent, input |-> "new"]

Execute(s, r, expected, input) ==
  [kind |-> "execute", subject |-> s, record_id |-> r, expected |-> expected, input |-> input]

Observe(s, r, revision) ==
  [kind |-> "observe", subject |-> s, record_id |-> r, expected |-> revision, input |-> "note"]

Single(action) == [key |-> [kind |-> "single", id |-> action.record_id], actions |-> <<action>>]

Batch(b, actions) == [key |-> [kind |-> "named", id |-> b], actions |-> actions]

MCRequests ==
  {Single(Create(s1, r1)), Single(Execute(s1, r2, 1, "touch")),
   Single(Execute(s1, r2, 1, "touch, defaulted")), Single(Observe(s1, r2, 1)),
   Batch(b1, <<Create(s2, r3), Observe(s1, r2, 1)>>),
   Batch(b1, <<Create(s1, r1), Execute(s1, r2, 1, "touch")>>),
   Batch(b2, <<Observe(s1, r2, 1)>>), Batch(b1, << >>),
   Batch(b2, <<Create(s1, r1), Create(s2, r1)>>)}

MCOrphans == {Single(Execute(s1, r2, 1, "touch, defaulted"))}

Created(s) == create(s, "new")

MCImports ==
  {[anchor |-> Created(s1).instance, evidence |-> <<Seal(Created(s1), r1)>>]}

Symmetry == Permutations(Callers)

=============================================================================
