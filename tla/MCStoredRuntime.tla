--------------------------- MODULE MCStoredRuntime ---------------------------
(***************************************************************************)
(* Two subjects of a two-step lifecycle: `open` may be closed or touched,  *)
(* `closed` may only be touched.  The second subject is created closed.    *)
(* Two shells and a batch caller share the provider.                       *)
(***************************************************************************)
EXTENDS StoredRuntime

CONSTANTS s1, s2, c1, c2, r1, r2, r3

MCInitialState == "new" :> "open" @@ "final" :> "closed"

MCLifecycle ==
  [op \in Operations |->
     CASE op = "close" -> "open" :> "closed"
       [] op = "touch" -> "open" :> "open" @@ "closed" :> "closed"]

MCEmits == "new" :> 0 @@ "final" :> 0 @@ "close" :> 2 @@ "touch" :> 1

Creation(s, r, input) ==
  [kind |-> "create", subject |-> s, record_id |-> r, expected |-> Absent, input |-> input]

Execution(e, r, op) ==
  [kind |-> "execute", subject |-> s1, record_id |-> r, expected |-> e, input |-> op]

Observation(r) ==
  [kind |-> "observe", subject |-> s1, record_id |-> r, expected |-> 1, input |-> "note"]

(* Creations of both subjects, executes that race at one revision or       *)
(* follow each other, each record id wanted by several of them, and a      *)
(* blank one.                                                              *)
MCRequests ==
  {Creation(s1, r1, "new"), Creation(s2, r1, "final"), Creation(s2, r2, "final"),
   Creation(s1, Blank, "new"),
   Execution(1, r2, "touch"), Execution(1, r2, "close"), Execution(1, r3, "close"),
   Execution(2, r3, "close"),
   Observation(r1), Observation(r3)}

Symmetry == Permutations(Clients)

=============================================================================
