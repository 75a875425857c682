---------------------------- MODULE MCFileStore ----------------------------
(***************************************************************************)
(* Two subjects in two entity directories and two handles.  The writes     *)
(* compete for one revision, for a record id across subjects, and as a     *)
(* decision and an observation under one id.                               *)
(***************************************************************************)
EXTENDS FileStore

CONSTANTS s1, s2, h1, h2, r1, r2

MCInitialState == "new" :> "open"

MCLifecycle == "touch" :> ("open" :> "open")

MCEmits == "new" :> 1 @@ "touch" :> 1

MCEntity == s1 :> "order" @@ s2 :> "invoice"

Created(s) == create(s, "new")

Touched(s) == execute(Created(s).instance, "touch")

Recorded(decision, r, expect) ==
  [kind |-> "commit_recorded", document |-> Seal(decision, r), expect |-> expect]

Observed(s, r) ==
  [kind |-> "observe", expect |-> None,
   document |-> [subject |-> s, revision |-> 1, record_id |-> r, note |-> "note"]]

Unrecorded(decision, expect) ==
  [kind |-> "commit", document |-> decision, expect |-> expect]

MCWrites ==
  Write \cap
    {Recorded(Created(s1), r1, Absent), Recorded(Created(s2), r1, Absent),
     Recorded(Touched(s1), r2, 1), Observed(s1, r1), Observed(s2, r2),
     Unrecorded(Touched(s1), 1), Recorded(Created(s2), Blank, Absent)}

(* Enough to lose an acknowledged write. *)
PowerWrites ==
  Write \cap
    {Recorded(Created(s1), r1, Absent), Recorded(Touched(s1), r2, 1),
     Unrecorded(Created(s2), Absent)}

(* Processes die and I/O fails; the machine loses power and I/O fails. *)
MCSetups ==
  {[writes |-> MCWrites, faults |-> {"epoch", "marker", "stage", "install"},
    process_crashes |-> TRUE, power_cuts |-> FALSE],
   [writes |-> PowerWrites, faults |-> {"stage", "install"},
    process_crashes |-> FALSE, power_cuts |-> TRUE]}

(* Only syncing the directory after a rename fails. *)
SyncFault ==
  {[writes |-> MCWrites, faults |-> {"directory"},
    process_crashes |-> FALSE, power_cuts |-> FALSE]}

HandleSymmetry == Permutations(Handles)

(* An empty root, or a migrated one that holds the first subject with its  *)
(* legacy event.                                                           *)
WithLegacy ==
  {None,
   (s1 :> [Fresh(Created(s1).instance) EXCEPT !.events = Created(s1).events]
    @@ s2 :> None)}

=============================================================================
