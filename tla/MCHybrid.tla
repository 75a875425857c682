------------------------------ MODULE MCHybrid ------------------------------
(***************************************************************************)
(* One or two subjects behind a hybrid store, with writes that race with   *)
(* another client of the remote for the same revisions.                    *)
(***************************************************************************)
EXTENDS Hybrid

CONSTANTS s1, s2, r1, r2, r3

MCInitialState == "new" :> "open" @@ "draft" :> "closed"

MCLifecycle == "touch" :> ("open" :> "open" @@ "closed" :> "closed")

MCEmits == "new" :> 1 @@ "draft" :> 1 @@ "touch" :> 1

Created(s) == create(s, "new")

Drafted(s) == create(s, "draft")

Touched(decision) == execute(decision.instance, "touch")

Recorded(decision, r, expect) ==
  [kind |-> "commit_recorded", document |-> Seal(decision, r), expect |-> expect]

Unrecorded(decision, expect) ==
  [kind |-> "commit", document |-> decision, expect |-> expect]

Observed(s, revision, r) ==
  [kind |-> "observe", expect |-> None,
   document |-> [subject |-> s, revision |-> revision, record_id |-> r, note |-> "note"]]

(* Policies, by authority, on_divergence, read_path and when_unreachable. *)
PolicyOf(authority, on_divergence, read_path, when_unreachable) ==
  [authority |-> authority, read_path |-> read_path,
   when_unreachable |-> when_unreachable, on_divergence |-> on_divergence]

(* The policies a write or a catch-up can tell apart. *)
WritePolicies ==
  {PolicyOf(a, d, "remote_only", "refuse") :
     a \in Side, d \in {"refuse", "record_divergence"}}

(* Two decisions and an observation of one subject, and the first of them  *)
(* without an envelope.                                                    *)
RecordedWrites ==
  Write \cap
    {Unrecorded(Created(s1), Absent), Recorded(Created(s1), r1, Absent),
     Recorded(Touched(Created(s1)), r2, 1),
     Observed(s1, 1, r3)}

(* Another client creates the subject otherwise, and moves what it holds.  *)
RivalWrites ==
  Write \cap
    {Recorded(Drafted(s1), r2, Absent), Unrecorded(Touched(Drafted(s1)), 1)}

RecordedCommits ==
  Write \cap
    {Recorded(Created(s1), r1, Absent), Recorded(Touched(Created(s1)), r2, 1),
     Recorded(Created(s2), r3, Absent)}

(* A subject without envelopes, one with them, and observations of both. *)
MixedWrites ==
  Write \cap
    {Unrecorded(Created(s1), Absent), Unrecorded(Touched(Created(s1)), 1),
     Observed(s1, 1, r1), Recorded(Created(s2), r2, Absent), Observed(s2, 1, r3)}

(* The store races with another client and loses replies; it is alone,     *)
(* answers arrive, and its process stops now and then; it is alone and     *)
(* replies are lost.                                                       *)
MCSetups ==
  {[writes |-> RecordedWrites, rivals |-> RivalWrites, replies_lost |-> TRUE,
    restarts |-> FALSE],
   [writes |-> MixedWrites, rivals |-> {}, replies_lost |-> FALSE,
    restarts |-> TRUE],
   [writes |-> RecordedCommits, rivals |-> {}, replies_lost |-> TRUE,
    restarts |-> FALSE]}

(* A recorded decision, a decision without an envelope after it, and an    *)
(* observation of the revision that one reached.                           *)
SuffixWrites ==
  Write \cap
    {Recorded(Created(s1), r1, Absent), Unrecorded(Touched(Created(s1)), 1),
     Observed(s1, 2, r3)}

SuffixSetups ==
  {[writes |-> SuffixWrites, rivals |-> {}, replies_lost |-> FALSE,
    restarts |-> FALSE]}

=============================================================================
