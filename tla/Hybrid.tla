------------------------------- MODULE Hybrid -------------------------------
(***************************************************************************)
(* Hybrid (crates/entity-remote/src/hybrid.rs): a local and a remote store *)
(* under a declared policy.  Writes go to one side and then to the other;  *)
(* a side that did not follow is recorded as a divergence, and catch_up    *)
(* replays divergences later.  The remote may stop answering and the local *)
(* disk may fill at any point, a request may take effect and its reply be  *)
(* lost, and other clients of the remote act between any two calls.  Both  *)
(* stores keep StoreContract.                                              *)
(***************************************************************************)
EXTENDS StoreContract

CONSTANTS
  Policies,       \* the policies considered
  Setups,         \* who writes what, and which failures happen
  MaxDivergences  \* bound: divergences recorded at once

Policy == [authority        : {"local", "remote"},
           read_path        : {"local_first", "remote_first", "remote_only"},
           when_unreachable : {"refuse", "serve_stale"},
           on_divergence    : {"refuse", "record_divergence"}]

Side == {"local", "remote"}

(* Writes through the hybrid store, writes of other clients of the remote, *)
(* whether a remote write may land and its reply be lost, and whether the  *)
(* process may stop.                                                       *)
Setup == [writes : SUBSET Write, rivals : SUBSET Write,
          replies_lost : BOOLEAN, restarts : BOOLEAN]

Other(side) == IF side = "local" THEN "remote" ELSE "local"

(* Divergence; the destination is the other side. *)
Divergence == [subject : Subjects, revision : Nat, source : Side,
               record_id : RecordIds \cup {None}]

(* A decision is past the revision its write expects. *)
Forward(w) ==
  w.kind # "observe" /\ w.expect # Absent => w.expect < w.document.instance.revision

ASSUME HybridAssumption ==
  /\ Policies \subseteq Policy
  /\ \A one \in Setups :
       /\ DOMAIN one = {"writes", "rivals", "replies_lost", "restarts"}
       /\ one.writes \subseteq Write /\ one.rivals \subseteq Write
       /\ one.replies_lost \in BOOLEAN /\ one.restarts \in BOOLEAN
       /\ \A w \in one.writes \cup one.rivals : Forward(w)
  /\ MaxDivergences \in Nat
  /\ None \notin Write
  /\ None # "unreachable" /\ None # {} /\ None # << >>

VARIABLES
  setup,        \* fixed
  policy,       \* fixed when the store is made
  sides,        \* [Side -> Store]
  serving,      \* [Side -> BOOLEAN]: whether the next call to a side is served
  divergences,  \* oldest first
  call,         \* the write under way
  replay        \* the catch_up under way

vars == <<setup, policy, sides, serving, divergences, call, replay>>

Call == [pc : {"idle", "first", "second"}, write : Write \cup {None},
         answer : {"none", "ok", "unreachable"} \cup Refusals]

Idle == [pc |-> "idle", write |-> None, answer |-> "none"]

(* The state of catch_up: the divergences it took, those still to replay   *)
(* and those it keeps, what reconcile_divergence has read, the revision it *)
(* believes the destination at, the next record, the next observation to   *)
(* restore and the revision they are restored up to, and where to go after *)
(* them.                                                                   *)
Replay ==
  [pc           : {"idle", "remember", "next", "observations", "held", "existing",
                   "replay", "restore", "observe", "commit", "load", "events",
                   "compare", "mirror", "late"},
   taken        : Seq(Divergence),
   todo         : Seq(Divergence),
   still        : Seq(Divergence),
   records      : Seq(Envelope),
   observations : Seq(RecordedObservation),
   existing     : Seq(Envelope),
   revision     : Nat \cup {None},
   at           : Nat,
   next         : Nat,
   upto         : Nat \cup {None},
   after        : {"none", "commit", "load", "cleared"},
   instance     : Instance \cup {None},
   events       : Seq(Event)]

NoReplay ==
  [pc |-> "idle", taken |-> << >>, todo |-> << >>, still |-> << >>, records |-> << >>,
   observations |-> << >>, existing |-> << >>, revision |-> None, at |-> 1,
   next |-> 1, upto |-> None, after |-> "none", instance |-> None, events |-> << >>]

TypeOK ==
  /\ setup \in Setups
  /\ policy \in Policies
  /\ sides \in [Side -> Store]
  /\ serving \in [Side -> BOOLEAN]
  /\ divergences \in Seq(Divergence)
  /\ Len(divergences) <= MaxDivergences
  /\ call \in Call
  /\ replay \in Replay

Init ==
  /\ setup \in Setups
  /\ policy \in Policies
  /\ sides = [side \in Side |-> EmptyStore]
  /\ serving = [side \in Side |-> TRUE]
  /\ divergences = << >>
  /\ call = Idle
  /\ replay = NoReplay

Resting == call.pc = "idle" /\ replay.pc = "idle"

-----------------------------------------------------------------------------
(* Calls to a side. *)

(* A side starts or stops serving. *)
Flip(side) ==
  /\ serving' = [serving EXCEPT ![side] = ~@]
  /\ UNCHANGED <<setup, policy, sides, divergences, call, replay>>

(* What a write to a side may leave and answer, given what it comes to     *)
(* when served.  A transport error is "unreachable" whether or not the     *)
(* remote performed the request; a full disk fails the write and nothing   *)
(* else.                                                                   *)
Attempts(side, served) ==
  IF serving[side] THEN {served}
  ELSE IF side = "local" THEN {Answer(sides[side], "backend")}
  ELSE {Answer(sides[side], "unreachable")} \cup
       (IF setup.replies_lost THEN {Answer(served.store, "unreachable")} ELSE {})

Took(side, result) == sides' = [sides EXCEPT ![side] = result.store]

(* Whether a read of a side is answered: a full disk can still be read. *)
Answers(side) == side = "remote" => serving["remote"]

-----------------------------------------------------------------------------
(* Writes. *)

(* The remote is asked first, unless the local store is the authority and  *)
(* divergences are recorded.                                               *)
WriteOrder ==
  IF policy.authority = "local" /\ policy.on_divergence = "record_divergence"
  THEN <<"local", "remote">> ELSE <<"remote", "local">>

Valid(w) ==
  CASE w.kind = "commit" -> TRUE
    [] w.kind = "commit_recorded" -> CommitValid(w.document)
    [] w.kind = "observe" -> ObservationValid(w.document)

Respond(answer) == call' = [Idle EXCEPT !.answer = answer]

Begin(w) ==
  /\ Resting /\ Len(divergences) < MaxDivergences
  /\ IF Valid(w) THEN call' = [Idle EXCEPT !.pc = "first", !.write = w]
                 ELSE Respond("backend")
  /\ UNCHANGED <<setup, policy, sides, serving, divergences, replay>>

(* A first side that does not accept ends the write. *)
First ==
  /\ call.pc = "first"
  /\ \E result \in Attempts(WriteOrder[1], Perform(sides[WriteOrder[1]], call.write)) :
       /\ Took(WriteOrder[1], result)
       /\ IF result.outcome = "ok" THEN call' = [call EXCEPT !.pc = "second"]
                                   ELSE Respond(result.outcome)
  /\ UNCHANGED <<setup, policy, serving, divergences, replay>>

DivergenceOf(w, source) ==
  [subject   |-> SubjectOf(w),
   revision  |-> IF w.kind = "observe" THEN w.document.revision
                 ELSE w.document.instance.revision,
   source    |-> source,
   record_id |-> CASE w.kind = "commit" -> None
                   [] w.kind = "commit_recorded" -> w.document.envelope.record_id
                   [] w.kind = "observe" -> w.document.record_id]

Diverged_Dropped(w) == divergences

(* The side written first is the source of the catch-up. *)
Diverged(w) == Append(divergences, DivergenceOf(w, WriteOrder[1]))

(* A second side that does not accept is recorded.  The caller is told,    *)
(* unless the replica came second.                                         *)
Second ==
  /\ call.pc = "second"
  /\ \E result \in Attempts(WriteOrder[2], Perform(sides[WriteOrder[2]], call.write)) :
       /\ Took(WriteOrder[2], result)
       /\ IF result.outcome = "ok"
          THEN Respond("ok") /\ UNCHANGED divergences
          ELSE /\ divergences' = Diverged(call.write)
               /\ Respond(IF WriteOrder[1] = "local" THEN "ok" ELSE result.outcome)
  /\ UNCHANGED <<setup, policy, serving, replay>>

(* Another client writes to the remote. *)
OtherClient(w) ==
  /\ sides' = [sides EXCEPT !["remote"] = Perform(@, w).store]
  /\ UNCHANGED <<setup, policy, serving, divergences, call, replay>>

-----------------------------------------------------------------------------
(* catch_up. *)

Current == Head(replay.todo)
Source == Current.source
Destination == Other(Source)

At(pc) == replay.pc = pc

Unmoved == UNCHANGED <<setup, policy, serving, divergences, call>>

CatchUp ==
  /\ Resting /\ divergences # << >>
  /\ replay' = [NoReplay EXCEPT !.pc = "next", !.taken = divergences,
                                !.todo = divergences]
  /\ divergences' = << >>
  /\ UNCHANGED <<setup, policy, sides, serving, call>>

(* One divergence is done with: kept, or cleared. *)
Keep ==
  replay' = [NoReplay EXCEPT !.pc = "next", !.taken = replay.taken,
                             !.todo = Tail(replay.todo),
                             !.still = Append(replay.still, Current)]

Cleared ==
  replay' = [NoReplay EXCEPT !.pc = "next", !.taken = replay.taken,
                             !.todo = Tail(replay.todo),
                             !.still = replay.still]

Finish_Clears ==
  /\ At("next") /\ replay.todo = << >>
  /\ divergences' = << >>
  /\ replay' = NoReplay
  /\ UNCHANGED <<setup, policy, sides, serving, call>>

Finish ==
  /\ At("next") /\ replay.todo = << >>
  /\ divergences' = replay.still
  /\ replay' = NoReplay
  /\ UNCHANGED <<setup, policy, sides, serving, call>>

(* reconcile_divergence reads the history of the source, in two calls. *)
ReadRecords ==
  /\ At("next") /\ replay.todo # << >>
  /\ IF Answers(Source)
     THEN replay' = [replay EXCEPT !.pc = "observations",
                       !.records = sides[Source].records[Current.subject]]
     ELSE Keep
  /\ Unmoved /\ UNCHANGED sides

HoldsRecord(records, observations, r) ==
  \/ \E i \in DOMAIN records : records[i].record_id = r
  \/ \E i \in DOMAIN observations : observations[i].record_id = r

ReadObservations ==
  /\ At("observations")
  /\ LET found == sides[Source].observations[Current.subject] IN
     IF /\ Answers(Source)
        /\ \/ Current.record_id = None
           \/ HoldsRecord(replay.records, found, Current.record_id)
     THEN replay' = [replay EXCEPT !.observations = found,
                       !.pc = IF replay.records = << >> THEN "load" ELSE "held",
                       !.after = IF replay.records = << >> /\ found = << >>
                                 THEN "cleared" ELSE "none"]
     ELSE Keep
  /\ Unmoved /\ UNCHANGED sides

IsPrefixOf_AnyRevision(records, held) == TRUE

(* The destination holds nothing, or what some decision of the source      *)
(* produced.                                                               *)
IsPrefixOf(records, held) ==
  held # None => \E i \in DOMAIN records : records[i].result = held

ReadHeld ==
  /\ At("held")
  /\ LET held == sides[Destination].instances[Current.subject] IN
     IF Answers(Destination) /\ IsPrefixOf(replay.records, held)
     THEN replay' = [replay EXCEPT !.pc = "existing",
                       !.revision = revision_of(sides[Destination], Current.subject)]
     ELSE Keep
  /\ Unmoved /\ UNCHANGED sides

ReadExisting ==
  /\ At("existing")
  /\ IF Answers(Destination)
     THEN replay' = [replay EXCEPT !.pc = "replay",
                       !.existing = sides[Destination].records[Current.subject]]
     ELSE Keep
  /\ Unmoved /\ UNCHANGED sides

(* The revision the destination is believed at, and what a write expects. *)
Reached == IF replay.revision = None THEN 0 ELSE replay.revision

Expected_Absent == Absent

Expected == IF replay.revision = None THEN Absent ELSE replay.revision

IsDue_Never(o) == FALSE

(* restore_observations: those up to a revision. *)
IsDue(o) == replay.upto # None /\ o.revision <= replay.upto

Restore(upto, after) ==
  replay' = [replay EXCEPT !.pc = "restore", !.next = 1, !.upto = upto, !.after = after]

(* What a history holds under a record id: one entry at most. *)
Under(history, r) == {i \in DOMAIN history : history[i].record_id = r}

(* One envelope of the source: already there, in conflict, out of reach,   *)
(* or to be committed after the observations due before it.  Past the last *)
(* one, the rest of the observations and then the instance.                *)
ReplayRecord ==
  /\ At("replay")
  /\ IF replay.at > Len(replay.records)
     THEN Restore(replay.revision, "load")
     ELSE LET envelope == replay.records[replay.at]
              same     == Under(replay.existing, envelope.record_id)
          IN \/ /\ \E i \in same : replay.existing[i] = envelope
                /\ replay' = [replay EXCEPT !.at = @ + 1]
             \/ /\ \E i \in same : replay.existing[i] # envelope
                /\ Keep
             \/ /\ same = {} /\ envelope.result.revision # Reached + 1
                /\ Keep
             \/ /\ same = {} /\ envelope.result.revision = Reached + 1
                /\ Restore(replay.revision, "commit")
  /\ Unmoved /\ UNCHANGED sides

Restoring == replay.observations[replay.next]

(* One observation: one that is not due is left out, what the destination  *)
(* already holds is compared, and what it lacks is given to it.            *)
CompareObservation ==
  /\ At("restore") /\ replay.next <= Len(replay.observations)
  /\ LET held == sides[Destination].observations[Current.subject]
         same == Under(held, Restoring.record_id)
     IN \/ /\ \/ ~IsDue(Restoring)
              \/ Answers(Destination) /\ \E i \in same : held[i] = Restoring
           /\ replay' = [replay EXCEPT !.next = @ + 1]
        \/ /\ IsDue(Restoring) /\ Answers(Destination) /\ same = {}
           /\ replay' = [replay EXCEPT !.pc = "observe"]
        \/ /\ IsDue(Restoring)
           /\ Answers(Destination) => \E i \in same : held[i] # Restoring
           /\ Keep
  /\ Unmoved /\ UNCHANGED sides

RestoreObservation ==
  /\ At("observe")
  /\ \E result \in Attempts(Destination, observe(sides[Destination], Restoring)) :
       /\ Took(Destination, result)
       /\ IF result.outcome = "ok"
          THEN replay' = [replay EXCEPT !.pc = "restore", !.next = @ + 1]
          ELSE Keep
  /\ Unmoved

Restored ==
  /\ At("restore") /\ replay.next > Len(replay.observations)
  /\ IF replay.after = "cleared" THEN Cleared
     ELSE replay' = [replay EXCEPT !.pc = replay.after,
                       !.after = IF @ = "load" THEN "cleared" ELSE "none"]
  /\ Unmoved /\ UNCHANGED sides

CommitRecord ==
  /\ At("commit")
  /\ LET envelope == replay.records[replay.at]
         document == [instance |-> envelope.result, envelope |-> envelope]
     IN \E result \in Attempts(Destination,
                               commit_recorded(sides[Destination], document, Expected)) :
          /\ Took(Destination, result)
          /\ IF result.outcome = "ok"
             THEN replay' = [replay EXCEPT !.pc = "replay", !.at = @ + 1,
                               !.revision = envelope.result.revision]
             ELSE Keep
  /\ Unmoved

(* reconcile: the instance of the source, its events, and then the         *)
(* destination, which takes both when it is behind.                        *)
LoadSource ==
  /\ At("load")
  /\ LET held == sides[Source].instances[Current.subject] IN
     IF Answers(Source) /\ held # None
     THEN replay' = [replay EXCEPT !.pc = "events", !.instance = held]
     ELSE Keep
  /\ Unmoved /\ UNCHANGED sides

ReadEvents ==
  /\ At("events")
  /\ IF Answers(Source)
     THEN replay' = [replay EXCEPT !.pc = "compare",
                       !.events = EventsOf(sides[Source], Current.subject)]
     ELSE Keep
  /\ Unmoved /\ UNCHANGED sides

Reconciled ==
  IF replay.after = "cleared" THEN Cleared ELSE replay' = [replay EXCEPT !.pc = "late"]

(* legacy_import: an instance and the events past a revision, without an   *)
(* envelope.                                                               *)
legacy_import(instance, events, behind) ==
  [instance |-> instance, command |-> None,
   events |-> SelectSeq(events, LAMBDA event : event.revision > behind)]

(* The destination is compared with what was read, and given what it       *)
(* lacks at the revision it was compared at.                               *)
Compare ==
  /\ At("compare")
  /\ LET held   == sides[Destination].instances[Current.subject]
         behind == IF held = None THEN 0 ELSE held.revision
     IN \/ /\ Answers(Destination) /\ held = replay.instance
           /\ Reconciled
        \/ /\ Answers(Destination) /\ behind < replay.instance.revision
           /\ replay' = [replay EXCEPT !.pc = "mirror",
                           !.revision = revision_of(sides[Destination], Current.subject)]
        \/ /\ Answers(Destination) =>
                held # replay.instance /\ behind >= replay.instance.revision
           /\ Keep
  /\ Unmoved /\ UNCHANGED sides

Mirror ==
  /\ At("mirror")
  /\ \E result \in Attempts(Destination,
         commit(sides[Destination],
                legacy_import(replay.instance, replay.events, Reached), Expected)) :
       /\ Took(Destination, result)
       /\ IF result.outcome = "ok" THEN Reconciled ELSE Keep
  /\ Unmoved

(* Observations without any decision follow the instance. *)
Late ==
  /\ At("late")
  /\ IF Answers(Destination)
     THEN Restore(revision_of(sides[Destination], Current.subject), "cleared")
     ELSE Keep
  /\ Unmoved /\ UNCHANGED sides

(* What the caller has written down: the divergences of the last call that *)
(* returned.                                                               *)
Saved == IF replay.pc = "idle" THEN divergences ELSE replay.taken

(* The process stops between two calls or in the middle of a catch_up, and *)
(* the next one is handed back the saved divergences, those that catch_up  *)
(* had cleared among them.                                                 *)
Restart ==
  /\ setup.restarts /\ call.pc = "idle"
  /\ divergences' = << >>
  /\ replay' = IF Saved = << >> THEN NoReplay
               ELSE [NoReplay EXCEPT !.pc = "remember", !.taken = Saved, !.todo = Saved]
  /\ UNCHANGED <<setup, policy, sides, serving, call>>

(* One divergence is handed back; the same one handed back twice is held   *)
(* once.                                                                   *)
remember ==
  /\ At("remember")
  /\ divergences' = IF Current \in ToSet(divergences) THEN divergences
                    ELSE Append(divergences, Current)
  /\ replay' = IF Tail(replay.todo) = << >> THEN NoReplay
               ELSE [replay EXCEPT !.todo = Tail(@)]
  /\ UNCHANGED <<setup, policy, sides, serving, call>>

CatchUpStep ==
  \/ Finish \/ ReadRecords \/ ReadObservations \/ ReadHeld \/ ReadExisting
  \/ ReplayRecord \/ CompareObservation \/ RestoreObservation \/ Restored
  \/ CommitRecord \/ LoadSource \/ ReadEvents \/ Compare \/ Mirror \/ Late

Next ==
  \/ \E side \in Side : Flip(side)
  \/ \E w \in setup.writes : Begin(w)
  \/ First
  \/ Second
  \/ \E w \in setup.rivals : OtherClient(w)
  \/ CatchUp
  \/ CatchUpStep
  \/ Restart
  \/ remember

Spec == Init /\ [][Next]_vars

(* A call under way runs to its end, and the shell calls catch_up again    *)
(* and again.                                                              *)
FairSpec ==
  Spec /\ WF_vars(First) /\ WF_vars(Second) /\ WF_vars(CatchUpStep)
  /\ WF_vars(remember) /\ SF_vars(CatchUp)

-----------------------------------------------------------------------------
(* Reads. *)

Unreachable == [value |-> "unreachable", was_stale |-> TRUE]

(* Read::fresh or Read::stale, by the side that answered.  What a store    *)
(* does to its sides is the same for every read path, so the reads take    *)
(* the policy as an argument.                                              *)
ReadFrom(p, side, value) == [value |-> value, was_stale |-> side # p.authority]

LocalCopy(p, s) == ReadFrom(p, "local", sides["local"].instances[s])

read_via_remote(p, s) ==
  IF serving["remote"] THEN ReadFrom(p, "remote", sides["remote"].instances[s])
  ELSE IF p.when_unreachable = "refuse" THEN Unreachable
  ELSE LocalCopy(p, s)

load_read(p, s) ==
  CASE p.read_path = "local_first" ->
         IF LocalCopy(p, s).value # None \/ p.authority = "local"
         THEN LocalCopy(p, s) ELSE read_via_remote(p, s)
    [] p.read_path = "remote_first" -> read_via_remote(p, s)
    [] p.read_path = "remote_only" ->
         IF serving["remote"] THEN read_via_remote(p, s) ELSE Unreachable

(* StateProvider::load: a stale answer that found nothing is no answer. *)
load(p, s) ==
  IF load_read(p, s).was_stale /\ load_read(p, s).value = None THEN "unreachable"
  ELSE load_read(p, s).value

(* A local cache that lacks the subject answers for the remote. *)
ByReadPath_CacheAnswers(p, here, there, nothing) ==
  LET answer == IF serving["remote"] THEN there ELSE None IN
  CASE p.read_path = "remote_only" -> answer
    [] p.read_path = "remote_first" ->
         IF serving["remote"] \/ p.when_unreachable = "refuse" THEN answer ELSE here
    [] p.read_path = "local_first" -> here

(* The read path of ids and of events; None stands for the error. *)
ByReadPath(p, here, there, nothing) ==
  LET answer == IF serving["remote"] THEN there ELSE None IN
  CASE p.read_path = "remote_only" -> answer
    [] p.read_path = "remote_first" ->
         IF serving["remote"] \/ p.when_unreachable = "refuse" THEN answer ELSE here
    [] p.read_path = "local_first" ->
         IF here # nothing \/ p.authority = "local" THEN here ELSE answer

(* StateProvider::ids *)
ids_read(p) == ByReadPath(p, ids(sides["local"]), ids(sides["remote"]), {})

(* EventProvider::events *)
events_read(p, s) ==
  ByReadPath(p, EventsOf(sides["local"], s), EventsOf(sides["remote"], s), << >>)

-----------------------------------------------------------------------------
(* Properties. *)

Authority == sides[policy.authority]

(* The policies that move the sides as the store's own does. *)
ReadPolicies ==
  {[policy EXCEPT !.read_path = path, !.when_unreachable = answer] :
     path \in {"local_first", "remote_first", "remote_only"},
     answer \in {"refuse", "serve_stale"}}

(* Where the policy lets a read through the remote fall back on the local  *)
(* copy, it does so for ids and events whatever the copy holds.            *)
MayListStale(p) ==
  /\ p.read_path = "remote_first" /\ p.when_unreachable = "serve_stale"
  /\ ~serving["remote"]

(* Freshness is relative to the declared authority (store-v0.2.md section  *)
(* 3): whatever side load_read asked and whatever outages and replays left *)
(* on the two sides, a read that is not marked stale is what the authority *)
(* holds now, and load says "absent" only when the authority holds         *)
(* nothing.  Nor does a remote authority that could not be asked read as   *)
(* one that holds nothing: short of a policy that asks for stale copies,   *)
(* an empty list of ids and an empty log are its own.                      *)
ReadsAreHonest ==
  \A p \in ReadPolicies :
    /\ \A s \in Subjects :
         /\ ~load_read(p, s).was_stale => load_read(p, s).value = Authority.instances[s]
         /\ load(p, s) = None => Authority.instances[s] = None
    /\ p.authority = "remote" /\ ~MayListStale(p) =>
         /\ ids_read(p) = {} => ids(Authority) = {}
         /\ \A s \in Subjects :
              events_read(p, s) = << >> => EventsOf(Authority, s) = << >>

(* The divergences of a subject, those catch_up has in its hands included. *)
Outstanding(s, source) ==
  \E d \in ToSet(divergences \o replay.todo \o replay.still) :
    d.subject = s /\ d.source \in source

Pending(s) == call.pc = "second" /\ SubjectOf(call.write) = s

Missing(s, from, to) ==
  \/ ToSet(sides[from].records[s]) \ ToSet(sides[to].records[s]) # {}
  \/ ToSet(sides[from].observations[s]) \ ToSet(sides[to].observations[s]) # {}

(* A write that lost is never silent, and a cache never holds what the     *)
(* record of truth did not take: whatever the local side holds and the     *)
(* remote lacks is a divergence out of the local side, from the moment the *)
(* second call of a write returns until catch_up has delivered it.  Other  *)
(* clients, lost replies and interrupted catch-ups included.               *)
NeverSilent ==
  \A s \in Subjects :
    Missing(s, "local", "remote") =>
      \/ WriteOrder[1] = "local" /\ Pending(s)
      \/ Outstanding(s, {"local"})

Alone == setup.rivals = {}

(* Without other clients and lost replies the two sides never disagree on  *)
(* a subject with nothing recorded about it.                               *)
DisagreementIsRecorded ==
  Alone /\ ~setup.replies_lost /\ Resting =>
    \A s \in Subjects :
      sides["local"].instances[s] # sides["remote"].instances[s]
        => Outstanding(s, Side)

ClearsOne ==
  /\ replay.todo # << >> /\ replay'.pc = "next"
  /\ replay'.todo = Tail(replay.todo)
  /\ replay'.still = replay.still

(* catch_up clears a divergence only when the destination holds the very   *)
(* record the divergence names and has reached its revision: equal state   *)
(* alone does not establish that evidence was replicated (store-v0.2.md    *)
(* section 3).                                                             *)
ClearedIsReplicated ==
  [][ClearsOne =>
       LET s  == Current.subject
           to == sides'[Destination]
       IN /\ to.instances[s] # None
          /\ Current.revision <= to.instances[s].revision
          /\ Current.record_id # None =>
               /\ to.record_ids[Current.record_id] # None
               /\ to.record_ids[Current.record_id]
                    = sides[Source].record_ids[Current.record_id]]_vars

(* catch_up merges nothing: once the source has recorded decisions of a    *)
(* subject, an instance that catch_up replaces on the destination is one   *)
(* that such a decision produced, whoever wrote to the destination while   *)
(* it ran.  A local store that went on past its last recorded decision is  *)
(* left out: the remote may then be moved between the two and be taken for *)
(* a replica that is behind, as catch_up documents (hybrid.rs:333).        *)
NoForeignOverwrite ==
  [][/\ CatchUpStep /\ sides' # sides /\ replay.records # << >>
     /\ Source = "local" =>
          Last(replay.records).result = sides["local"].instances[Current.subject]
     => LET held == sides[Destination].instances[Current.subject] IN
        held # None /\ held # sides'[Destination].instances[Current.subject] =>
          \E i \in DOMAIN replay.records : replay.records[i].result = held]_vars

OnlyRecorded == Alone /\ \A w \in setup.writes : w.kind = "commit_recorded"

(* With recorded decisions only and no other client, divergences go away:  *)
(* once both sides serve for good, catch_up leaves none again and again.   *)
CatchUpDrains ==
  OnlyRecorded /\ <>[](\A side \in Side : serving[side])
    => []<>(divergences = << >> /\ Resting)

-----------------------------------------------------------------------------
(* The inductive invariant of the catch-up: what it has read, and how far  *)
(* the destination is known to have come.                                  *)

Working == replay.pc \notin {"idle", "remember", "next"}

Holds(store, s, entry) == \E i \in DOMAIN store.records[s] : store.records[s][i] = entry

(* No recorded decision of a subject is past the instance held.            *)
Covered(store) ==
  \A s \in Subjects : \A i \in DOMAIN store.records[s] :
    NotPast(store.records[s][i].result, store.instances[s])

SidesSound ==
  \A side \in Side :
    IndexIsExact(sides[side]) /\ Covered(sides[side]) /\ Placed(sides[side])

(* One call at a time, and one divergence in hand.                         *)
OneAtATime ==
  /\ replay.pc # "idle" => call.pc = "idle"
  /\ replay.pc \notin {"idle", "next"} => replay.todo # << >>
  /\ call.pc \in {"first", "second"} => call.write \in setup.writes /\ Valid(call.write)

(* All divergences go one way.                                             *)
AllFrom(held) == \A i \in DOMAIN held : held[i].source = WriteOrder[1]

OneWay ==
  /\ AllFrom(divergences) /\ AllFrom(replay.taken)
  /\ AllFrom(replay.todo) /\ AllFrom(replay.still)

(* The subject in hand has recorded decisions. *)
Replaying == Working /\ replay.records # << >>

(* The history that was read is still a part of the one of the source, and *)
(* all of it when nobody else writes there.                                *)
HistoryRead ==
  /\ Working =>
       LET held == sides[Source].records[Current.subject] IN
       /\ Keeps(replay.records, held)
       /\ Source = "local" => replay.records = held
  /\ Working /\ replay.pc # "observations" =>
       LET held == sides[Source].observations[Current.subject] IN
       /\ Keeps(replay.observations, held)
       /\ Source = "local" => replay.observations = held
  /\ Replaying /\ replay.pc \notin {"observations", "held", "existing"} =>
       Keeps(replay.existing, sides[Destination].records[Current.subject])

(* Where the steps after a history without decisions, and with them, lead. *)
WayOn ==
  /\ replay.pc \in {"next", "observations", "held", "existing"} => replay.at = 1
  /\ Replaying /\ replay.pc \in {"load", "events", "compare", "mirror"} => replay.after = "cleared"
  /\ replay.pc \in {"restore", "observe"} =>
       IF replay.records = << >> THEN replay.after = "cleared"
                                 ELSE replay.after \in {"commit", "load"}
  /\ replay.pc = "observe" => replay.next <= Len(replay.observations)
  /\ replay.pc = "late" => replay.records = << >>
  /\ replay.pc \in {"held", "existing", "replay", "commit"} => replay.records # << >>

(* The destination is where it was believed, or past it.                   *)
Believed ==
  Replaying /\ replay.pc \notin {"observations", "held", "mirror"} /\ replay.revision # None =>
    LET held == sides[Destination].instances[Current.subject] IN
    /\ held # None /\ replay.revision <= held.revision
    /\ \E i \in DOMAIN replay.records :
         /\ replay.records[i].result.revision = replay.revision
         /\ replay.revision = held.revision => held = replay.records[i].result

Committing ==
  \/ replay.pc = "commit"
  \/ replay.pc \in {"restore", "observe"} /\ replay.after = "commit"

(* The record to commit is the one after the revision reached.             *)
OneStepOn ==
  Replaying /\ Committing =>
    /\ replay.at <= Len(replay.records)
    /\ replay.records[replay.at].result.revision = Reached + 1

(* An instance that is mirrored is past the one it replaces.               *)
Ahead ==
  replay.pc = "mirror" /\ replay.revision # None =>
    replay.revision < replay.instance.revision

(* What has been replayed has arrived.                                     *)
Arrived ==
  Replaying /\ replay.pc \notin {"observations", "held", "existing"} =>
    \A j \in DOMAIN replay.records : j < replay.at =>
      Holds(sides[Destination], Current.subject, replay.records[j])

(* The records are all replayed before the instance is looked at.          *)
AllReplayed ==
  Replaying /\ replay.pc # "observations" /\ replay.after \in {"load", "cleared"} =>
    replay.at > Len(replay.records)

(* A local source stays as it was read.                                    *)
Loaded ==
  replay.pc \in {"events", "compare", "mirror"} =>
    /\ replay.instance # None /\ replay.instance.subject = Current.subject
    /\ Source = "local" => replay.instance = sides["local"].instances[Current.subject]

(* A local destination is moved by the catch-up alone.                     *)
LocalStays ==
  Replaying /\ Source = "remote" /\ replay.pc \notin {"observations", "held"} =>
    LET held == sides["local"].instances[Current.subject] IN
    held # None => \E i \in DOMAIN replay.records : replay.records[i].result = held

(* A store that writes to the remote first never gets ahead of it.         *)
NeverAhead ==
  WriteOrder[1] = "remote" =>
    /\ \A s \in Subjects : ~Missing(s, "local", "remote")
    /\ call.pc = "second" =>
         LET d == call.write.document IN
         /\ call.write.kind = "commit_recorded" =>
              sides["remote"].record_ids[d.envelope.record_id] = d
         /\ call.write.kind = "observe" => sides["remote"].record_ids[d.record_id] = d

=============================================================================
