---------------------------- MODULE StoredRuntime ----------------------------
(***************************************************************************)
(* StoredRuntime (crates/entity-shell/src/lib.rs): shells that share one   *)
(* provider.  Each runs its calls through separate provider calls - load,  *)
(* history, commit - so another shell may act between any two of them.  A  *)
(* shell may die at any point, or lose the reply of a commit that landed,  *)
(* and send the same request again.  Beside the shells, one caller of      *)
(* AtomicBatchStore::commit_batch writes unrecorded decisions.             *)
(***************************************************************************)
EXTENDS StoreContract, FiniteSets

CONSTANTS
  Clients,    \* shells
  Requests,   \* the requests the shells send
  MaxBatch    \* bound: decisions in one batch

AllRequests ==
  [kind : {"create"}, subject : Subjects, record_id : RecordId,
   expected : {Absent}, input : Creations]
  \cup
  [kind : {"execute"}, subject : Subjects, record_id : RecordId,
   expected : Nat, input : Operations]
  \cup
  [kind : {"observe"}, subject : Subjects, record_id : RecordId,
   expected : Nat, input : Notes]

AtomicCommit == [decision : Decision, expect : Nat \cup {Absent}]

ASSUME RuntimeAssumption ==
  /\ Requests \subseteq AllRequests
  /\ MaxBatch \in Nat
  /\ None \notin AllRequests \cup Store

VARIABLES
  store,   \* the shared provider
  calls,   \* each shell's call
  batch    \* the batch caller: its plan, and the transaction when open

vars == <<store, calls, batch>>

Call ==
  [pc       : {"idle", "start", "match", "commit", "done"},
   request  : AllRequests \cup {None},
   instance : Instance \cup {None},
   commit   : RecordedCommit \cup {None},
   answer   : {"none", "ok", "not_found", "stale_revision", "kernel",
               "invalid_recording"} \cup Refusals]

Idle == [pc |-> "idle", request |-> None, instance |-> None,
         commit |-> None, answer |-> "none"]

(* candidate is the clone commit_batch works on; None when no transaction  *)
(* is open.                                                                *)
Batch == [entries : Seq(AtomicCommit), next : Nat, candidate : Store \cup {None}]

NoBatch == [entries |-> << >>, next |-> 1, candidate |-> None]

TypeOK ==
  /\ store \in Store
  /\ calls \in [Clients -> Call]
  /\ batch \in Batch

Init ==
  /\ store = EmptyStore
  /\ calls = [c \in Clients |-> Idle]
  /\ batch = NoBatch

-----------------------------------------------------------------------------
(* The shells. *)

(* `&mut self`: nobody else touches the provider inside a batch. *)
Free == batch.candidate = None

At(c, pc, kind) == calls[c].pc = pc /\ calls[c].request.kind = kind

Respond(c, answer, document) ==
  calls' = [calls EXCEPT ![c].pc = "done", ![c].answer = answer,
                         ![c].commit = document]

Submit(c, q) ==
  /\ calls[c].pc = "idle"
  /\ calls' = [calls EXCEPT ![c] = [Idle EXCEPT !.pc = "start", !.request = q]]
  /\ UNCHANGED <<store, batch>>

(* StoredRuntime::create: the kernel decides, the recording is sealed, and *)
(* one provider call commits it.                                           *)
Create(c) ==
  /\ Free /\ At(c, "start", "create")
  /\ LET q      == calls[c].request
         sealed == Seal(create(q.subject, q.input), q.record_id)
         result == commit_recorded(store, sealed, Absent)
     IN IF q.record_id = Blank
        THEN Respond(c, "invalid_recording", None) /\ UNCHANGED store
        ELSE Respond(c, result.outcome, sealed) /\ store' = result.store
  /\ UNCHANGED batch

(* StoredRuntime::execute, the load. *)
Get(c) ==
  /\ Free /\ At(c, "start", "execute")
  /\ LET held == store.instances[calls[c].request.subject]
     IN IF held = None
        THEN Respond(c, "not_found", None)
        ELSE calls' = [calls EXCEPT ![c].pc = "match", ![c].instance = held]
  /\ UNCHANGED <<store, batch>>

MatchesRequest_OffByOne(envelope, q) ==
  /\ envelope.result.subject = q.subject
  /\ envelope.result.revision = q.expected
  /\ envelope.command = q.input

(* Whether an envelope answers this very request: same subject, produced   *)
(* at the expected revision, by the same command.                          *)
MatchesRequest(envelope, q) ==
  /\ envelope.result.subject = q.subject
  /\ envelope.result.revision = q.expected + 1
  /\ envelope.command = q.input

(* StoredRuntime::execute, the history read and everything up to the       *)
(* commit: a retry gets the original commit, or a conflict; then the stale *)
(* check against the instance loaded before, the kernel, and the seal.     *)
History(c) ==
  /\ Free /\ At(c, "match", "execute")
  /\ LET q     == calls[c].request
         s     == q.subject
         held  == calls[c].instance
         found == HeldRecord(store, s, q.record_id)
         first == store.records[s][CHOOSE i \in found : \A j \in found : i <= j]
     IN CASE found # {} /\ MatchesRequest(first, q) ->
               Respond(c, "ok", [instance |-> first.result, envelope |-> first])
          [] found # {} /\ ~MatchesRequest(first, q) ->
               Respond(c, "record_conflict", None)
          [] found = {} /\ held.revision # q.expected ->
               Respond(c, "stale_revision", None)
          [] found = {} /\ held.revision = q.expected /\ ~Admits(held, q.input) ->
               Respond(c, "kernel", None)
          [] found = {} /\ held.revision = q.expected /\ Admits(held, q.input) ->
               IF q.record_id = Blank
               THEN Respond(c, "invalid_recording", None)
               ELSE calls' = [calls EXCEPT ![c].pc = "commit",
                       ![c].commit = Seal(execute(held, q.input), q.record_id)]
  /\ UNCHANGED <<store, batch>>

(* StoredRuntime::execute, the commit at the revision the caller observed. *)
Commit(c) ==
  /\ Free /\ At(c, "commit", "execute")
  /\ LET q      == calls[c].request
         result == commit_recorded(store, calls[c].commit, q.expected)
     IN /\ store' = result.store
        /\ Respond(c, result.outcome, calls[c].commit)
  /\ UNCHANGED batch

ObservationOf(q) ==
  [subject |-> q.subject, revision |-> q.expected,
   record_id |-> q.record_id, note |-> q.input]

(* Store::observe, called with an observation the caller built. *)
Observe(c) ==
  /\ Free /\ At(c, "start", "observe")
  /\ LET result == observe(store, ObservationOf(calls[c].request))
     IN store' = result.store /\ Respond(c, result.outcome, None)
  /\ UNCHANGED batch

(* The shell takes its answer, or dies, or loses the reply of a commit that *)
(* landed: from here on it may send anything, the same request included.    *)
Leave(c) ==
  /\ calls[c].pc # "idle"
  /\ calls' = [calls EXCEPT ![c] = Idle]
  /\ UNCHANGED <<store, batch>>

-----------------------------------------------------------------------------
(* The batch caller. *)

(* The entries of the plan about a subject, and the last of them. *)
Planned(s) ==
  {i \in DOMAIN batch.entries : batch.entries[i].decision.instance.subject = s}

LastPlanned(s) ==
  {batch.entries[i].decision.instance :
     i \in {i \in Planned(s) : \A j \in Planned(s) : j <= i}}

(* One more decision, taken on the instance an earlier entry of the batch  *)
(* leaves or on the one the provider holds now.                            *)
Plan(s, op) ==
  /\ Free /\ Len(batch.entries) < MaxBatch
  /\ \E held \in IF Planned(s) = {} THEN {store.instances[s]} ELSE LastPlanned(s) :
       /\ held # None
       /\ Admits(held, op)
       /\ batch' = [batch EXCEPT !.entries =
            Append(@, [decision |-> execute(held, op), expect |-> held.revision])]
  /\ UNCHANGED <<store, calls>>

(* commit_batch: the clone is the transaction. *)
BatchBegin ==
  /\ Free /\ batch.entries # << >>
  /\ batch' = [batch EXCEPT !.candidate = store, !.next = 1]
  /\ UNCHANGED <<store, calls>>

BatchEntry_ExposesPrefix ==
  /\ ~Free /\ batch.next <= Len(batch.entries)
  /\ LET entry  == batch.entries[batch.next]
         result == commit(batch.candidate, entry.decision, entry.expect)
     IN IF result.outcome = "ok"
        THEN batch' = [batch EXCEPT !.candidate = result.store, !.next = @ + 1]
             /\ UNCHANGED store
        ELSE batch' = NoBatch /\ store' = batch.candidate
  /\ UNCHANGED calls

(* One entry, against the candidate; the first refusal drops it. *)
BatchEntry ==
  /\ ~Free /\ batch.next <= Len(batch.entries)
  /\ LET entry  == batch.entries[batch.next]
         result == commit(batch.candidate, entry.decision, entry.expect)
     IN batch' = IF result.outcome = "ok"
                 THEN [batch EXCEPT !.candidate = result.store, !.next = @ + 1]
                 ELSE NoBatch
  /\ UNCHANGED <<store, calls>>

(* Every entry was accepted: the candidate becomes the store. *)
BatchSwap ==
  /\ ~Free /\ batch.next > Len(batch.entries)
  /\ store' = batch.candidate
  /\ batch' = NoBatch
  /\ UNCHANGED calls

-----------------------------------------------------------------------------

ClientStep(c) ==
  \/ Create(c) \/ Get(c) \/ History(c) \/ Commit(c) \/ Observe(c) \/ Leave(c)

BatchStep == BatchBegin \/ BatchEntry \/ BatchSwap

Next ==
  \/ \E c \in Clients, q \in Requests : Submit(c, q)
  \/ \E c \in Clients : ClientStep(c)
  \/ \E s \in Subjects, op \in Operations : Plan(s, op)
  \/ BatchStep

Spec == Init /\ [][Next]_vars

-----------------------------------------------------------------------------
(* Properties. *)

(* Record identity is store global: one record id names one entry, whether *)
(* a decision or an observation, of one subject, however the shells that   *)
(* race for it interleave (commit_recorded and observe look the id up      *)
(* before they write).                                                     *)
RecordIdsUnique ==
  \A s, t \in Subjects :
    /\ \A i \in DOMAIN store.records[s], j \in DOMAIN store.records[t] :
         store.records[s][i].record_id = store.records[t][j].record_id
           => s = t /\ i = j
    /\ \A i \in DOMAIN store.observations[s], j \in DOMAIN store.observations[t] :
         store.observations[s][i].record_id = store.observations[t][j].record_id
           => s = t /\ i = j
    /\ \A i \in DOMAIN store.records[s], j \in DOMAIN store.observations[t] :
         store.records[s][i].record_id # store.observations[t][j].record_id

(* The recorded history of a subject is a path of the kernel: revisions    *)
(* only grow, two neighbouring revisions are one kernel step although two  *)
(* shells may have decided them, and the last one is the stored instance   *)
(* unless unrecorded writes moved past it.                                 *)
HistoryIsKernelPath == IsKernelPath(store)

AnswerDurable(st, call) ==
  call.pc = "done" /\ call.answer = "ok" =>
    LET q == call.request
        d == call.commit
    IN IF q.kind = "observe"
       THEN \E i \in DOMAIN st.observations[q.subject] :
              st.observations[q.subject][i] = ObservationOf(q)
       ELSE /\ \E i \in DOMAIN st.records[q.subject] :
                 st.records[q.subject][i] = d.envelope
            /\ d.envelope.result = d.instance
            /\ d.envelope.record_id = q.record_id
            /\ d.envelope.command = q.input
            /\ d.instance.revision = IF q.kind = "create" THEN 1 ELSE q.expected + 1

(* A shell is told "ok" only for what is durable, and for what it asked:   *)
(* as long as it holds the answer, the document is in the history of its   *)
(* subject, decided by the requested command on the revision the caller    *)
(* observed.                                                               *)
OkIsDurable == \A c \in Clients : AnswerDurable(store, calls[c])

(* The events of a subject read back in revision order, those of one       *)
(* revision come from one command in declaration order, and none is later  *)
(* than the stored instance, although recorded and unrecorded writers      *)
(* interleave and are kept apart in the provider.                          *)
EventsReadInOrder ==
  \A s \in Subjects :
    LET events == EventsOf(store, s) IN
    \A i \in DOMAIN events :
      /\ store.instances[s] # None
      /\ events[i].revision <= store.instances[s].revision
      /\ events[i].index > 1 =>
           i > 1 /\ events[i - 1] = [events[i] EXCEPT !.index = @ - 1]
      /\ i > 1 /\ events[i].index = 1 => events[i - 1].revision < events[i].revision

(* What a request asks for is in the history already. *)
Durable(q) ==
  IF q.kind = "observe"
  THEN \E i \in DOMAIN store.observations[q.subject] :
         store.observations[q.subject][i] = ObservationOf(q)
  ELSE \E i \in DOMAIN store.records[q.subject] :
         LET envelope == store.records[q.subject][i]
         IN /\ envelope.record_id = q.record_id
            /\ envelope.command = q.input
            /\ envelope.result.revision =
                 IF q.kind = "create" THEN 1 ELSE q.expected + 1

(* A retry of what was already done is never refused: once the request is  *)
(* in the history, every later answer to it is "ok" - not stale, not a     *)
(* conflict - wherever the state has moved since, and whichever shell sent *)
(* it (the history lookup of StoredRuntime::execute).                      *)
RetryNeverRefused ==
  [][\A c \in Clients :
       calls[c].pc # "done" /\ calls'[c].pc = "done" /\ Durable(calls[c].request)
         => calls'[c].answer = "ok"]_vars

(* History is append only, and a record id keeps the document it was first *)
(* given for ever: no shell, retry or batch rewrites either.               *)
HistoryAppendOnly == [][Extends(store, store')]_vars

(* No lost update: outside a batch, an instance only ever changes by one   *)
(* kernel step from the instance stored at that moment, never from one a   *)
(* shell loaded earlier.                                                   *)
NoLostUpdate ==
  [][\A s \in Subjects :
       store'.instances[s] # store.instances[s] /\ Free =>
         IF store.instances[s] = None
         THEN \E input \in Creations :
                store'.instances[s] = create(s, input).instance
         ELSE \E op \in Operations :
                /\ Admits(store.instances[s], op)
                /\ store'.instances[s] = execute(store.instances[s], op).instance]_vars

(* commit_batch commits every entry or none: the store moves only when the *)
(* batch ends, and then every entry's events and the last entry's instance *)
(* of every subject are there.                                             *)
BatchAllOrNothing ==
  [][~Free /\ store' # store =>
       \A i \in DOMAIN batch.entries :
         LET d == batch.entries[i].decision
             s == d.instance.subject
         IN /\ \A k \in DOMAIN d.events :
                 \E n \in DOMAIN store'.events[s] : store'.events[s][n] = d.events[k]
            /\ d.instance.revision <= store'.instances[s].revision]_vars


-----------------------------------------------------------------------------
(* The inductive invariant behind the theorems of StoredRuntimeProofs.     *)

(* What a shell loaded is not ahead of the store, and is what the store    *)
(* holds as long as the revision has not moved.                            *)
LoadedHolds(st, call) ==
  LET held == st.instances[call.request.subject]
  IN /\ call.request.kind = "execute"
     /\ call.instance \in Instance
     /\ call.instance.subject = call.request.subject
     /\ held # None
     /\ call.instance.revision <= held.revision
     /\ call.instance.revision = held.revision => call.instance = held

(* A pending commit is the sealed decision on the loaded instance. *)
DecidedFromLoaded(call) ==
  LET q == call.request
  IN /\ call.instance.revision = q.expected
     /\ q.record_id \in RecordIds
     /\ Admits(call.instance, q.input)
     /\ call.commit = Seal(execute(call.instance, q.input), q.record_id)

CallConsistent(st, call) ==
  /\ call.pc # "idle" => call.request \in Requests
  /\ call.pc \in {"match", "commit"} => LoadedHolds(st, call)
  /\ call.pc = "commit" => DecidedFromLoaded(call)
  /\ AnswerDurable(st, call)

(* An open batch has only advanced instances and added events. *)
BatchConsistent ==
  /\ batch.next >= 1
  /\ \A i \in DOMAIN batch.entries :
       /\ batch.entries[i].expect \in Nat
       /\ batch.entries[i].decision.instance.revision = batch.entries[i].expect + 1
  /\ batch.candidate # None =>
       /\ batch.candidate.records = store.records
       /\ batch.candidate.observations = store.observations
       /\ batch.candidate.record_ids = store.record_ids
       /\ \A s \in Subjects : Keeps(store.events[s], batch.candidate.events[s])
       /\ Advances(store, batch.candidate)
       /\ IsKernelPath(batch.candidate)

(* The strengthening that every step preserves: the id index and the       *)
(* histories agree, histories are paths of the kernel, and every shell and *)
(* the batch hold a view the store can only have moved on from.            *)
InductiveInvariant ==
  /\ TypeOK
  /\ IndexIsExact(store)
  /\ IsKernelPath(store)
  /\ \A c \in Clients : CallConsistent(store, calls[c])
  /\ BatchConsistent

-----------------------------------------------------------------------------
(* What the theorems about single steps need beside it. *)

(* A record at the first revision is the creation its command asks for. *)
CreatedFromNothing(st, s, i) ==
  LET e == st.records[s][i] IN
  e.result.revision = 1 => e = Seal(create(s, e.command), e.record_id).envelope

(* Whatever was recorded on the revision a shell has loaded was decided on *)
(* the very instance it loaded.                                            *)
LoadedIsShared(st, call) ==
  \A i \in DOMAIN st.records[call.request.subject] :
    LET e == st.records[call.request.subject][i] IN
    e.result.revision = call.instance.revision + 1 =>
      e = Seal(execute(call.instance, e.command), e.record_id).envelope

(* A request that is in the history would be decided in the same way again. *)
RetryHolds ==
  /\ \A s \in Subjects : \A i \in DOMAIN store.records[s] :
       CreatedFromNothing(store, s, i)
  /\ \A s \in Subjects : \A i \in DOMAIN store.observations[s] :
       store.observations[s][i].revision > 0
  /\ \A c \in Clients :
       calls[c].pc \in {"match", "commit"} => LoadedIsShared(store, calls[c])

Applied(st, d) ==
  LET s == d.instance.subject IN
  /\ \A k \in DOMAIN d.events :
       \E n \in DOMAIN st.events[s] : st.events[s][n] = d.events[k]
  /\ st.instances[s] # None
  /\ d.instance.revision <= st.instances[s].revision

(* The candidate holds every entry that the batch has come past. *)
AppliedHolds ==
  batch.candidate # None =>
    \A i \in DOMAIN batch.entries :
      i < batch.next => Applied(batch.candidate, batch.entries[i].decision)

=============================================================================
