-------------------------- MODULE EventlogAdapter --------------------------
(***************************************************************************)
(* Handles of the recorded adapter over one tenant of an event log         *)
(* (crates/entity-eventlog/src/adapter.rs and adapter/scoped.rs, policy    *)
(* FullVerification).  Callers share handles; every provider call is a     *)
(* step of its own, and what a call read before it may be stale after it.  *)
(* Between them the log commits whole groups or nothing, and may lose the  *)
(* reply of either.                                                        *)
(***************************************************************************)
EXTENDS EventlogModel

CONSTANTS
  Callers,         \* tasks with one call in flight each
  Handles,         \* EventlogRecordedStore values, shared by callers
  HandleAuthority, \* [Handles -> Authorities]
  Batches,         \* append requests: [key, members]
  ImportBatches,   \* sequences of imports, as import_anchors receives them
  Rebinding,       \* authorities a provisioner asks for
  max_events,      \* CaptureLimits
  max_blobs,
  max_projection_rows,
  Setups,          \* [atomic_blobs, reliable, ATTEMPTS]: what is fixed for a run
  Seeds,           \* a batch a bound tenant may start with, or None
  Unbound,         \* whether it may start without its binding
  MaxCalls         \* calls all callers make between them

(* AppendRequest::validate: a request with members has a well-formed key,  *)
(* a single record's names the only one.                                   *)
ASSUME AdapterAssumption ==
  /\ \A b \in Batches :
       /\ b.members \in Seq(AppendMember)
       /\ b.members # << >> => b.key \in Key
       /\ b.members # << >> /\ b.key.kind = "single" => Len(b.members) = 1
       /\ \A i \in DOMAIN b.members : EntryId(b.members[i].entry) \in RecordIds
  /\ Seeds \subseteq Batches \cup {None}
  /\ ImportBatches \subseteq Seq(Import)

VARIABLES
  log,          \* the tenant: events, bound blobs, index rows
  setup,        \* whether the provider has append_group_guarded_with_blobs
                \* and answers every call; scoped reads before a capture
  handles,      \* what each handle has verified and counts
  calls,        \* the call each caller is in
  late,         \* a write answered as unknown that may land yet
  begun         \* calls begun

vars == <<log, setup, handles, calls, late, begun>>

-----------------------------------------------------------------------------
(* Calls. *)

AppendOp(h, batch) == [kind |-> "append", handle |-> h, key |-> batch.key, members |-> batch.members]

ImportOp(h, import) == [kind |-> "import", handle |-> h, imports |-> <<import>>]

ImportsOp(h, imports) == [kind |-> "imports", handle |-> h, imports |-> imports]

RefuseOp(h, refusal) == [kind |-> "refuse", handle |-> h, refusal |-> refusal]

ProvisionOp(authority) == [kind |-> "provision", authority |-> authority]

HandleOp(kind, h) == [kind |-> kind, handle |-> h]

Authority(op) == IF op.kind = "provision" THEN op.authority ELSE HandleAuthority[op.handle]

NoAnswer == [status |-> "none", why |-> "none", receipt |-> None, replayed |-> FALSE]

NotCommitted(why) == [NoAnswer EXCEPT !.status = "not_committed", !.why = why]

(* An operation that says nothing of what it may have published. *)
Failed(why) == [NoAnswer EXCEPT !.status = "failed", !.why = why]

Uncertain == [NoAnswer EXCEPT !.status = "uncertain"]

Settlement(status, receipt, replayed) ==
  [NoAnswer EXCEPT !.status = status, !.receipt = receipt, !.replayed = replayed]

NothingRead == [keys |-> None, seen |-> {}, wanted |-> {}, read |-> {}]

IdleCall ==
  [pc |-> "idle", op |-> None, id |-> 0, goal |-> "none", attempts |-> 0, read |-> NothingRead,
   capture |-> None, group |-> None, pending |-> << >>, result |-> None, answer |-> NoAnswer]

(* A call that has answered forgets everything but its answer. *)
Answers(call, answer) ==
  [IdleCall EXCEPT !.op = call.op, !.id = call.id, !.answer = answer]

(* A call about to make its next provider call. *)
At(call, pc, goal) == [call EXCEPT !.pc = pc, !.goal = goal]

(* A complete capture is taken, and its model serves `goal`. *)
Captures(call, goal) == At(call, "capture", goal)

(* A scoped read starts, from nothing. *)
Scopes(call, goal) == [At(call, "keys", goal) EXCEPT !.read = NothingRead, !.attempts = 1]

-----------------------------------------------------------------------------
(* Groups, and what they upload. *)

Earlier(members, i) ==
  Cardinality({j \in 1 .. i - 1 : EntrySubject(members[j].entry) = EntrySubject(members[i].entry)})

(* Each member extends its subject's stream from the head the plan read,   *)
(* 0 for Expected::NoStream.                                               *)
append_group(authority, op, heads) ==
  Group(<<"batch", authority, op.key>>, <<BatchBlob(op.key, op.members)>>,
        [i \in DOMAIN op.members |->
           Append1(EntryBody(authority, op.key, op.members, i),
                   heads[EntrySubject(op.members[i].entry)] + Earlier(op.members, i))])

(* import_append, under the command of one subject or of the whole batch. *)
import_group(authority, kind, imports) ==
  Group(<<kind, authority, [i \in DOMAIN imports |-> imports[i].anchor.subject]>>,
        [i \in DOMAIN imports |-> AnchorBlob(authority, imports[i])],
        [i \in DOMAIN imports |-> Append1(AnchorBody(authority, imports[i]), 0)])

binding_group(authority) ==
  Group(<<"binding">>, <<BindingBlob(authority)>>, <<Append1(BindingBody(authority), 0)>>)

refusal_group(authority, refusal) ==
  Group(<<"refusal", authority, refusal>>, <<RefusalBlob(authority, refusal)>>,
        <<Append1(RefusalBody(authority, refusal), 0)>>)

MemberBlobs(body) ==
  LET entry == MemberOf(body).entry IN
  <<RecordBlob(entry), RequestBlob(entry),
    EntryBlob(body.authority, body.key, body.members, body.member_index + 1)>>

AnchorBlobs(body) ==
  [i \in DOMAIN body.import.evidence |-> RecordBlob(body.import.evidence[i])]
    \o <<AnchorBlob(body.authority, body.import)>>

(* The blobs of a group in the order they are uploaded. *)
Uploads(group) ==
  LET Of(a) == CASE a.body.name = "er.recorded_entry" -> MemberBlobs(a.body)
                 [] a.body.name = "er.import_anchor" -> AnchorBlobs(a.body)
                 [] OTHER -> SetToSeq(BlobsOf(a.body))
      first == group.appends[1].body
      each  == FlattenSeq([i \in DOMAIN group.appends |-> Of(group.appends[i])])
  IN IF first.name = "er.recorded_entry"
     THEN <<BatchBlob(first.key, first.members)>> \o each ELSE each

Growth(events, rows, digests) == [events |-> events, rows |-> rows, digests |-> digests]

-----------------------------------------------------------------------------
(* Guards: what the rows say, in the append's own transaction. *)

(* resolve_subject_state *)
StateOfRow(row) ==
  IF row = None THEN None
  ELSE IF row.state_source[1] = "record" THEN row.state_source[2].instance
  ELSE row.state_source[3].anchor

AppendGuard_Retries(rows, authority, key, members) ==
  IF \E i \in DOMAIN members : rows.records[EntryId(members[i].entry)] # None
  THEN IF key.kind = "single" THEN "record_conflict" ELSE "previously_recorded"
  ELSE "ok"

AppendGuard_Unvalidated(rows, authority, key, members) ==
  IF rows.batches[key] # None THEN "ok"
  ELSE IF \E i \in DOMAIN members : rows.records[EntryId(members[i].entry)] # None
  THEN "record_conflict" ELSE "ok"

AppendGuard(rows, authority, key, members) ==
  LET state    == [s \in Subjects |-> StateOfRow(rows.subjects[s])]
      Valid(i) == validate_entry(members[i], StateBefore(state, members, i))
      bad      == {i \in DOMAIN members : Valid(i) # "ok"}
  IN IF rows.binding = None \/ rows.binding.authority # authority THEN "provider_integrity"
     ELSE IF rows.batches[key] # None THEN "ok"
     ELSE IF \E i \in DOMAIN members : rows.records[EntryId(members[i].entry)] # None
     THEN IF key.kind = "single" THEN "record_conflict" ELSE "previously_recorded"
     ELSE IF bad # {} THEN Valid(Min(bad)) ELSE "ok"

(* The row of a record or a subject is this anchor's, and nothing has been *)
(* appended to the subject since.                                          *)
OwnRecordRow(row, anchor) == row.kind = "imported" /\ row.anchor = anchor

OwnRow(row, anchor) ==
  row.origin # None /\ row.origin.anchor = anchor /\ row.state_source = anchor

ImportGuard(rows, authority, imports) ==
  LET Anchor(i) == AnchorBlob(authority, imports[i])
      Taken(i)  == \E e \in ToSet(imports[i].evidence) :
                     LET row == rows.records[EntryId(e)] IN
                     row # None /\ ~OwnRecordRow(row, Anchor(i))
      Held(i)   == LET row == rows.subjects[imports[i].anchor.subject] IN
                   row # None /\ ~OwnRow(row, Anchor(i))
  IN IF rows.binding = None \/ rows.binding.authority # authority THEN "provider_integrity"
     ELSE IF \E i \in DOMAIN imports : Taken(i) THEN "record_conflict"
     ELSE IF \E i \in DOMAIN imports : Held(i) THEN "revision_conflict"
     ELSE "ok"

BindingGuard(rows) == IF rows.binding = None THEN "ok" ELSE "provider_integrity"

GuardOf(rows, call) ==
  CASE call.op.kind = "append" ->
         AppendGuard(rows, Authority(call.op), call.op.key, call.op.members)
    [] call.op.kind \in {"import", "imports"} ->
         ImportGuard(rows, Authority(call.op), call.pending)
    [] call.op.kind = "provision" -> BindingGuard(rows)
    [] call.op.kind = "refuse" -> "ok"

(* append_group_with_blobs, its uploads done when the provider needs them. *)
Written(call) ==
  IF setup.atomic_blobs /\ call.op.kind # "refuse"
  THEN append_group_guarded_with_blobs(log, call.group, GuardOf(log.rows, call),
         ToSet(Uploads(call.group)), call.id, Len(log.events))
  ELSE append_group_guarded(log, call.group, GuardOf(log.rows, call), call.id, Len(log.events))

-----------------------------------------------------------------------------
(* Handles. *)

ClosedHandle == [open |-> FALSE, verified |-> None, own |-> {}, held |-> NothingHeld]

(* What the provider refuses to capture. *)
Readable(tenant) ==
  /\ Len(tenant.events) <= max_events
  /\ Cardinality(tenant.blobs) <= max_blobs
  /\ RowCount(tenant.rows) <= max_projection_rows

IsPrefixOf(verified, capture) ==
  /\ Len(capture.events) >= Len(verified.events)
  /\ SubSeq(capture.events, 1, Len(verified.events)) = verified.events

(* appended_by_this_handle: the capture continues the verified one with    *)
(* this handle's own events, its blobs all bound still.                    *)
appended_by_this_handle(handle, capture) ==
  LET before == handle.verified.capture IN
  /\ handle.verified # None
  /\ IsPrefixOf(before, capture)
  /\ \A i \in Len(before.events) + 1 .. Len(capture.events) : capture.events[i].id \in handle.own
  /\ before.blobs \subseteq capture.blobs

(* install: the counts become those of the capture, whatever this handle   *)
(* has written since it was taken.                                         *)
install(handle, capture, model) ==
  [handle EXCEPT !.verified = [capture |-> capture, model |-> model], !.held = model.held]

Forgets(handle, events) == [handle EXCEPT !.own = @ \ {e.id : e \in ToSet(events)}]

(* model_of: the model held, or an advance of it, or a whole build.  The   *)
(* handle holds no model while, and if, that fails.                        *)
model_of(authority, handle, capture) ==
  LET from     == Len(handle.verified.capture.events)
      continues == appended_by_this_handle(handle, capture)
      advanced == IF continues THEN advance_model(authority, capture, handle.verified.model, from)
                  ELSE Corrupt
      built    == build_model(authority, capture)
  IN IF handle.verified # None /\ handle.verified.capture = capture
     THEN [handle |-> handle, model |-> handle.verified.model]
     ELSE IF advanced.ok
     THEN [handle |-> Forgets(install(handle, capture, advanced),
                              SubSeq(capture.events, from + 1, Len(capture.events))),
           model |-> advanced]
     ELSE IF built.ok
     THEN [handle |-> install(handle, capture, built), model |-> built]
     ELSE [handle |-> [handle EXCEPT !.verified = None], model |-> Corrupt]

(* admit_growth *)
admit_growth(held, growth) ==
  /\ held.events + growth.events <= max_events
  /\ held.blobs + Cardinality(growth.digests \ held.digests) <= max_blobs
  /\ held.rows + growth.rows <= max_projection_rows

grow(held, growth) ==
  [events  |-> held.events + growth.events,
   rows    |-> held.rows + growth.rows,
   blobs   |-> held.blobs + Cardinality(growth.digests \ held.digests),
   digests |-> held.digests \cup growth.digests]

-----------------------------------------------------------------------------
(* Appending. *)

(* recover_from: what a verified model says of a request. *)
recover_from(model, key, members) ==
  LET Lookup(i) == model.records[EntryId(members[i].entry)]
      prior     == {i \in DOMAIN members : Lookup(i) # None}
  IN IF model.batches[key] # << >>
     THEN IF SameMembers(model.batches[key], members)
          THEN Replay(key, model.batches[key]) ELSE Refused("batch_conflict")
     ELSE IF prior = {} THEN Refused("none")
     ELSE IF key.kind = "named" THEN Refused("previously_recorded")
     ELSE IF LookupEntry(Lookup(1)) = members[1].entry
     THEN Recovered(Lookup(1), EvidenceHolds(model, Lookup(1)))
     ELSE Refused("record_conflict")

OutcomeAnswer(outcome) ==
  IF outcome.answer \in {"committed", "historical"}
  THEN Settlement(outcome.answer, outcome.receipt, outcome.replayed)
  ELSE NotCommitted(outcome.answer)

Settled_Here(outcome) == outcome.answer # "none"

(* The head of each stream as the plan's model has it. *)
Heads(model) ==
  [s \in Subjects |->
     IF model.histories[s].records # << >>
     THEN Last(model.histories[s].records).receipt.position.subject
     ELSE IF model.histories[s].origin # None THEN 1 ELSE 0]

AppendGrowth(model, group, members) ==
  LET touched == {EntrySubject(members[i].entry) : i \in DOMAIN members}
      new     == {s \in touched : ~HasHistory(model.histories[s])}
  IN Growth(Len(members), Len(members) + 1 + Cardinality(new), ToSet(Uploads(group)))

(* Blobs a provider does not take with the group go first. *)
Sends(call, group, pending) ==
  [At(call, IF setup.atomic_blobs THEN "write" ELSE "upload", "none")
     EXCEPT !.group = group, !.pending = pending]

(* append_inner, up to the write. *)
PlanAppend(call, handle, model) ==
  LET op      == call.op
      outcome == recover_from(model, op.key, op.members)
      group   == append_group(Authority(op), op, Heads(model))
  IN IF ~model.ok THEN Answers(call, NotCommitted("unreadable"))
     ELSE IF Settled_Here(outcome) THEN Answers(call, OutcomeAnswer(outcome))
     ELSE IF ~admit_growth(handle.held, AppendGrowth(model, group, op.members))
     THEN Answers(call, NotCommitted("exceeds_read_bounds"))
     ELSE Sends(call, group, << >>)

(* committed_outcome: the group is read back, at the coordinates the log   *)
(* returned.                                                               *)
ConfirmAppend(call, model) ==
  LET records == model.batches[call.op.key] IN
  IF /\ model.ok
     /\ records # << >>
     /\ \A i \in DOMAIN records :
          model.physical[records[i].receipt.record_id] = call.result.at[i]
  THEN Answers(call, Settlement("committed", BatchReceipt(call.op.key, records), FALSE))
  ELSE Answers(call, Uncertain)

ResolveAppend_ByAbsence(call, model) ==
  LET outcome == recover_from(model, call.op.key, call.op.members) IN
  IF ~model.ok THEN Answers(call, Uncertain)
  ELSE IF outcome.answer = "none" THEN Answers(call, NotCommitted("none"))
  ELSE Answers(call, OutcomeAnswer(outcome))

(* resolve_append_error: a complete capture decides; finding nothing after *)
(* a conflict starts over.                                                 *)
ResolveAppend(call, model) ==
  LET outcome == recover_from(model, call.op.key, call.op.members) IN
  IF model.ok /\ outcome.answer \in {"committed", "historical"}
  THEN Answers(call, OutcomeAnswer(outcome))
  ELSE IF ~model.ok \/ outcome.answer # "none" \/ call.goal = "unknown"
  THEN Answers(call, Uncertain)
  ELSE IF call.goal = "conflict" THEN Scopes(call, "plan")
  ELSE Answers(call, NotCommitted("provider_integrity"))

-----------------------------------------------------------------------------
(* Importing. *)

AnchorIs(authority, model, events, import) ==
  LET at == model.anchors[import.anchor.subject] IN
  at # 0 /\ AnchorBlob(authority, events[at].body.import) = AnchorBlob(authority, import)

HeldAs(call, model, import) == AnchorIs(Authority(call.op), model, call.capture.events, import)

(* A later mention of a subject in one batch repeats the first. *)
Repeats(imports, i) ==
  \E j \in 1 .. i - 1 : imports[j].anchor.subject = imports[i].anchor.subject

Disagree(imports) ==
  \E i, j \in DOMAIN imports :
    imports[i].anchor.subject = imports[j].anchor.subject /\ imports[i] # imports[j]

ImportGrowth(authority, imports) ==
  Growth(Len(imports),
         Len(imports) + FoldLeft(LAMBDA n, i : n + Len(i.evidence), 0, imports),
         {AnchorBlob(authority, i) : i \in ToSet(imports)}
           \cup UNION {{RecordBlob(e) : e \in ToSet(i.evidence)} : i \in ToSet(imports)})

(* Two pending members claim one record id, or the destination has it. *)
ClaimsTaken(model, imports) ==
  \/ \E i \in DOMAIN imports : \E e \in ToSet(imports[i].evidence) :
       model.records[EntryId(e)] # None
  \/ \E i, j \in DOMAIN imports : i # j /\
       {EntryId(e) : e \in ToSet(imports[i].evidence)}
         \cap {EntryId(e) : e \in ToSet(imports[j].evidence)} # {}

(* import_inner and import_batch_inner, up to the write.  The batch alone  *)
(* is held to the read bounds.                                             *)
PlanImport(call, model) ==
  LET op      == call.op
      Here(i) == Repeats(op.imports, i) \/ HeldAs(call, model, op.imports[i])
      pending == LET places == InOrder({i \in DOMAIN op.imports : ~Here(i)})
                 IN [n \in DOMAIN places |-> op.imports[places[n]]]
      group   == import_group(Authority(op), op.kind, pending)
  IN IF ~model.ok THEN Answers(call, NotCommitted("unreadable"))
     ELSE IF \E i \in DOMAIN op.imports :
               ~Here(i) /\ HasHistory(model.histories[op.imports[i].anchor.subject])
     THEN Answers(call, NotCommitted("revision_conflict"))
     ELSE IF op.kind = "imports" /\ ClaimsTaken(model, pending)
     THEN Answers(call, NotCommitted("record_conflict"))
     ELSE IF pending = << >> THEN Answers(call, Settlement("imported", None, TRUE))
     ELSE IF op.kind = "imports" /\ ~admit_growth(model.held, ImportGrowth(Authority(op), pending))
     THEN Answers(call, NotCommitted("exceeds_read_bounds"))
     ELSE Sends(call, group, pending)

AllHeld(call, model) ==
  model.ok /\ \A i \in DOMAIN call.pending : HeldAs(call, model, call.pending[i])

ConfirmImport(call, model) ==
  IF /\ AllHeld(call, model)
     /\ \A i \in DOMAIN call.pending :
          model.anchors[call.pending[i].anchor.subject] = call.result.at[i]
  THEN Answers(call, Settlement("imported", None, call.result.answer = "deduplicated"))
  ELSE Answers(call, Uncertain)

(* After a conflict the destination must name a subject it holds. *)
ResolveImport(call, model) ==
  IF AllHeld(call, model) THEN Answers(call, Settlement("imported", None, TRUE))
  ELSE IF \/ ~model.ok
          \/ call.goal = "unknown"
          \/ call.op.kind = "imports" /\ \A i \in DOMAIN call.pending :
               ~HasHistory(model.histories[call.pending[i].anchor.subject])
  THEN Answers(call, Uncertain)
  ELSE Answers(call, NotCommitted("revision_conflict"))

-----------------------------------------------------------------------------
(* Binding. *)

(* captured_binding_authority *)
BindingsIn(events) == {i \in DOMAIN events : events[i].body.name = "er.binding"}

(* recover_inner: the authority a capture is bound to, verified as its own *)
(* owner would verify it.                                                  *)
recover_inner(authority, capture) ==
  LET bindings == BindingsIn(capture.events)
      observed == IF bindings = {} THEN authority
                  ELSE capture.events[CHOOSE i \in bindings : TRUE].body.authority
      model    == build_model(observed, capture)
  IN IF Cardinality(bindings) > 1 \/ ~model.ok THEN [found |-> "integrity", at |-> 0]
     ELSE IF bindings = {} THEN [found |-> "none", at |-> 0]
     ELSE IF observed # authority THEN [found |-> "conflict", at |-> 0]
     ELSE [found |-> "bound", at |-> model.binding]

(* provision_binding, on what it recovered. *)
Provision(call, recovery) ==
  LET bound(replayed) == Settlement("bound", recovery.at, replayed) IN
  CASE call.goal = "plan" ->
         IF recovery.found = "bound" THEN Answers(call, bound(TRUE))
         ELSE IF recovery.found = "none"
         THEN Sends(call, binding_group(call.op.authority), << >>)
         ELSE Answers(call, IF recovery.found = "unavailable" THEN Uncertain
                            ELSE NotCommitted(recovery.found))
    [] call.goal = "confirm" ->
         Answers(call, IF recovery.found = "bound" /\ recovery.at = call.result.at[1]
                       THEN bound(call.result.answer = "deduplicated") ELSE Uncertain)
    [] call.goal = "unknown" ->
         Answers(call, CASE recovery.found = "bound" -> bound(TRUE)
                         [] recovery.found = "conflict" -> NotCommitted("conflict")
                         [] OTHER -> Uncertain)
    [] OTHER ->
         Answers(call, CASE recovery.found = "bound" -> bound(TRUE)
                         [] recovery.found = "unavailable" -> Uncertain
                         [] recovery.found = "none" -> NotCommitted("integrity")
                         [] OTHER -> NotCommitted(recovery.found))

-----------------------------------------------------------------------------
(* What a call asks of a capture after a write that was not confirmed. *)
Unsettled == {"unknown", "conflict", "mismatch"}

(* What a call does with a complete model. *)
Continue(call, handle, model) ==
  CASE call.op.kind = "append" /\ call.goal = "plan" -> PlanAppend(call, handle, model)
    [] call.op.kind = "append" /\ call.goal = "confirm" -> ConfirmAppend(call, model)
    [] call.op.kind = "append" /\ call.goal \in Unsettled -> ResolveAppend(call, model)
    [] call.op.kind \in {"import", "imports"} /\ call.goal = "plan" -> PlanImport(call, model)
    [] call.op.kind \in {"import", "imports"} /\ call.goal = "confirm" -> ConfirmImport(call, model)
    [] call.op.kind \in {"import", "imports"} /\ call.goal \in Unsettled -> ResolveImport(call, model)
    [] call.op.kind = "open" ->
         Answers(call, IF model.ok /\ model.binding # 0 THEN Settlement("read", None, FALSE)
                       ELSE Failed("unreadable"))
    [] OTHER ->
         Answers(call, IF model.ok THEN Settlement("read", None, FALSE)
                       ELSE Failed("unreadable"))

-----------------------------------------------------------------------------
(* Actions. *)

IsOpen(h) == handles[h].open

(* Nobody is opening the handle either. *)
IsClosed(h) ==
  /\ ~handles[h].open
  /\ \A c \in Callers : calls[c].pc # "idle" => calls[c].op # HandleOp("open", h)

(* The first provider call of each operation.  An invalid request reaches  *)
(* no provider.                                                            *)
FirstStep(call) ==
  CASE call.op.kind = "append" ->
         IF call.op.members = << >> THEN Answers(call, Settlement("empty", None, FALSE))
         ELSE Scopes(call, "plan")
    [] call.op.kind = "imports" ->
         IF call.op.imports = << >> THEN Answers(call, Settlement("imported", None, TRUE))
         ELSE IF Disagree(call.op.imports) THEN Answers(call, NotCommitted("invalid_input"))
         ELSE Captures(call, "plan")
    [] call.op.kind = "refuse" ->
         [At(call, "upload", "none") EXCEPT
            !.group = refusal_group(Authority(call.op), call.op.refusal)]
    [] OTHER -> Captures(call, "plan")

Begin(c, op) ==
  /\ calls[c].pc = "idle"
  /\ begun < MaxCalls
  /\ begun' = begun + 1
  /\ calls' = [calls EXCEPT ![c] = FirstStep([IdleCall EXCEPT !.op = op, !.id = begun + 1])]
  /\ UNCHANGED <<log, setup, handles, late>>

Call(c) ==
  \/ \E a \in Rebinding : Begin(c, ProvisionOp(a))
  \/ \E h \in Handles : IsClosed(h) /\ Begin(c, HandleOp("open", h))
  \/ \E h \in {x \in Handles : IsOpen(x)} :
       \/ \E b \in Batches : Begin(c, AppendOp(h, b))
       \/ \E i \in ImportBatches :
            IF Len(i) = 1 THEN Begin(c, ImportOp(h, i[1])) ELSE Begin(c, ImportsOp(h, i))
       \/ \E r \in RefusedRequests : Begin(c, RefuseOp(h, r))
       \/ Begin(c, HandleOp("read", h))

(* rebuild_indexes: the provider replays every event through the projector.*)
RebuildIndexes(c) ==
  /\ calls[c].pc = "idle"
  /\ begun < MaxCalls
  /\ begun' = begun + 1
  /\ \E h \in {x \in Handles : IsOpen(x)} :
       calls' = [calls EXCEPT
         ![c] = Captures([IdleCall EXCEPT !.op = HandleOp("rebuild", h), !.id = begun + 1], "plan")]
  /\ log' = [log EXCEPT !.rows = Projected(EmptyRows, log.blobs, log.events, 0).rows]
  /\ UNCHANGED <<setup, handles, late>>

(* capture_tenant: one instant of the tenant, or a refusal. *)
Capture(c) ==
  /\ calls[c].pc = "capture"
  /\ Readable(log)
  /\ calls' = [calls EXCEPT ![c].pc = "resume", ![c].capture = log]
  /\ UNCHANGED <<log, setup, handles, late, begun>>

CaptureFails(c) ==
  /\ calls[c].pc = "capture"
  /\ ~setup.reliable \/ ~Readable(log)
  /\ calls' = [calls EXCEPT
       ![c] = IF @.op.kind = "provision"
              THEN Provision(@, [found |-> "unavailable", at |-> 0])
              ELSE Continue(@, handles[@.op.handle], Corrupt)]
  /\ UNCHANGED <<log, setup, handles, late, begun>>

(* open: a handle of a tenant without a binding is dropped. *)
Opened(op, served) ==
  IF op.kind # "open" THEN served.handle
  ELSE IF served.model.ok /\ served.model.binding # 0
  THEN [served.handle EXCEPT !.open = TRUE] ELSE ClosedHandle

(* The call goes on with the capture, by now perhaps an old one. *)
Resume(c) ==
  LET call == calls[c] IN
  /\ call.pc = "resume"
  /\ IF call.op.kind = "provision"
     THEN /\ calls' = [calls EXCEPT
               ![c] = Provision(call, recover_inner(call.op.authority, call.capture))]
          /\ UNCHANGED handles
     ELSE LET h      == call.op.handle
              served == model_of(HandleAuthority[h], handles[h], call.capture)
          IN /\ handles' = [handles EXCEPT ![h] = Opened(call.op, served)]
             /\ calls' = [calls EXCEPT ![c] =
                  [Continue(call, served.handle, served.model) EXCEPT !.capture = None]]
  /\ UNCHANGED <<log, setup, late, begun>>

-----------------------------------------------------------------------------
(* A scoped read: rows of the named keys, the streams they lead to, the    *)
(* rows of the subjects read; each at an instant of its own.               *)

ScopeSubjects(op) == {EntrySubject(op.members[i].entry) : i \in DOMAIN op.members}

ScopeRecords(op) == {EntryId(op.members[i].entry) : i \in DOMAIN op.members}

KeyRows(rows, op) ==
  [binding |-> rows.binding, batch |-> rows.batches[op.key],
   records |-> [r \in ScopeRecords(op) |-> rows.records[r]]]

NamedSubjects(keys) ==
  {keys.records[r].subject : r \in {x \in DOMAIN keys.records : keys.records[x] # None}}
    \cup (IF keys.batch = None THEN {} ELSE {keys.batch[i].subject : i \in DOMAIN keys.batch})

ReadKeys(c) ==
  LET call == calls[c]
      keys == KeyRows(log.rows, call.op)
  IN
  /\ call.pc = "keys"
  /\ calls' = [calls EXCEPT ![c] =
       IF keys.binding = None THEN Continue(call, handles[call.op.handle], Corrupt)
       ELSE [call EXCEPT !.pc = "streams",
               !.read = [keys |-> keys, seen |-> {}, read |-> {},
                         wanted |-> ScopeSubjects(call.op) \cup NamedSubjects(keys)]]]
  /\ UNCHANGED <<log, setup, handles, late, begun>>

(* Subjects that share a batch with an entry read. *)
BatchMates(places) ==
  UNION {{EntrySubject(log.events[i].body.members[j].entry) : j \in DOMAIN log.events[i].body.members}
           : i \in Pending(log.events, places)}

(* One round of stream reads, answered together, and their blobs. *)
ReadStreams(c) ==
  LET call   == calls[c]
      unread == call.read.wanted \ call.read.read
      found  == OfStream(log.events, <<"er.binding">>)
                  \cup UNION {OfStream(log.events, <<"er.subject", Authority(call.op), s>>) : s \in unread}
      seen   == call.read.seen \cup found
      wanted == call.read.wanted \cup BatchMates(seen)
  IN
  /\ call.pc = "streams"
  /\ calls' = [calls EXCEPT
       ![c].read = [call.read EXCEPT !.seen = seen, !.wanted = wanted,
                                     !.read = call.read.read \cup unread],
       ![c].pc = IF wanted = call.read.read \cup unread THEN "rows" ELSE "streams"]
  /\ UNCHANGED <<log, setup, handles, late, begun>>

(* The rows read, early and late, are those the events read would write. *)
RowsAgree(call, model, rows) ==
  LET keys     == call.read.keys
      expected == expected_projection_rows(Authority(call.op), model, log.events)
  IN /\ keys.binding = expected.binding
     /\ keys.batch = expected.batches[call.op.key]
     /\ \A r \in DOMAIN keys.records : keys.records[r] = expected.records[r]
     /\ \A s \in call.read.read : rows.subjects[s] = expected.subjects[s]

AfterAttempts_Refuses(call) == Answers(call, NotCommitted("unreadable"))

(* complete_scope: after the last attempt one complete capture decides. *)
AfterAttempts(call) ==
  [Captures(call, call.goal) EXCEPT !.read = NothingRead, !.attempts = 0]

(* Read again when it does not verify. *)
Verify(c) ==
  LET call  == calls[c]
      model == build_model_events(Authority(call.op), log, call.read.seen)
      good  == model.ok /\ RowsAgree(call, model, log.rows)
  IN
  /\ call.pc = "rows"
  /\ calls' = [calls EXCEPT ![c] =
       IF good THEN [Continue(call, handles[call.op.handle], model)
                       EXCEPT !.read = NothingRead, !.attempts = 0]
       ELSE IF call.attempts < setup.ATTEMPTS
       THEN [Scopes(call, call.goal) EXCEPT !.attempts = call.attempts + 1]
       ELSE AfterAttempts(call)]
  /\ UNCHANGED <<log, setup, handles, late, begun>>

ReadFails(c) ==
  /\ ~setup.reliable
  /\ calls[c].pc \in {"keys", "streams", "rows"}
  /\ calls' = [calls EXCEPT ![c] = Continue(@, handles[@.op.handle], Corrupt)]
  /\ UNCHANGED <<log, setup, handles, late, begun>>

-----------------------------------------------------------------------------
(* Writing. *)

(* put_blob for each in turn; a failed one ends the call, the handle none  *)
(* the wiser of those before it.                                           *)
Upload(c) ==
  LET call  == calls[c]
      blobs == Uploads(call.group)
  IN
  /\ call.pc = "upload"
  /\ \E n \in 0 .. Len(blobs) :
       /\ ~setup.reliable \/ n = Len(blobs)
       /\ log' = put_blobs(log, ToSet(SubSeq(blobs, 1, n)))
       /\ calls' = [calls EXCEPT ![c] =
            IF n = Len(blobs) THEN [call EXCEPT !.pc = "write"]
            ELSE Answers(call, NotCommitted("backend"))]
  /\ UNCHANGED <<setup, handles, late, begun>>

Hears(call, answer, at) == [call EXCEPT !.pc = "reply", !.result = [answer |-> answer, at |-> at]]

AppendGroup(c) ==
  /\ calls[c].pc = "write"
  /\ log' = Written(calls[c]).log
  /\ calls' = [calls EXCEPT ![c] = Hears(@, Written(@).answer, Written(@).at)]
  /\ UNCHANGED <<setup, handles, late, begun>>

(* The write is made and its reply lost. *)
WriteUnheard(c) ==
  /\ ~setup.reliable
  /\ calls[c].pc = "write"
  /\ log' = Written(calls[c]).log
  /\ calls' = [calls EXCEPT ![c] = Hears(@, "unknown", << >>)]
  /\ UNCHANGED <<setup, handles, late, begun>>

(* The outcome is unknown while the write is still on its way. *)
WriteDelayed(c) ==
  /\ ~setup.reliable
  /\ calls[c].pc = "write"
  /\ late = None
  /\ late' = calls[c]
  /\ calls' = [calls EXCEPT ![c] = Hears(@, "unknown", << >>)]
  /\ UNCHANGED <<log, setup, handles, begun>>

Land ==
  /\ late # None
  /\ log' = Written(late).log
  /\ late' = None
  /\ UNCHANGED <<setup, handles, calls, begun>>

WriteFails(c) ==
  /\ ~setup.reliable
  /\ calls[c].pc = "write"
  /\ calls' = [calls EXCEPT ![c] = Hears(@, "backend", << >>)]
  /\ UNCHANGED <<log, setup, handles, late, begun>>

(* GroupAttempt::blobs_bound *)
BlobsBound(answer) == ~setup.atomic_blobs \/ answer \in {"ok", "deduplicated", "unknown"}

(* What a handle learns of an append it made: the blobs that may be bound, *)
(* then its events, then what a new group added.                           *)
Learns(handle, call) ==
  LET answer == call.result.answer
      rows   == Len(call.op.members) + 1
                  + Cardinality({i \in DOMAIN call.group.appends : call.group.appends[i].expected = 0})
      blobs  == IF BlobsBound(answer) THEN ToSet(Uploads(call.group)) ELSE {}
      new    == IF answer = "ok" THEN Growth(Len(call.op.members), rows, blobs)
                ELSE Growth(0, 0, blobs)
  IN [handle EXCEPT !.held = grow(@, new),
                    !.own = IF answer \in {"ok", "deduplicated"}
                            THEN @ \cup {log.events[i].id : i \in ToSet(call.result.at)} ELSE @]

(* An import remembers its events; it is not counted. *)
Remembers(handle, call) ==
  [handle EXCEPT !.own = IF call.result.answer \in {"ok", "deduplicated"}
                         THEN @ \cup {log.events[i].id : i \in ToSet(call.result.at)} ELSE @]

(* resolve_append_error *)
AppendReply(call) ==
  LET answer == call.result.answer IN
  CASE answer \in {"ok", "deduplicated"} -> Scopes(call, "confirm")
    [] answer = "unknown" -> Captures(call, "unknown")
    [] answer = "conflict" -> Captures(call, "conflict")
    [] answer = "idempotency_mismatch" -> Captures(call, "mismatch")
    [] OTHER -> Answers(call, NotCommitted(answer))

(* A refusal by the guard before the recorded command could answer is      *)
(* asked again of a single import, without blobs and admitting nothing.    *)
GuardRefusals == {"record_conflict", "revision_conflict", "provider_integrity"}

ImportReply(call) ==
  LET answer == call.result.answer IN
  CASE answer \in {"ok", "deduplicated"} -> Captures(call, "confirm")
    [] answer = "unknown" -> Captures(call, "unknown")
    [] answer \in {"conflict", "idempotency_mismatch"} -> Captures(call, "conflict")
    [] answer \in GuardRefusals /\ call.op.kind = "import" /\ setup.atomic_blobs
         /\ call.goal # "probed" -> At(call, "probe", "probed")
    [] OTHER -> Answers(call, NotCommitted(answer))

ProvisionReply(call) ==
  LET answer == call.result.answer IN
  CASE answer \in {"ok", "deduplicated"} -> Captures(call, "confirm")
    [] answer = "unknown" -> Captures(call, "unknown")
    [] answer \in GuardRefusals \cup {"conflict", "idempotency_mismatch"} ->
         Captures(call, "conflict")
    [] OTHER -> Answers(call, NotCommitted(answer))

(* record_refusal: a stream that exists already holds this refusal. *)
RefusalReply(call) ==
  LET answer == call.result.answer IN
  IF answer \in {"ok", "deduplicated", "conflict"}
  THEN Answers(call, Settlement("recorded", None, answer # "ok"))
  ELSE Answers(call, Failed("backend"))

Reply(c) ==
  LET call == calls[c] IN
  /\ call.pc = "reply"
  /\ calls' = [calls EXCEPT ![c] =
       CASE call.op.kind = "append" -> AppendReply(call)
         [] call.op.kind \in {"import", "imports"} -> ImportReply(call)
         [] call.op.kind = "provision" -> ProvisionReply(call)
         [] call.op.kind = "refuse" -> RefusalReply(call)]
  /\ handles' =
       CASE call.op.kind = "append" -> [handles EXCEPT ![call.op.handle] = Learns(@, call)]
         [] call.op.kind \in {"import", "imports"} ->
              [handles EXCEPT ![call.op.handle] = Remembers(@, call)]
         [] OTHER -> handles
  /\ UNCHANGED <<log, setup, late, begun>>

(* AdmitNothing *)
Probe(c) ==
  LET call   == calls[c]
      guard  == GuardOf(log.rows, call)
      asked  == append_group_guarded(log, call.group,
                  IF guard = "ok" THEN "provider_integrity" ELSE guard, call.id, Len(log.events))
  IN
  /\ call.pc = "probe"
  /\ calls' = [calls EXCEPT ![c] = Hears(call, asked.answer, asked.at)]
  /\ UNCHANGED <<log, setup, handles, late, begun>>

(* The caller drops its future: a write already made stays made. *)
Abandon(c) ==
  /\ ~setup.reliable
  /\ calls[c].pc = "reply"
  /\ calls' = [calls EXCEPT ![c] = Answers(@, NoAnswer)]
  /\ UNCHANGED <<log, setup, handles, late, begun>>

-----------------------------------------------------------------------------

BoundLog(authority) ==
  append_group_guarded_with_blobs(EmptyLog, binding_group(authority), "ok",
    {BindingBlob(authority)}, 0, 0).log

(* A bound tenant after one more append of its own. *)
Appended(tenant, batch, authority) ==
  LET group == append_group(authority, batch, Heads(build_model(authority, tenant)))
  IN append_group_guarded_with_blobs(tenant, group, "ok", ToSet(Uploads(group)),
                                     0, Len(tenant.events)).log

SeedLog(authority, seed) ==
  IF seed = None THEN BoundLog(authority) ELSE Appended(BoundLog(authority), seed, authority)

OpenHandle(authority, tenant) ==
  [install(ClosedHandle, tenant, build_model(authority, tenant)) EXCEPT !.open = TRUE]

(* Handles of a bound tenant's authority were opened before its seed was   *)
(* appended.                                                               *)
Init ==
  /\ setup \in Setups
  /\ \/ \E seed \in Seeds, a \in Authorities :
          /\ log = SeedLog(a, seed)
          /\ handles = [h \in Handles |->
                IF HandleAuthority[h] = a THEN OpenHandle(a, BoundLog(a)) ELSE ClosedHandle]
     \/ /\ Unbound
        /\ log = EmptyLog
        /\ handles = [h \in Handles |-> ClosedHandle]
  /\ calls = [c \in Callers |-> IdleCall]
  /\ late = None
  /\ begun = 0

Step(c) ==
  \/ Call(c) \/ RebuildIndexes(c)
  \/ Capture(c) \/ CaptureFails(c) \/ Resume(c)
  \/ ReadKeys(c) \/ ReadStreams(c) \/ Verify(c) \/ ReadFails(c)
  \/ Upload(c) \/ AppendGroup(c) \/ WriteUnheard(c) \/ WriteDelayed(c) \/ WriteFails(c)
  \/ Reply(c) \/ Probe(c) \/ Abandon(c)

Next == Land \/ \E c \in Callers : Step(c)

Spec == Init /\ [][Next]_vars

-----------------------------------------------------------------------------
(* Properties. *)

(* Calls, handles and the log keep their shapes. *)
TypeOK ==
  /\ log.rows \in [binding : {None} \cup [authority : Authorities, at : Nat],
                    records : [RecordIds -> {None} \cup {log.rows.records[r] : r \in RecordIds}],
                    batches : [Key -> {None} \cup {log.rows.batches[k] : k \in Key}],
                    subjects : [Subjects -> {None} \cup {log.rows.subjects[s] : s \in Subjects}]]
  /\ \A c \in Callers :
       /\ calls[c].pc \in {"idle", "keys", "streams", "rows", "capture", "resume",
                           "upload", "write", "reply", "probe"}
       /\ calls[c].attempts \in 0 .. setup.ATTEMPTS
       /\ calls[c].read.seen \subseteq DOMAIN log.events
  /\ \A h \in Handles : handles[h].own \subseteq 1 .. Len(log.events)

(* The model a handle serves, however it was reached (reused, advanced by  *)
(* the handle's own events, built whole, installed after a later one), is  *)
(* what a whole build of the capture it stands for gives.                  *)
ServedModelIsLog ==
  [][\A h \in Handles :
       handles'[h].verified \notin {None, handles[h].verified} =>
         handles'[h].verified.model =
           build_model(HandleAuthority[h], handles'[h].verified.capture)]_vars

EntryAt(i) ==
  IF i \in DOMAIN log.events /\ log.events[i].body.name = "er.recorded_entry"
  THEN MemberOf(log.events[i].body).entry ELSE None

Truly(op, id, answer) ==
  CASE answer.status = "committed" ->
         /\ Len(answer.receipt.members) = Len(op.members)
         /\ \A i \in DOMAIN op.members :
              EntryAt(answer.receipt.members[i].position.store) = op.members[i].entry
    [] answer.status = "imported" ->
         \A i \in ToSet(op.imports) : \E n \in DOMAIN log.events :
           log.events[n].body = AnchorBody(Authority(op), i)
    [] answer.status = "bound" -> log.events[answer.receipt].body = BindingBody(op.authority)
    [] answer.status = "recorded" ->
         \E n \in DOMAIN log.events : log.events[n].body = RefusalBody(Authority(op), op.refusal)
    [] answer.status = "not_committed" ->
         \A n \in DOMAIN log.events : log.events[n].request_id # id
    [] OTHER -> TRUE

(* A committed answer names what the log holds where it says, and a call   *)
(* answered NotCommitted never published anything, not even later: an      *)
(* unknown outcome is settled by what is found, never by what is not.      *)
AnswersAreTrue ==
  \A c \in Callers : Truly(calls[c].op, calls[c].id, calls[c].answer)

(* Whatever was appended, by whom and in which order, the log verifies     *)
(* under its one binding, and every row the projector wrote is the row the *)
(* verifier expects.                                                       *)
LogVerifies ==
  [][log'.events # log.events =>
       /\ log'.rows.binding # None
       /\ build_model(log'.rows.binding.authority, log').ok]_vars

(* A provider that answers, over a tenant within bounds: concurrent        *)
(* writers end as commits or conflicts, never as uncertainty and never as  *)
(* a verdict against the store.                                            *)
NoFalseAlarm ==
  setup.reliable /\ Readable(log) =>
    \A c \in Callers :
      /\ calls[c].answer.status # "uncertain"
      /\ calls[c].op # None /\ calls[c].op.kind # "open" =>
           calls[c].answer.why \notin {"unreadable", "integrity", "provider_integrity", "backend"}

RecordedSame(group) ==
  \E i \in RecordedUnder(log, group.command) : log.events[i].hash = group.hash

(* An append or a single import that reaches the log after the very same   *)
(* one was recorded is answered from that record, however the guard and    *)
(* the provider order admission and deduplication.                         *)
RecordedCommandAnswers ==
  [][\A c \in Callers :
       /\ calls[c].pc \in {"write", "probe"}
       /\ calls[c].op.kind \in {"append", "import"}
       /\ calls'[c].pc = "reply"
       /\ calls'[c].result.answer \in GuardRefusals \cup {"previously_recorded"}
       /\ calls[c].pc = "probe" \/ calls[c].op.kind = "append" \/ ~setup.atomic_blobs
       => ~RecordedSame(calls[c].group)]_vars

(* What the asynchronous store keeps, read off a model. *)
AsState(model) ==
  [instances |-> model.terminals, histories |-> model.histories, records |-> model.records,
   batches |-> model.batches, next_store_position |-> 0]

Plainly(records) == [i \in DOMAIN records |-> [entry |-> records[i].entry, expect |-> records[i].expect]]

(* Up to the positions it assigns. *)
Content(state) ==
  [instances |-> state.instances,
   histories |-> [s \in Subjects |-> [state.histories[s] EXCEPT !.records = Plainly(@)]],
   records   |-> [r \in RecordIds |->
                    IF state.records[r] = None THEN None ELSE LookupEntry(state.records[r])],
   batches   |-> [k \in Key |-> Plainly(state.batches[k])]]

(* Every group the log takes is an append the asynchronous store's own     *)
(* transaction accepts of what the log held, and leaves what it leaves,    *)
(* whatever was read when the group was planned.                           *)
AppendsFollowContract ==
  [][LET n == Len(log.events) IN
     Len(log'.events) > n /\ log'.events[n + 1].body.name = "er.recorded_entry" =>
       LET body == log'.events[n + 1].body
       IN \A before \in {build_model(body.authority, log)},
             after \in {build_model(body.authority, log')} :
            LET taken == append_transaction(AsState(before), body.key, body.members)
            IN /\ after.ok
               /\ taken.outcome.answer = "committed"
               /\ ~taken.outcome.replayed
               /\ Content(taken.state) = Content(AsState(after))]_vars

=============================================================================
