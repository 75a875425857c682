---------------------------- MODULE EventlogProofs ----------------------------
(***************************************************************************)
(* The recorded adapter over an event log: what its answers rest on, for   *)
(* every log, every number of callers and handles, every kernel and every  *)
(* order in which captures are taken, writes land and replies are lost.    *)
(***************************************************************************)
EXTENDS EventlogAdapter, RecordedStoreProofs

-----------------------------------------------------------------------------
(* What the log holds. *)

Sequence(q) == q \in Seq({q[i] : i \in DOMAIN q})

(* A longer log of the same tenant. *)
Continues(old, new) ==
  /\ Sequence(old) /\ Sequence(new)
  /\ Len(old) <= Len(new)
  /\ \A i \in DOMAIN old : new[i] = old[i]

Names == {"er.binding", "er.recorded_entry", "er.import_anchor", "er.refused_request"}

(* An event is what one of the adapter's groups appends, under the group's *)
(* command and hash.                                                       *)
EventHolds(e) ==
  /\ e.body.name \in Names
  /\ e.body.name = "er.binding" => e.body = BindingBody(e.body.authority)
  /\ e.body.name = "er.import_anchor" => e.body = AnchorBody(e.body.authority, e.body.import)
  /\ e.body.name = "er.refused_request" => e.body = RefusalBody(e.body.authority, e.body.refusal)
  /\ e.body.name = "er.recorded_entry" =>
       /\ e.command = <<"batch", e.body.authority, e.body.key>>
       /\ e.hash = <<BatchBlob(e.body.key, e.body.members)>>
  /\ e.command[1] = "refusal" => e.body = RefusalBody(e.command[2], e.command[3])

(* A command is recorded under one hash, and the binding once. *)
LogHolds(events) ==
  /\ Sequence(events)
  /\ \A i \in DOMAIN events : EventHolds(events[i])
  /\ \A i, j \in DOMAIN events :
       /\ events[i].command = events[j].command => events[i].hash = events[j].hash
       /\ events[i].body.name = "er.binding" /\ events[j].body.name = "er.binding" => i = j

-----------------------------------------------------------------------------
(* What a model holds: what the events it was built from say. *)

RecordRead(events, x) ==
  LET at == x.receipt.position.store IN
  /\ at \in DOMAIN events /\ events[at].body.name = "er.recorded_entry"
  /\ x.entry = MemberOf(events[at].body).entry

BatchRead(a, events, k, records) ==
  LET first   == records[1].receipt.position.store
      members == events[first].body.members
  IN /\ Len(records) \in Nat /\ DOMAIN records = 1 .. Len(records) /\ 1 \in DOMAIN records
     /\ first \in DOMAIN events /\ events[first].body.name = "er.recorded_entry"
     /\ events[first].body.authority = a /\ events[first].body.key = k
     /\ Len(records) = Len(members)
     /\ \A i \in DOMAIN records :
          RecordRead(events, records[i]) /\ records[i].entry = members[i].entry

ModelHolds(a, events, model) ==
  /\ "ok" \in DOMAIN model
  /\ model.ok =>
       /\ DOMAIN model = DOMAIN EmptyModel
       /\ model.binding # 0 =>
            /\ model.binding \in DOMAIN events
            /\ events[model.binding].body = BindingBody(a)
       /\ \A s \in Subjects : model.anchors[s] # 0 =>
            LET at == model.anchors[s] IN
            at \in DOMAIN events /\ events[at].body = AnchorBody(a, events[at].body.import)
       /\ \A k \in Key : model.batches[k] # << >> => BatchRead(a, events, k, model.batches[k])
       /\ \A r \in RecordIds : model.records[r] # None /\ model.records[r].kind = "committed" =>
            RecordRead(events, model.records[r].record)

-----------------------------------------------------------------------------
(* What a handle and a call know. *)

HandleHolds(events, a, handle) ==
  /\ DOMAIN handle = DOMAIN ClosedHandle
  /\ handle.verified # None =>
       /\ Continues(handle.verified.capture.events, events)
       /\ ModelHolds(a, handle.verified.capture.events, handle.verified.model)

(* The operations that write, and the requests they carry. *)
Writes == {"append", "import", "imports", "provision", "refuse"}

OpHolds(op) ==
  /\ op.kind \in Writes \cup {"open", "read", "rebuild"}
  /\ op.kind # "provision" => op.handle \in Handles
  /\ op.kind = "append" =>
       /\ op.key \in Key /\ op.members \in Seq(AppendMember) /\ op.members # << >>
       /\ op.key.kind = "single" => Len(op.members) = 1
       /\ \A i \in DOMAIN op.members : EntryId(op.members[i].entry) \in RecordIds
  /\ op.kind \in {"import", "imports"} => op.imports \in Seq(Import) /\ ~Disagree(op.imports)

(* A group appends what its operation asks for, under the operation's own  *)
(* command.                                                                *)
AppendGroupHolds(a, key, members, group) ==
  /\ group.command = <<"batch", a, key>>
  /\ group.hash = <<BatchBlob(key, members)>>
  /\ Sequence(group.appends) /\ DOMAIN group.appends = DOMAIN members
  /\ \A i \in DOMAIN members : group.appends[i].body = EntryBody(a, key, members, i)

GroupHolds(op, pending, group) ==
  /\ op.kind = "append" => AppendGroupHolds(Authority(op), op.key, op.members, group)
  /\ op.kind \in {"import", "imports"} =>
       pending \in Seq(Import) /\ group = import_group(Authority(op), op.kind, pending)
  /\ op.kind = "provision" => group = binding_group(op.authority)
  /\ op.kind = "refuse" => group = refusal_group(Authority(op), op.refusal)

InLog(events, body) == \E n \in DOMAIN events : events[n].body = body

(* The command of an append is recorded, with the very same members. *)
RecordedFor(events, a, key, members) ==
  \E i \in DOMAIN events :
    events[i].command = <<"batch", a, key>> /\ events[i].hash = <<BatchBlob(key, members)>>

(* Every import asked for is in the log, or in the group to be written. *)
PendingHolds(events, op, pending) ==
  /\ pending \in Seq(Import)
  /\ \A x \in ToSet(op.imports) :
       InLog(events, AnchorBody(Authority(op), x)) \/ x \in ToSet(pending)

Silent(events, id) == \A i \in DOMAIN events : events[i].request_id # id

(* Nothing was published of a call, and nothing is under way. *)
Unwritten(events, waiting, id) ==
  Silent(events, id) /\ (waiting = None \/ waiting.id # id)

ReadSteps == {"keys", "streams", "rows", "capture", "resume"}

WriteSteps == {"upload", "write", "probe"}

Unpublished(k) ==
  \/ k.pc \in WriteSteps
  \/ k.pc \in ReadSteps /\ k.goal \in {"plan", "conflict", "mismatch"}
  \/ k.pc = "reply" /\ k.result.answer \notin {"ok", "unknown"}

(* A scoped read has seen places of the log. *)
ReadHolds(events, read) ==
  DOMAIN read = DOMAIN NothingRead /\ read.seen \subseteq DOMAIN events

(* A call that has not answered yet. *)
CallKnows(events, k) ==
  /\ k.pc \in ReadSteps \cup WriteSteps \cup {"reply"}
  /\ k.answer = NoAnswer
  /\ OpHolds(k.op)
  /\ k.pc \in ReadSteps =>
       /\ k.goal \in {"plan", "confirm", "unknown", "conflict", "mismatch"}
       /\ k.op.kind = "append" /\ k.goal = "confirm" =>
            RecordedFor(events, Authority(k.op), k.op.key, k.op.members)
       /\ k.op.kind \in {"import", "imports"} /\ k.goal # "plan" =>
            PendingHolds(events, k.op, k.pending)
  /\ k.pc \in {"keys", "streams", "rows"} =>
       k.op.kind = "append" /\ ReadHolds(events, k.read)
  /\ k.pc = "resume" => Continues(k.capture.events, events)
  /\ k.pc \in WriteSteps \cup {"reply"} =>
       /\ k.op.kind \in Writes
       /\ GroupHolds(k.op, k.pending, k.group)
       /\ k.op.kind \in {"import", "imports"} => PendingHolds(events, k.op, k.pending)
  /\ k.pc = "reply" =>
       /\ k.op.kind = "append" /\ k.result.answer \in {"ok", "deduplicated"} =>
            RecordedFor(events, Authority(k.op), k.op.key, k.op.members)
       /\ k.op.kind = "refuse" /\ k.result.answer \in {"ok", "deduplicated", "conflict"} =>
            InLog(events, RefusalBody(Authority(k.op), k.op.refusal))

(* What was published of a provision is its binding. *)
BindsOwn(events, k) ==
  k.op.kind = "provision" =>
    \A i \in DOMAIN events : events[i].request_id = k.id =>
      events[i].body = BindingBody(k.op.authority)

EntryIn(events, i) ==
  IF i \in DOMAIN events /\ events[i].body.name = "er.recorded_entry"
  THEN MemberOf(events[i].body).entry ELSE None

(* An answer is true now and stays so: what is under way of a call that    *)
(* was told NotCommitted cannot land any more.                             *)
AnswerHolds(events, waiting, op, id, answer) ==
  /\ answer.status = "committed" =>
       /\ Len(answer.receipt.members) = Len(op.members)
       /\ DOMAIN op.members = 1 .. Len(op.members)
       /\ \A i \in DOMAIN op.members :
            /\ EntryIn(events, answer.receipt.members[i].position.store) = op.members[i].entry
            /\ op.members[i].entry # None
  /\ answer.status = "imported" =>
       \A x \in ToSet(op.imports) : InLog(events, AnchorBody(Authority(op), x))
  /\ answer.status = "bound" =>
       answer.receipt \in DOMAIN events /\ events[answer.receipt].body = BindingBody(op.authority)
  /\ answer.status = "recorded" => InLog(events, RefusalBody(Authority(op), op.refusal))
  /\ answer.status = "not_committed" =>
       /\ Silent(events, id)
       /\ \/ waiting = None \/ waiting.id # id
          \/ waiting.op.kind = "provision" /\ BindingsIn(events) # {}

CallHolds(events, waiting, k) ==
  /\ DOMAIN k = DOMAIN IdleCall
  /\ k.id = 0 => k.pc = "idle" /\ k.answer = NoAnswer
  /\ k.id # 0 => BindsOwn(events, k)
  /\ k.pc = "idle" => AnswerHolds(events, waiting, k.op, k.id, k.answer)
  /\ k.pc # "idle" => CallKnows(events, k)
  /\ Unpublished(k) => Unwritten(events, waiting, k.id)
  /\ waiting # None /\ k.id # 0 /\ waiting.id = k.id => waiting.op = k.op

LateHolds(waiting, n) ==
  waiting # None =>
    /\ waiting.id \in 1 .. n /\ waiting.op.kind \in Writes /\ OpHolds(waiting.op)
    /\ GroupHolds(waiting.op, waiting.pending, waiting.group)

(* The inductive invariant. *)
AdapterInvariant ==
  /\ DOMAIN log = DOMAIN EmptyLog /\ LogHolds(log.events)
  /\ begun \in Nat
  /\ \A i \in DOMAIN log.events : log.events[i].request_id \in 0 .. begun
  /\ handles = [h \in Handles |-> handles[h]]
  /\ \A h \in Handles : HandleHolds(log.events, HandleAuthority[h], handles[h])
  /\ LateHolds(late, begun)
  /\ calls = [c \in Callers |-> calls[c]]
  /\ \A c \in Callers : calls[c].id \in 0 .. begun
  /\ \A c \in Callers : CallHolds(log.events, late, calls[c])
  /\ \A c, d \in Callers : c # d => calls[c].id = 0 \/ calls[c].id # calls[d].id

-----------------------------------------------------------------------------
(* Sequences. *)

(* The places of a sequence. *)
LEMMA SequenceFacts ==
  ASSUME NEW q, Sequence(q)
  PROVE  /\ Len(q) \in Nat /\ DOMAIN q = 1 .. Len(q)
         /\ \A i \in DOMAIN q : i \in Nat /\ i > 0
<1>1. q \in Seq({q[i] : i \in DOMAIN q})
  BY DEF Sequence
<1>2. Len(q) \in Nat /\ DOMAIN q = 1 .. Len(q)
  BY <1>1, LenProperties, Zenon
<1> QED
  BY <1>2

(* A function of the first places is a sequence. *)
LEMMA SequenceOf ==
  ASSUME NEW q, NEW n \in Nat, DOMAIN q = 1 .. n, q = [i \in DOMAIN q |-> q[i]]
  PROVE  Sequence(q) /\ Len(q) = n
<1> DEFINE S == {q[i] : i \in DOMAIN q}
<1>1. q \in [1 .. n -> S]
  BY Zenon
<1> HIDE DEF S
<1>2. q \in Seq(S)
  BY <1>1, SeqDef
<1>3. Len(q) \in Nat /\ DOMAIN q = 1 .. Len(q)
  BY <1>2, LenProperties, Zenon
<1>4. Len(q) = n
  BY <1>3
<1> QED
  BY <1>2, <1>4 DEF Sequence, S

(* Every typed sequence is one. *)
LEMMA SequenceTyped ==
  ASSUME NEW S, NEW q \in Seq(S)
  PROVE  Sequence(q)
<1>1. Len(q) \in Nat /\ DOMAIN q = 1 .. Len(q) /\ q \in [1 .. Len(q) -> S]
  BY LenProperties, Zenon
<1>2. q = [i \in DOMAIN q |-> q[i]]
  BY <1>1, Zenon
<1> QED
  BY <1>1, <1>2, SequenceOf

(* One sequence after another. *)
LEMMA Joined ==
  ASSUME NEW q, NEW more, Sequence(q), Sequence(more)
  PROVE  LET both == q \o more IN
         /\ Sequence(both) /\ Len(both) = Len(q) + Len(more)
         /\ \A i \in DOMAIN q : both[i] = q[i]
         /\ \A i \in DOMAIN more : both[Len(q) + i] = more[i]
         /\ \A i \in DOMAIN both : i \in DOMAIN q \/ i - Len(q) \in DOMAIN more
<1> DEFINE S == {q[i] : i \in DOMAIN q} \cup {more[i] : i \in DOMAIN more}
           both == q \o more
<1>1. q \in Seq(S) /\ more \in Seq(S)
  <2>1. q \in Seq({q[i] : i \in DOMAIN q}) /\ more \in Seq({more[i] : i \in DOMAIN more})
    BY DEF Sequence
  <2>2. {q[i] : i \in DOMAIN q} \subseteq S /\ {more[i] : i \in DOMAIN more} \subseteq S
    OBVIOUS
  <2> QED
    BY <2>1, <2>2, SeqMonotonic, Zenon
<1> HIDE DEF S
<1>2. /\ both \in Seq(S) /\ Len(both) = Len(q) + Len(more)
      /\ \A i \in 1 .. Len(q) + Len(more) :
           both[i] = IF i <= Len(q) THEN q[i] ELSE more[i - Len(q)]
  BY <1>1, ConcatProperties, Zenon
<1>3. /\ Len(q) \in Nat /\ DOMAIN q = 1 .. Len(q)
      /\ Len(more) \in Nat /\ DOMAIN more = 1 .. Len(more)
  BY SequenceFacts
<1>4. Sequence(both) /\ DOMAIN both = 1 .. Len(both)
  BY <1>2, SequenceTyped, SequenceFacts, Zenon
<1> HIDE DEF both
<1>5. \A i \in DOMAIN more :
        /\ Len(q) + i \in 1 .. Len(q) + Len(more) /\ ~(Len(q) + i <= Len(q))
        /\ Len(q) + i - Len(q) = i
  BY <1>3
<1>6. /\ \A i \in DOMAIN q : both[i] = q[i]
      /\ \A i \in DOMAIN more : both[Len(q) + i] = more[i]
      /\ \A i \in DOMAIN both : i \in DOMAIN q \/ i - Len(q) \in DOMAIN more
  BY <1>2, <1>3, <1>4, <1>5
<1> QED
  BY <1>2, <1>4, <1>6 DEF both

(* A log continues itself, and what continues a continuation continues it. *)
LEMMA ContinuesItself ==
  ASSUME NEW q, Sequence(q)
  PROVE  Continues(q, q)
  BY SequenceFacts DEF Continues

(* A log that continues a continuation continues what came first. *)
LEMMA ContinuesOn ==
  ASSUME NEW old, NEW mid, NEW new, Continues(old, mid), Continues(mid, new)
  PROVE  Continues(old, new)
<1>1. /\ Len(old) \in Nat /\ DOMAIN old = 1 .. Len(old)
      /\ Len(mid) \in Nat /\ DOMAIN mid = 1 .. Len(mid) /\ Len(new) \in Nat
  BY SequenceFacts DEF Continues
<1> QED
  BY <1>1 DEF Continues

(* What is in a log is in every continuation of it. *)
LEMMA ContinuesIn ==
  ASSUME NEW old, NEW new, Continues(old, new)
  PROVE  \A i \in DOMAIN old : i \in DOMAIN new /\ new[i] = old[i]
<1>1. /\ Len(old) \in Nat /\ DOMAIN old = 1 .. Len(old)
      /\ Len(new) \in Nat /\ DOMAIN new = 1 .. Len(new)
  BY SequenceFacts DEF Continues
<1> QED
  BY <1>1 DEF Continues

-----------------------------------------------------------------------------
(* Models. *)

(* The one element of a set that has one. *)
LEMMA OnlyIn ==
  ASSUME NEW T, T # {}
  PROVE  Only(T) \in T
  BY DEF Only

(* The fields of a model. *)
ModelFields ==
  {"ok", "held", "binding", "histories", "terminals", "records", "batches", "physical",
   "anchors", "refusals"}

(* The empty model has the fields of every model that verified. *)
LEMMA ModelDomain == DOMAIN EmptyModel = ModelFields /\ "ok" \in ModelFields
  BY DEF EmptyModel, ModelFields

(* A model that did not verify says nothing. *)
LEMMA CorruptHolds ==
  ASSUME NEW a, NEW events
  PROVE  ModelHolds(a, events, Corrupt) /\ ~Corrupt.ok
<1>1. ~Corrupt.ok /\ "ok" \in DOMAIN Corrupt
  BY DEF Corrupt
<1> QED
  BY <1>1, Zenon DEF ModelHolds

(* The anchors among some places that a subject has, or that name a record. *)
OriginsOf(events, places, s) ==
  {i \in Anchoring(events, places) : ImportAt(events, i).anchor.subject = s}

NamingOf(events, places, r) ==
  {i \in Anchoring(events, places) : r \in IdsOf(ImportAt(events, i))}

(* What a model has after it admitted some events. *)
AdmittedAs(events, model, places, after) ==
  /\ DOMAIN after = ModelFields
  /\ after.binding = IF Under(events, places, "er.binding") = {} THEN model.binding
                     ELSE Only(Under(events, places, "er.binding"))
  /\ after.batches = model.batches
  /\ \A s \in Subjects : after.anchors[s] =
       IF OriginsOf(events, places, s) = {} THEN model.anchors[s]
       ELSE Only(OriginsOf(events, places, s))
  /\ \A r \in RecordIds :
       NamingOf(events, places, r) = {} => after.records[r] = model.records[r]
  /\ \A r \in RecordIds :
       NamingOf(events, places, r) # {} => after.records[r].kind = "imported"

(* What admitting events leaves in the fields of a model. *)
LEMMA AdmittedFields ==
  ASSUME NEW a, NEW capture, NEW model, NEW places, DOMAIN model = ModelFields,
         Admitted(a, capture, model, places) # Corrupt
  PROVE  AdmittedAs(capture.events, model, places, Admitted(a, capture, model, places))
<1>1. model.ok /\ \A i \in places : Admissible(a, capture, model, places, i)
  BY Zenon DEF Admitted
<1> QED
  BY <1>1 DEF Admitted, ModelFields, OriginsOf, NamingOf, AdmittedAs

(* What events admitted add to a model, the log says. *)
LEMMA AdmittedHolds ==
  ASSUME NEW a, NEW capture, LogHolds(capture.events), NEW model,
         ModelHolds(a, capture.events, model), NEW places, places \subseteq DOMAIN capture.events
  PROVE  LET after == Admitted(a, capture, model, places) IN
         /\ ModelHolds(a, capture.events, after)
         /\ after.ok => \A i \in places : capture.events[i].body.authority = a
<1> DEFINE after == Admitted(a, capture, model, places)
           events == capture.events
<1>1. CASE after = Corrupt
  BY <1>1, CorruptHolds
<1>2. CASE after # Corrupt
  <2>1. model.ok /\ \A i \in places : Admissible(a, capture, model, places, i)
    <3>1. ~(~model.ok \/ \E i \in places : ~Admissible(a, capture, model, places, i))
      BY <1>2, Zenon DEF Admitted
    <3> QED
      BY <3>1, Zenon
  <2>2. /\ DOMAIN model = ModelFields
        /\ model.binding # 0 =>
             model.binding \in DOMAIN events /\ events[model.binding].body = BindingBody(a)
        /\ \A s \in Subjects : model.anchors[s] # 0 =>
             /\ model.anchors[s] \in DOMAIN events
             /\ events[model.anchors[s]].body = AnchorBody(a, events[model.anchors[s]].body.import)
        /\ \A k \in Key : model.batches[k] # << >> => BatchRead(a, events, k, model.batches[k])
        /\ \A r \in RecordIds : model.records[r] # None /\ model.records[r].kind = "committed" =>
             RecordRead(events, model.records[r].record)
    BY <2>1, ModelDomain DEF ModelHolds
  <2>3. /\ DOMAIN after = ModelFields
        /\ after.binding = IF Under(events, places, "er.binding") = {} THEN model.binding
                           ELSE Only(Under(events, places, "er.binding"))
        /\ after.batches = model.batches
        /\ \A s \in Subjects : after.anchors[s] =
             IF OriginsOf(events, places, s) = {} THEN model.anchors[s] ELSE Only(OriginsOf(events, places, s))
        /\ \A r \in RecordIds : NamingOf(events, places, r) = {} => after.records[r] = model.records[r]
        /\ \A r \in RecordIds : NamingOf(events, places, r) # {} => after.records[r].kind = "imported"
    <3>1. DOMAIN model = ModelFields
      BY <2>2
    <3>2. AdmittedAs(events, model, places, after)
      BY <1>2, <3>1, AdmittedFields, Zenon
    <3> QED
      BY <3>2 DEF AdmittedAs
  <2> HIDE DEF after
  <2>4. \A i \in places : /\ i \in DOMAIN events /\ EventHolds(events[i])
                          /\ events[i].body.authority = a
    BY <2>1 DEF Admissible, LogHolds
  <2>5. after.binding # 0 =>
          after.binding \in DOMAIN events /\ events[after.binding].body = BindingBody(a)
    <3>1. ASSUME Under(events, places, "er.binding") # {}
          PROVE  /\ after.binding \in DOMAIN events
                 /\ events[after.binding].body = BindingBody(a)
      <4>1. after.binding \in Under(events, places, "er.binding")
        BY <2>3, <3>1, OnlyIn
      <4>2. after.binding \in places /\ events[after.binding].body.name = "er.binding"
        BY <4>1 DEF Under
      <4> QED
        BY <2>4, <4>2 DEF EventHolds
    <3> QED
      BY <2>2, <2>3, <3>1
  <2>6. ASSUME NEW s \in Subjects, after.anchors[s] # 0
        PROVE  /\ after.anchors[s] \in DOMAIN events
               /\ events[after.anchors[s]].body = AnchorBody(a, events[after.anchors[s]].body.import)
    <3>1. CASE OriginsOf(events, places, s) # {}
      <4>1. after.anchors[s] \in OriginsOf(events, places, s)
        BY <2>3, <3>1, OnlyIn
      <4>2. /\ after.anchors[s] \in places
            /\ events[after.anchors[s]].body.name = "er.import_anchor"
        BY <4>1 DEF OriginsOf, Under, Anchoring
      <4> QED
        BY <2>4, <4>2 DEF EventHolds
    <3>2. CASE OriginsOf(events, places, s) = {}
      BY <2>2, <2>3, <2>6, <3>2
    <3> QED
      BY <3>1, <3>2
  <2>7. ASSUME NEW r \in RecordIds, after.records[r] # None, after.records[r].kind = "committed"
        PROVE  RecordRead(events, after.records[r].record)
    <3>1. NamingOf(events, places, r) = {}
      BY <2>3, <2>7
    <3>2. after.records[r] = model.records[r]
      BY <2>3, <3>1
    <3> QED
      BY <2>2, <2>7, <3>2
  <2>8. ModelHolds(a, events, after)
    BY <2>2, <2>3, <2>5, <2>6, <2>7, ModelDomain DEF ModelHolds
  <2> QED
    BY <2>4, <2>8 DEF after
<1> QED
  BY <1>1, <1>2

(* The places of a set, in the order of the log. *)
LEMMA PlacesInOrder ==
  ASSUME NEW events, Sequence(events), NEW places, places \subseteq DOMAIN events
  PROVE  LET f == InOrder(places) IN
         /\ Sequence(f)
         /\ \A n \in DOMAIN f : f[n] \in places
         /\ \A i \in places : \E n \in DOMAIN f : f[n] = i
<1> DEFINE f == InOrder(places)
           c == Cardinality(places)
<1>1. Len(events) \in Nat /\ places \subseteq 1 .. Len(events)
  BY SequenceFacts
<1>2. c \in Nat /\ f \in [1 .. c -> places] /\ \A i \in places : \E m \in 1 .. c : f[m] = i
  BY <1>1, InOrderFacts
<1> HIDE DEF f, c
<1>3. DOMAIN f = 1 .. c /\ f = [i \in DOMAIN f |-> f[i]]
  BY <1>2
<1>4. Sequence(f)
  BY <1>2, <1>3, SequenceOf
<1> QED
  BY <1>2, <1>3, <1>4 DEF f

(* The keys some places name, and the places that name a record. *)
KeysOf(events, pending) == {events[i].body.key : i \in pending}

RecordsNaming(events, pending, r) == {i \in pending : EntryId(MemberOf(events[i].body).entry) = r}

(* What a model has after it took the groups of some places. *)
InsertedAs(events, model, pending, after) ==
  /\ DOMAIN after = ModelFields
  /\ after.binding = model.binding /\ after.anchors = model.anchors
  /\ \A k \in KeysOf(events, pending) : GroupComplete(events, GroupOf(events, pending, k))
  /\ \A k \in Key : after.batches[k] =
       IF k \notin KeysOf(events, pending) THEN model.batches[k]
       ELSE [n \in DOMAIN GroupOf(events, pending, k) |->
               StoredFrom(events, GroupOf(events, pending, k)[n])]
  /\ \A r \in RecordIds : RecordsNaming(events, pending, r) = {} =>
       after.records[r] = model.records[r]
  /\ \A r \in RecordIds : RecordsNaming(events, pending, r) # {} =>
       \E i \in pending : after.records[r].record = StoredFrom(events, i)

(* What inserting committed groups leaves in the fields of a model. *)
LEMMA InsertedFields ==
  ASSUME NEW events, NEW model, NEW pending, DOMAIN model = ModelFields,
         insert_committed(model, events, pending) # Corrupt
  PROVE  InsertedAs(events, model, pending, insert_committed(model, events, pending))
<1> DEFINE after == insert_committed(model, events, pending)
<1>1. \A k \in KeysOf(events, pending) : GroupComplete(events, GroupOf(events, pending, k))
  BY Zenon DEF insert_committed, KeysOf
<1>2. /\ DOMAIN after = ModelFields
      /\ after.binding = model.binding /\ after.anchors = model.anchors
      /\ \A k \in Key : after.batches[k] =
           IF k \notin KeysOf(events, pending) THEN model.batches[k]
           ELSE [n \in DOMAIN GroupOf(events, pending, k) |->
                   StoredFrom(events, GroupOf(events, pending, k)[n])]
  BY DEF insert_committed, ModelFields, KeysOf
<1>3. \A r \in RecordIds : after.records[r] =
        IF RecordsNaming(events, pending, r) = {} THEN model.records[r]
        ELSE [kind |-> "committed",
              record |-> StoredFrom(events, CHOOSE i \in RecordsNaming(events, pending, r) : TRUE)]
  BY DEF insert_committed, ModelFields, RecordsNaming
<1> HIDE DEF after
<1>4. \A r \in RecordIds : RecordsNaming(events, pending, r) # {} =>
        \E i \in pending : after.records[r].record = StoredFrom(events, i)
  <2>1. \A r \in RecordIds : RecordsNaming(events, pending, r) # {} =>
          (CHOOSE i \in RecordsNaming(events, pending, r) : TRUE) \in RecordsNaming(events, pending, r)
    OBVIOUS
  <2>2. \A r \in RecordIds : RecordsNaming(events, pending, r) \subseteq pending
    BY DEF RecordsNaming
  <2>3. ASSUME NEW r \in RecordIds, RecordsNaming(events, pending, r) # {}
        PROVE  \E i \in pending : after.records[r].record = StoredFrom(events, i)
    <3> DEFINE i == CHOOSE i \in RecordsNaming(events, pending, r) : TRUE
    <3>1. i \in pending
      BY <2>1, <2>2, <2>3
    <3> HIDE DEF i
    <3>2. after.records[r] = [kind |-> "committed", record |-> StoredFrom(events, i)]
      BY <1>3, <2>3 DEF i
    <3> QED
      BY <3>1, <3>2
  <2> QED
    BY <2>3
<1> QED
  BY <1>1, <1>2, <1>3, <1>4 DEF InsertedAs, after

(* A stored record is the one its event carries. *)
LEMMA StoredRead ==
  ASSUME NEW events, NEW i \in DOMAIN events, events[i].body.name = "er.recorded_entry"
  PROVE  LET x == StoredFrom(events, i) IN
         /\ RecordRead(events, x) /\ x.receipt.position.store = i
         /\ x.entry = MemberOf(events[i].body).entry
  BY DEF StoredFrom, RecordRead

(* What groups add to a model, the log says. *)
LEMMA InsertedHolds ==
  ASSUME NEW a, NEW events, LogHolds(events), NEW model, ModelHolds(a, events, model),
         NEW places, places \subseteq DOMAIN events,
         model.ok => \A i \in places : events[i].body.authority = a
  PROVE  ModelHolds(a, events, insert_committed(model, events, Pending(events, places)))
<1> DEFINE pending == Pending(events, places)
           after == insert_committed(model, events, pending)
<1>1. CASE after = Corrupt
  BY <1>1, CorruptHolds
<1>2. CASE after # Corrupt
  <2>1. model.ok
    BY <1>2, Zenon DEF insert_committed
  <2>2. /\ DOMAIN model = ModelFields
        /\ model.binding # 0 =>
             model.binding \in DOMAIN events /\ events[model.binding].body = BindingBody(a)
        /\ \A s \in Subjects : model.anchors[s] # 0 =>
             /\ model.anchors[s] \in DOMAIN events
             /\ events[model.anchors[s]].body = AnchorBody(a, events[model.anchors[s]].body.import)
        /\ \A k \in Key : model.batches[k] # << >> => BatchRead(a, events, k, model.batches[k])
        /\ \A r \in RecordIds : model.records[r] # None /\ model.records[r].kind = "committed" =>
             RecordRead(events, model.records[r].record)
    BY <2>1, ModelDomain DEF ModelHolds
  <2>3. InsertedAs(events, model, pending, after)
    <3>1. DOMAIN model = ModelFields
      BY <2>2
    <3> QED
      BY <1>2, <3>1, InsertedFields, Zenon
  <2> HIDE DEF after
  <2>4. \A i \in pending : /\ i \in DOMAIN events
                           /\ events[i].body.name = "er.recorded_entry"
                           /\ events[i].body.authority = a
    BY <2>1 DEF Pending, Under
  <2>5. Sequence(events) /\ pending \subseteq DOMAIN events
    BY <2>4 DEF LogHolds
  <2> HIDE DEF pending
  <2>6. ASSUME NEW k \in Key, after.batches[k] # << >>
        PROVE  BatchRead(a, events, k, after.batches[k])
    <3>1. CASE k \notin KeysOf(events, pending)
      <4>1. after.batches[k] = model.batches[k]
        BY <2>3, <3>1 DEF InsertedAs
      <4> QED
        BY <2>2, <2>6, <4>1
    <3>2. CASE k \in KeysOf(events, pending)
      <4> DEFINE mine == {i \in pending : events[i].body.key = k}
                 group == GroupOf(events, pending, k)
                 records == after.batches[k]
      <4>1. group = InOrder(mine)
        BY DEF GroupOf
      <4>2. /\ Sequence(group) /\ \A n \in DOMAIN group : group[n] \in mine
            /\ \A i \in mine : \E n \in DOMAIN group : group[n] = i
        BY ZenonT(60), <2>5, <4>1, PlacesInOrder
      <4>3. PICK i \in mine : TRUE
        BY <3>2 DEF KeysOf
      <4>4. /\ GroupComplete(events, group)
            /\ records = [n \in DOMAIN group |-> StoredFrom(events, group[n])]
        BY <2>3, <3>2 DEF InsertedAs
      <4> HIDE DEF group, records
      <4>5. Len(group) \in Nat /\ DOMAIN group = 1 .. Len(group) /\ 1 \in DOMAIN group
        BY <4>2, <4>3, SequenceFacts
      <4>6. DOMAIN records = DOMAIN group /\ records = [n \in DOMAIN records |-> records[n]]
        BY <4>4
      <4>7. Len(records) = Len(group)
        BY <4>5, <4>6, SequenceOf
      <4>8. \A n \in DOMAIN group :
              /\ group[n] \in DOMAIN events
              /\ events[group[n]].body.name = "er.recorded_entry"
              /\ events[group[n]].body.authority = a /\ events[group[n]].body.key = k
              /\ records[n] = StoredFrom(events, group[n])
        BY <2>4, <4>2, <4>4
      <4>9. \A n \in DOMAIN group :
              /\ RecordRead(events, records[n])
              /\ records[n].receipt.position.store = group[n]
              /\ records[n].entry = MemberOf(events[group[n]].body).entry
        BY <4>8, StoredRead
      <4>10. /\ Len(group) = Len(events[group[1]].body.members)
             /\ \A n \in DOMAIN group :
                  MemberOf(events[group[n]].body).entry = events[group[1]].body.members[n].entry
        BY <4>4 DEF GroupComplete
      <4> DEFINE first == group[1]
      <4>11. records[1].receipt.position.store = first
        BY <4>5, <4>9
      <4>12. /\ first \in DOMAIN events /\ events[first].body.name = "er.recorded_entry"
             /\ events[first].body.authority = a /\ events[first].body.key = k
        BY <4>5, <4>8
      <4>13. /\ Len(records) \in Nat /\ DOMAIN records = 1 .. Len(records)
             /\ 1 \in DOMAIN records /\ Len(records) = Len(events[first].body.members)
        BY <4>5, <4>6, <4>7, <4>10
      <4>14. \A n \in DOMAIN records :
               /\ RecordRead(events, records[n])
               /\ records[n].entry = events[first].body.members[n].entry
        BY <4>6, <4>9, <4>10
      <4> HIDE DEF first
      <4>15. BatchRead(a, events, k, records)
        BY ONLY <4>11, <4>12, <4>13, <4>14 DEF BatchRead
      <4> QED
        BY <4>15 DEF records
    <3> QED
      BY <3>1, <3>2
  <2>7. ASSUME NEW r \in RecordIds, after.records[r] # None, after.records[r].kind = "committed"
        PROVE  RecordRead(events, after.records[r].record)
    <3>1. CASE RecordsNaming(events, pending, r) = {}
      <4>1. after.records[r] = model.records[r]
        BY <2>3, <3>1 DEF InsertedAs
      <4> QED
        BY <2>2, <2>7, <4>1
    <3>2. CASE RecordsNaming(events, pending, r) # {}
      <4>1. PICK i \in pending : after.records[r].record = StoredFrom(events, i)
        BY <2>3, <3>2 DEF InsertedAs
      <4> QED
        BY <2>4, <4>1, StoredRead
    <3> QED
      BY <3>1, <3>2
  <2>8. /\ DOMAIN after = ModelFields
        /\ after.binding = model.binding /\ after.anchors = model.anchors
    BY <2>3 DEF InsertedAs
  <2>9. ModelHolds(a, events, after)
    BY <2>2, <2>6, <2>7, <2>8, ModelDomain DEF ModelHolds
  <2> QED
    BY <2>9 DEF after, pending
<1> QED
  BY <1>1, <1>2

(* Settling touches no place. *)
LEMMA SettledHolds ==
  ASSUME NEW a, NEW events, NEW model, ModelHolds(a, events, model), NEW subjects, NEW prefix
  PROVE  ModelHolds(a, events, Settles(model, subjects, prefix))
<1> DEFINE after == Settles(model, subjects, prefix)
<1>1. CASE after = Corrupt
  BY <1>1, CorruptHolds
<1>2. CASE after # Corrupt
  <2>1. model.ok
    BY <1>2, Zenon DEF Settles
  <2>2. DOMAIN model = ModelFields
    BY <2>1, ModelDomain DEF ModelHolds
  <2>3. /\ DOMAIN after = ModelFields /\ after.binding = model.binding
        /\ after.anchors = model.anchors /\ after.batches = model.batches
        /\ after.records = model.records
    BY <1>2, <2>2 DEF Settles, ModelFields
  <2> HIDE DEF after
  <2>4. ModelHolds(a, events, after)
    BY <2>1, <2>3, ModelDomain DEF ModelHolds
  <2> QED
    BY <2>4 DEF after
<1> QED
  BY <1>1, <1>2

(* The whole-log checks keep a model as it is, or reject it. *)
LEMMA ValidatedHolds ==
  ASSUME NEW a, NEW capture, NEW model, ModelHolds(a, capture.events, model)
  PROVE  ModelHolds(a, capture.events, Validated(a, capture, model))
<1>1. Validated(a, capture, model) \in {model, Corrupt}
  BY Zenon DEF Validated
<1> QED
  BY <1>1, CorruptHolds, Zenon

(* The model of no event. *)
LEMMA EmptyModelHolds ==
  ASSUME NEW a, NEW events, NEW held
  PROVE  ModelHolds(a, events, [EmptyModel EXCEPT !.held = held])
<1> DEFINE model == [EmptyModel EXCEPT !.held = held]
<1>1. /\ DOMAIN model = DOMAIN EmptyModel /\ model.binding = 0
      /\ \A s \in Subjects : model.anchors[s] = 0
      /\ \A k \in Key : model.batches[k] = << >>
      /\ \A r \in RecordIds : model.records[r] = None
  BY DEF EmptyModel, EmptyState
<1> HIDE DEF model
<1>2. ModelHolds(a, events, model)
  BY <1>1, ModelDomain DEF ModelHolds
<1> QED
  BY <1>2 DEF model

(* A model built whole holds what its events say. *)
LEMMA BuiltEventsHold ==
  ASSUME NEW a, NEW capture, LogHolds(capture.events),
         NEW places, places \subseteq DOMAIN capture.events
  PROVE  ModelHolds(a, capture.events, build_model_events(a, capture, places))
<1> DEFINE held == [EmptyModel EXCEPT !.held = capture_held(capture)]
           admitted == Admitted(a, capture, held, places)
           inserted == insert_committed(admitted, capture.events, Pending(capture.events, places))
           listed == {s \in Subjects : HasHistory(inserted.histories[s])}
           settled == Settles(inserted, listed, [s \in Subjects |-> 0])
<1>1. ModelHolds(a, capture.events, held)
  BY EmptyModelHolds
<1> HIDE DEF held
<1>2. /\ ModelHolds(a, capture.events, admitted)
      /\ admitted.ok => \A i \in places : capture.events[i].body.authority = a
  BY <1>1, AdmittedHolds
<1> HIDE DEF admitted
<1>3. ModelHolds(a, capture.events, inserted)
  BY <1>2, InsertedHolds
<1> HIDE DEF inserted
<1>4. ModelHolds(a, capture.events, settled)
  BY <1>3, SettledHolds
<1> HIDE DEF listed
<1>5. build_model_events(a, capture, places) \in {Corrupt, settled}
  BY DEF build_model_events, held, admitted, inserted, listed
<1> QED
  BY <1>4, <1>5, CorruptHolds

(* A whole build says what the events it was built from say. *)
LEMMA BuiltHolds ==
  ASSUME NEW a, NEW capture, LogHolds(capture.events)
  PROVE  ModelHolds(a, capture.events, build_model(a, capture))
<1>1. ModelHolds(a, capture.events,
                 build_model_events(a, capture, DOMAIN capture.events))
  BY BuiltEventsHold
<1> QED
  BY <1>1, ValidatedHolds DEF build_model

-----------------------------------------------------------------------------
(* Models of an earlier log. *)

(* A record read of a log is read of every longer one. *)
LEMMA RecordStays ==
  ASSUME NEW old, NEW new, Continues(old, new), NEW x, RecordRead(old, x)
  PROVE  RecordRead(new, x)
  BY ContinuesIn DEF RecordRead

(* So is a batch. *)
LEMMA BatchStays ==
  ASSUME NEW a, NEW old, NEW new, Continues(old, new), NEW k, NEW records,
         BatchRead(a, old, k, records)
  PROVE  BatchRead(a, new, k, records)
<1> DEFINE first == records[1].receipt.position.store
<1>1. first \in DOMAIN old
  BY DEF BatchRead
<1>2. first \in DOMAIN new /\ new[first] = old[first]
  BY <1>1, ContinuesIn
<1>3. \A i \in DOMAIN records : RecordRead(new, records[i])
  BY RecordStays DEF BatchRead
<1> QED
  BY <1>2, <1>3 DEF BatchRead

(* What a model holds of a log it holds of every continuation. *)
LEMMA ModelStays ==
  ASSUME NEW a, NEW old, NEW new, Continues(old, new), NEW model, ModelHolds(a, old, model)
  PROVE  ModelHolds(a, new, model)
<1>1. ASSUME model.ok PROVE ModelHolds(a, new, model)
  <2>1. /\ DOMAIN model = DOMAIN EmptyModel
        /\ model.binding # 0 =>
             model.binding \in DOMAIN old /\ old[model.binding].body = BindingBody(a)
        /\ \A s \in Subjects : model.anchors[s] # 0 =>
             /\ model.anchors[s] \in DOMAIN old
             /\ old[model.anchors[s]].body = AnchorBody(a, old[model.anchors[s]].body.import)
        /\ \A k \in Key : model.batches[k] # << >> => BatchRead(a, old, k, model.batches[k])
        /\ \A r \in RecordIds : model.records[r] # None /\ model.records[r].kind = "committed" =>
             RecordRead(old, model.records[r].record)
    BY <1>1 DEF ModelHolds
  <2>2. \A k \in Key : model.batches[k] # << >> => BatchRead(a, new, k, model.batches[k])
    BY <2>1, BatchStays
  <2>3. \A r \in RecordIds : model.records[r] # None /\ model.records[r].kind = "committed" =>
          RecordRead(new, model.records[r].record)
    BY <2>1, RecordStays
  <2>4. model.binding # 0 =>
          model.binding \in DOMAIN new /\ new[model.binding].body = BindingBody(a)
    BY <2>1, ContinuesIn
  <2>5. \A s \in Subjects : model.anchors[s] # 0 =>
          /\ model.anchors[s] \in DOMAIN new
          /\ new[model.anchors[s]].body = AnchorBody(a, new[model.anchors[s]].body.import)
    BY <2>1, ContinuesIn
  <2> QED
    BY <2>1, <2>2, <2>3, <2>4, <2>5 DEF ModelHolds
<1>2. "ok" \in DOMAIN model
  BY DEF ModelHolds
<1> QED
  BY <1>1, <1>2, Zenon DEF ModelHolds

(* A model advanced from an earlier one holds what the later log says. *)
LEMMA AdvancedHolds ==
  ASSUME NEW a, NEW capture, LogHolds(capture.events), NEW old, Continues(old, capture.events),
         NEW model, ModelHolds(a, old, model)
  PROVE  ModelHolds(a, capture.events, advance_model(a, capture, model, Len(old)))
<1> DEFINE from == Len(old)
           held == Recounted(model, capture)
           places == from + 1 .. Len(capture.events)
           admitted == Admitted(a, capture, held, places)
           pending == Pending(capture.events, places)
           inserted == insert_committed(admitted, capture.events, pending)
           imported == {s \in Subjects : admitted.anchors[s] > from}
           touched == imported \cup
                        {EntrySubject(MemberOf(capture.events[i].body).entry) : i \in pending}
           prefix == [s \in Subjects |->
                        IF s \in imported THEN 0 ELSE Len(model.histories[s].records)]
           settled == Settles(inserted, touched, prefix)
<1>1. ModelHolds(a, capture.events, held)
  <2>1. ModelHolds(a, capture.events, model)
    BY ModelStays
  <2>2. /\ DOMAIN held = DOMAIN model
        /\ \A f \in DOMAIN model : f # "held" => held[f] = model[f]
    BY DEF Recounted
  <2> HIDE DEF held
  <2>3. CASE ~model.ok
    <3>1. "ok" \in DOMAIN model
      BY <2>1 DEF ModelHolds
    <3>2. held.ok = model.ok /\ "ok" \in DOMAIN held
      BY <2>2, <3>1
    <3> QED
      BY <2>3, <3>2, Zenon DEF ModelHolds
  <2>4. CASE model.ok
    <3>1. DOMAIN model = ModelFields
      BY <2>1, <2>4, ModelDomain DEF ModelHolds
    <3>2. /\ DOMAIN held = ModelFields /\ held.binding = model.binding
          /\ held.anchors = model.anchors /\ held.batches = model.batches
          /\ held.records = model.records
      BY <2>2, <3>1 DEF ModelFields
    <3> QED
      BY <2>1, <2>4, <3>1, <3>2, ModelDomain DEF ModelHolds
  <2> QED
    BY <2>3, <2>4
<1> HIDE DEF held
<1>2. places \subseteq DOMAIN capture.events
  BY SequenceFacts DEF Continues, LogHolds
<1> HIDE DEF places
<1>3. /\ ModelHolds(a, capture.events, admitted)
      /\ admitted.ok => \A i \in places : capture.events[i].body.authority = a
  BY <1>1, <1>2, AdmittedHolds
<1> HIDE DEF admitted
<1>4. ModelHolds(a, capture.events, inserted)
  BY <1>2, <1>3, InsertedHolds
<1> HIDE DEF inserted
<1>5. ModelHolds(a, capture.events, settled)
  BY <1>4, SettledHolds
<1> HIDE DEF settled
<1>6. ModelHolds(a, capture.events, Validated(a, capture, settled))
  BY <1>5, ValidatedHolds
<1>7. advance_model(a, capture, model, from) \in {Corrupt, Validated(a, capture, settled)}
  BY DEF advance_model, held, places, admitted, pending, inserted, imported,
    touched, prefix,
         settled
<1> QED
  BY <1>6, <1>7, CorruptHolds

-----------------------------------------------------------------------------
(* Handles. *)

(* An earlier log holds what the later one does. *)
LEMMA EarlierHolds ==
  ASSUME NEW old, NEW new, Continues(old, new), LogHolds(new)
  PROVE  LogHolds(old)
<1>1. Sequence(old) /\ \A i \in DOMAIN old : i \in DOMAIN new /\ new[i] = old[i]
  BY ContinuesIn DEF Continues
<1> QED
  BY <1>1 DEF LogHolds

(* The fields of a handle. *)
HandleFields == {"open", "verified", "own", "held"}

(* A closed handle has the fields of every handle. *)
LEMMA HandleDomain == DOMAIN ClosedHandle = HandleFields
  BY DEF ClosedHandle, HandleFields

(* A closed handle claims nothing. *)
LEMMA ClosedHolds ==
  ASSUME NEW a, NEW events
  PROVE  HandleHolds(events, a, ClosedHandle)
<1>1. ClosedHandle.verified = None
  BY DEF ClosedHandle
<1> QED
  BY <1>1 DEF HandleHolds

(* A handle that installs a model of an earlier log holds what it said. *)
LEMMA InstalledHolds ==
  ASSUME NEW a, NEW events, NEW handle, DOMAIN handle = HandleFields, NEW capture,
         Continues(capture.events, events), NEW model, ModelHolds(a, capture.events, model)
  PROVE  HandleHolds(events, a, install(handle, capture, model))
<1> DEFINE after == install(handle, capture, model)
<1>1. DOMAIN after = HandleFields /\ after.verified = [capture |-> capture, model |-> model]
  BY DEF install, HandleFields
<1> HIDE DEF after
<1>2. after.verified.capture = capture /\ after.verified.model = model
  BY <1>1
<1>3. HandleHolds(events, a, after)
  BY <1>1, <1>2, HandleDomain DEF HandleHolds
<1> QED
  BY <1>3 DEF after

(* What a handle counts is no matter to what it has verified. *)
LEMMA HandleSame ==
  ASSUME NEW a, NEW events, NEW handle, HandleHolds(events, a, handle), NEW after,
         DOMAIN after = HandleFields, after.verified = handle.verified
  PROVE  HandleHolds(events, a, after)
  BY HandleDomain DEF HandleHolds

(* What a handle has verified, every longer log continues. *)
LEMMA HandleStays ==
  ASSUME NEW a, NEW old, NEW new, Continues(old, new), NEW handle, HandleHolds(old, a, handle)
  PROVE  HandleHolds(new, a, handle)
  BY ContinuesOn DEF HandleHolds

(* A verified log that the capture begins with. *)
LEMMA PrefixContinues ==
  ASSUME NEW before, Sequence(before), NEW after, Sequence(after),
         Len(after) >= Len(before), SubSeq(after, 1, Len(before)) = before
  PROVE  Continues(before, after)
<1>1. /\ Len(before) \in Nat /\ DOMAIN before = 1 .. Len(before)
      /\ Len(after) \in Nat /\ DOMAIN after = 1 .. Len(after)
  BY SequenceFacts
<1> DEFINE S == {after[i] : i \in DOMAIN after}
           n == Len(before)
           part == SubSeq(after, 1, n)
<1>2. n \in Int /\ 1 \in Int /\ \A i \in 1 .. n : after[i] \in S
  BY <1>1
<1> HIDE DEF S, n
<1>3. \A i \in 1 .. n - 1 + 1 : part[i] = after[1 + i - 1]
  BY <1>2, SubSeqProperties
<1> HIDE DEF part
<1>4. \A i \in 1 .. n : part[i] = after[i]
  BY <1>2, <1>3
<1>5. part = before
  BY DEF part, n
<1> QED
  BY <1>1, <1>4, <1>5 DEF Continues, n

(* The model a handle serves, and what it holds after it. *)
LEMMA ServedHolds ==
  ASSUME NEW a, NEW events, LogHolds(events), NEW handle, HandleHolds(events, a, handle),
         NEW capture, Continues(capture.events, events)
  PROVE  LET served == model_of(a, handle, capture) IN
         /\ HandleHolds(events, a, served.handle)
         /\ ModelHolds(a, capture.events, served.model)
<1> DEFINE from == Len(handle.verified.capture.events)
           continues == appended_by_this_handle(handle, capture)
           advance == advance_model(a, capture, handle.verified.model, from)
           advanced == IF continues THEN advance ELSE Corrupt
           built == build_model(a, capture)
           fresh == SubSeq(capture.events, from + 1, Len(capture.events))
           served == model_of(a, handle, capture)
<1>1. LogHolds(capture.events) /\ DOMAIN handle = HandleFields
  BY EarlierHolds, HandleDomain DEF HandleHolds
<1>2. ModelHolds(a, capture.events, built)
  BY <1>1, BuiltHolds
<1>3. ModelHolds(a, capture.events, advanced)
  <2>1. CASE continues
    <3>1. /\ handle.verified # None
          /\ Len(capture.events) >= from
          /\ SubSeq(capture.events, 1, from) = handle.verified.capture.events
      BY <2>1 DEF appended_by_this_handle, IsPrefixOf
    <3>2. /\ Sequence(handle.verified.capture.events) /\ Sequence(capture.events)
          /\ ModelHolds(a, handle.verified.capture.events, handle.verified.model)
      BY <3>1 DEF HandleHolds, Continues
    <3>3. Continues(handle.verified.capture.events, capture.events)
      BY <3>1, <3>2, PrefixContinues
    <3>4. ModelHolds(a, capture.events, advance)
      BY <1>1, <3>2, <3>3, AdvancedHolds
    <3> QED
      BY <2>1, <3>4
  <2>2. CASE ~continues
    BY <2>2, CorruptHolds
  <2> QED
    BY <2>1, <2>2
<1> HIDE DEF advance, built, continues
<1>4. CASE handle.verified # None /\ handle.verified.capture = capture
  <2>1. served = [handle |-> handle, model |-> handle.verified.model]
    BY <1>4 DEF model_of
  <2>2. ModelHolds(a, capture.events, handle.verified.model)
    BY <1>4 DEF HandleHolds
  <2> QED
    BY <2>1, <2>2
<1>5. CASE ~(handle.verified # None /\ handle.verified.capture = capture) /\ advanced.ok
  <2> DEFINE installed == install(handle, capture, advanced)
             after == Forgets(installed, fresh)
  <2>1. served = [handle |-> after, model |-> advanced]
    BY <1>5 DEF model_of, advance, continues, built
  <2> HIDE DEF advanced, fresh
  <2>2. HandleHolds(events, a, installed)
    BY <1>1, <1>3, InstalledHolds
  <2>3. DOMAIN installed = HandleFields
    BY <2>2, HandleDomain DEF HandleHolds
  <2> HIDE DEF installed
  <2>4. DOMAIN after = HandleFields /\ after.verified = installed.verified
    BY <2>3 DEF Forgets, HandleFields
  <2> HIDE DEF after
  <2>5. HandleHolds(events, a, after)
    BY <2>2, <2>4, HandleSame
  <2> QED
    BY <1>3, <2>1, <2>5
<1>6. CASE ~(handle.verified # None /\ handle.verified.capture = capture) /\ ~advanced.ok /\ built.ok
  <2>1. served = [handle |-> install(handle, capture, built), model |-> built]
    BY <1>6 DEF model_of, advance, continues, built
  <2>2. HandleHolds(events, a, install(handle, capture, built))
    BY <1>1, <1>2, InstalledHolds
  <2> QED
    BY <1>2, <2>1, <2>2
<1>7. CASE ~(handle.verified # None /\ handle.verified.capture = capture) /\ ~advanced.ok /\ ~built.ok
  <2> DEFINE after == [handle EXCEPT !.verified = None]
  <2>1. served = [handle |-> after, model |-> Corrupt]
    BY <1>7 DEF model_of, advance, continues, built
  <2>2. DOMAIN after = HandleFields /\ after.verified = None
    BY <1>1 DEF HandleFields
  <2> HIDE DEF after
  <2>3. HandleHolds(events, a, after)
    BY <2>2, HandleDomain DEF HandleHolds
  <2> QED
    BY <2>1, <2>3, CorruptHolds
<1> QED
  BY <1>4, <1>5, <1>6, <1>7

-----------------------------------------------------------------------------
(* Writes. *)

(* The events a group adds. *)
NewEvents(group, request_id, id) ==
  [i \in DOMAIN group.appends |->
     NewEvent(id + i, group.command, group.hash, request_id, group.appends[i].body)]

(* What a guard may say. *)
Verdicts == {"ok", "provider_integrity", "record_conflict", "previously_recorded",
             "revision_conflict", "corrupt_history"}

(* A write that publishes, and one that does not. *)
Published(tenant, group, request_id, id, w) ==
  /\ w.answer = "ok"
  /\ RecordedUnder(tenant, group.command) = {}
  /\ VersionsAgree(tenant, group.appends)
  /\ w.log.events = tenant.events \o NewEvents(group, request_id, id)
  /\ DOMAIN w.log = DOMAIN EmptyLog

Quiet(tenant, group, w) ==
  /\ w.answer # "ok" /\ w.answer # "unknown"
  /\ w.log = tenant
  /\ w.answer = "deduplicated" =>
       \E i \in DOMAIN tenant.events :
         tenant.events[i].command = group.command /\ tenant.events[i].hash = group.hash
  /\ w.answer = "conflict" => ~VersionsAgree(tenant, group.appends)

(* A recorded command answers and changes nothing. *)
LEMMA AnsweredQuiet ==
  ASSUME NEW tenant, NEW group, RecordedUnder(tenant, group.command) # {}
  PROVE  Quiet(tenant, group, Answered(tenant, group))
<1> DEFINE mine == RecordedUnder(tenant, group.command)
           w == Answered(tenant, group)
<1>1. CASE \E i \in mine : tenant.events[i].hash # group.hash
  <2>1. w = Settled(tenant, "idempotency_mismatch", << >>)
    BY <1>1, Zenon DEF Answered
  <2>2. w.answer = "idempotency_mismatch" /\ w.log = tenant
    BY <2>1 DEF Settled
  <2> QED
    BY <2>2 DEF Quiet
<1>2. CASE ~ \E i \in mine : tenant.events[i].hash # group.hash
  <2>1. w.answer = "deduplicated" /\ w.log = tenant
    BY <1>2 DEF Answered, Settled
  <2>2. PICK i \in mine : tenant.events[i].hash = group.hash
    BY <1>2
  <2>3. i \in DOMAIN tenant.events /\ tenant.events[i].command = group.command
    BY <2>2 DEF RecordedUnder
  <2> HIDE DEF w
  <2>4. Quiet(tenant, group, w)
    BY <2>1, <2>2, <2>3 DEF Quiet
  <2> QED
    BY <2>4 DEF w
<1> QED
  BY <1>1, <1>2

(* A refusing guard changes nothing. *)
LEMMA RefusedQuiet ==
  ASSUME NEW tenant, NEW group, NEW guard \in Verdicts, guard # "ok"
  PROVE  Quiet(tenant, group, Settled(tenant, guard, << >>))
<1> DEFINE w == Settled(tenant, guard, << >>)
<1>1. w.answer = guard /\ w.log = tenant
  BY DEF Settled
<1> HIDE DEF w
<1>2. Quiet(tenant, group, w)
  BY <1>1 DEF Quiet, Verdicts
<1> QED
  BY <1>2 DEF w

(* A group nobody recorded is published whole, or not at all. *)
LEMMA PublishCases ==
  ASSUME NEW tenant, NEW group, RecordedUnder(tenant, group.command) = {},
         NEW blobs, NEW request_id, NEW id
  PROVE  LET w == Publishes(tenant, group, blobs, request_id, id) IN
         Published(tenant, group, request_id, id, w) \/ Quiet(tenant, group, w)
<1> DEFINE w == Publishes(tenant, group, blobs, request_id, id)
           events == tenant.events \o NewEvents(group, request_id, id)
           rows == Projected(tenant.rows, tenant.blobs \cup blobs, events, Len(tenant.events))
<1>1. CASE ~VersionsAgree(tenant, group.appends)
  <2>1. w.answer = "conflict" /\ w.log = tenant
    BY <1>1 DEF Publishes, Settled
  <2> HIDE DEF w
  <2>2. Quiet(tenant, group, w)
    BY <1>1, <2>1 DEF Quiet
  <2> QED
    BY <2>2 DEF w
<1>2. CASE VersionsAgree(tenant, group.appends) /\ ~rows.ok
  <2>1. w.answer = "integrity" /\ w.log = tenant
    BY <1>2 DEF Publishes, Settled, NewEvents
  <2> HIDE DEF w
  <2>2. Quiet(tenant, group, w)
    BY <2>1 DEF Quiet
  <2> QED
    BY <2>2 DEF w
<1>3. CASE VersionsAgree(tenant, group.appends) /\ rows.ok
  <2>1. w.answer = "ok" /\ w.log.events = events /\ DOMAIN w.log = DOMAIN EmptyLog
    BY <1>3 DEF Publishes, Settled, NewEvents, EmptyLog
  <2> HIDE DEF w
  <2>2. Published(tenant, group, request_id, id, w)
    BY <1>3, <2>1 DEF Published
  <2> QED
    BY <2>2 DEF w
<1> QED
  BY <1>1, <1>2, <1>3

(* A group is published, or nothing is. *)
LEMMA GuardedCases ==
  ASSUME NEW tenant, NEW group, NEW guard \in Verdicts, NEW request_id, NEW id
  PROVE  LET w == append_group_guarded(tenant, group, guard, request_id, id) IN
         Published(tenant, group, request_id, id, w) \/ Quiet(tenant, group, w)
<1>1. CASE RecordedUnder(tenant, group.command) # {}
  BY <1>1, AnsweredQuiet, Zenon DEF append_group_guarded
<1>2. CASE RecordedUnder(tenant, group.command) = {} /\ guard # "ok"
  BY <1>2, RefusedQuiet, Zenon DEF append_group_guarded
<1>3. CASE RecordedUnder(tenant, group.command) = {} /\ guard = "ok"
  BY <1>3, PublishCases, Zenon DEF append_group_guarded
<1> QED
  BY <1>1, <1>2, <1>3

(* So is one sent with its blobs, admission coming first. *)
LEMMA WithBlobsCases ==
  ASSUME NEW tenant, NEW group, NEW guard \in Verdicts, NEW blobs, NEW request_id, NEW id
  PROVE  LET w == append_group_guarded_with_blobs(tenant, group, guard, blobs, request_id, id) IN
         Published(tenant, group, request_id, id, w) \/ Quiet(tenant, group, w)
<1>1. CASE guard # "ok"
  BY <1>1, RefusedQuiet, Zenon DEF append_group_guarded_with_blobs
<1>2. CASE guard = "ok" /\ RecordedUnder(tenant, group.command) # {}
  BY <1>2, AnsweredQuiet, Zenon DEF append_group_guarded_with_blobs
<1>3. CASE guard = "ok" /\ RecordedUnder(tenant, group.command) = {}
  BY <1>3, PublishCases, Zenon DEF append_group_guarded_with_blobs
<1> QED
  BY <1>1, <1>2, <1>3

(* Every guard says one of these. *)
LEMMA GuardSays ==
  ASSUME NEW rows, NEW k, k.op.kind \in Writes
  PROVE  GuardOf(rows, k) \in Verdicts
<1>1. CASE k.op.kind = "append"
  <2> DEFINE a == Authority(k.op)
             key == k.op.key
             members == k.op.members
             state == [s \in Subjects |-> StateOfRow(rows.subjects[s])]
             Valid(i) == validate_entry(members[i], StateBefore(state, members, i))
             bad == {i \in DOMAIN members : Valid(i) # "ok"}
  <2>1. \A i : Valid(i) \in {"ok", "revision_conflict", "corrupt_history"}
    BY DEF validate_entry
  <2> HIDE DEF Valid
  <2>2. AppendGuard(rows, a, key, members) \in
          {"provider_integrity", "ok", "record_conflict", "previously_recorded", Valid(Min(bad))}
    BY DEF AppendGuard, Valid
  <2>3. AppendGuard(rows, a, key, members) \in Verdicts
    BY <2>1, <2>2 DEF Verdicts
  <2> QED
    BY <1>1, <2>3 DEF GuardOf
<1>2. CASE k.op.kind \in {"import", "imports"}
  BY <1>2 DEF GuardOf, ImportGuard, Verdicts
<1>3. CASE k.op.kind = "provision"
  BY <1>3 DEF GuardOf, BindingGuard, Verdicts
<1>4. CASE k.op.kind = "refuse"
  BY <1>4 DEF GuardOf, Verdicts
<1> QED
  BY <1>1, <1>2, <1>3, <1>4 DEF Writes

-----------------------------------------------------------------------------
(* What a group publishes. *)

(* A group whose events are such as the log holds; a binding comes alone   *)
(* and first.                                                              *)
WellFormed(group) ==
  /\ Sequence(group.appends)
  /\ \A i \in DOMAIN group.appends :
       /\ EventHolds(NewEvent(0, group.command, group.hash, 0, group.appends[i].body))
       /\ group.appends[i].body.name = "er.binding" =>
            DOMAIN group.appends = {1} /\ group.appends[1].expected = 0

(* The fields of an event the log mints. *)
LEMMA EventFields ==
  ASSUME NEW id, NEW command, NEW hash, NEW request_id, NEW body
  PROVE  LET e == NewEvent(id, command, hash, request_id, body) IN
         e.command = command /\ e.hash = hash /\ e.request_id = request_id /\ e.body = body
  BY DEF NewEvent

(* The events a write left that it did not find. *)
LEMMA PublishedFacts ==
  ASSUME NEW tenant, Sequence(tenant.events), NEW group, Sequence(group.appends),
         NEW request_id, NEW id, NEW w, Published(tenant, group, request_id, id, w)
  PROVE  /\ Continues(tenant.events, w.log.events)
         /\ \A i \in DOMAIN w.log.events : i \notin DOMAIN tenant.events =>
              \E n \in DOMAIN group.appends :
                /\ n = i - Len(tenant.events)
                /\ w.log.events[i].body = group.appends[n].body
                /\ w.log.events[i].command = group.command
                /\ w.log.events[i].hash = group.hash
                /\ w.log.events[i].request_id = request_id
         /\ \A n \in DOMAIN group.appends : \E i \in DOMAIN w.log.events :
              /\ w.log.events[i].body = group.appends[n].body
              /\ w.log.events[i].command = group.command
              /\ w.log.events[i].hash = group.hash
<1> DEFINE old == tenant.events
           more == NewEvents(group, request_id, id)
           new == w.log.events
<1>1. new = old \o more
  BY DEF Published
<1>2. /\ DOMAIN more = DOMAIN group.appends /\ more = [i \in DOMAIN more |-> more[i]]
      /\ \A n \in DOMAIN more : /\ more[n].body = group.appends[n].body
                                /\ more[n].command = group.command
                                /\ more[n].hash = group.hash
                                /\ more[n].request_id = request_id
  BY DEF NewEvents, NewEvent
<1> HIDE DEF more
<1>3. Len(group.appends) \in Nat /\ DOMAIN group.appends = 1 .. Len(group.appends)
  BY SequenceFacts
<1>4. Sequence(more)
  BY <1>2, <1>3, SequenceOf
<1>5. /\ Sequence(new) /\ Len(new) = Len(old) + Len(more)
      /\ \A i \in DOMAIN old : new[i] = old[i]
      /\ \A i \in DOMAIN more : new[Len(old) + i] = more[i]
      /\ \A i \in DOMAIN new : i \in DOMAIN old \/ i - Len(old) \in DOMAIN more
  <2>1. Sequence(old)
    OBVIOUS
  <2> HIDE DEF old, new
  <2> QED
    BY ONLY <1>1, <1>4, <2>1, Joined
<1> HIDE DEF new
<1>6. /\ Len(old) \in Nat /\ DOMAIN old = 1 .. Len(old)
      /\ Len(more) \in Nat /\ DOMAIN more = 1 .. Len(more)
      /\ Len(new) \in Nat /\ DOMAIN new = 1 .. Len(new)
  BY <1>4, <1>5, SequenceFacts
<1>7. Continues(old, new)
  BY <1>5, <1>6 DEF Continues
<1>8. ASSUME NEW i \in DOMAIN new, i \notin DOMAIN old
      PROVE  \E n \in DOMAIN group.appends :
               /\ n = i - Len(old)
               /\ new[i].body = group.appends[n].body /\ new[i].command = group.command
               /\ new[i].hash = group.hash /\ new[i].request_id = request_id
  <2>1. i - Len(old) \in DOMAIN more
    BY <1>5, <1>8
  <2>2. new[Len(old) + (i - Len(old))] = more[i - Len(old)] /\ Len(old) + (i - Len(old)) = i
    BY <1>5, <1>6, <2>1
  <2> QED
    BY <1>2, <2>1, <2>2
<1>9. ASSUME NEW n \in DOMAIN group.appends
      PROVE  \E i \in DOMAIN new :
               /\ new[i].body = group.appends[n].body /\ new[i].command = group.command
               /\ new[i].hash = group.hash
  <2>1. Len(old) + n \in DOMAIN new /\ new[Len(old) + n] = more[n]
    BY <1>2, <1>5, <1>6
  <2> QED
    BY <1>2, <2>1
<1> QED
  BY <1>7, <1>8, <1>9 DEF new

(* No binding is left in a log whose binding stream is empty. *)
LEMMA NoBinding ==
  ASSUME NEW tenant, Sequence(tenant.events), NEW appends, Sequence(appends),
         VersionsAgree(tenant, appends), NEW n \in DOMAIN appends, n = 1, appends[n].expected = 0
  PROVE  OfStream(tenant.events, StreamOf(appends[n].body)) = {}
<1> DEFINE T == OfStream(tenant.events, StreamOf(appends[n].body))
           E == {j \in 1 .. n - 1 : StreamOf(appends[j].body) = StreamOf(appends[n].body)}
<1>1. E = {}
  <2>1. 1 .. n - 1 = {}
    BY SMT
  <2> QED
    BY <2>1
<1>2. Cardinality(E) = 0
  BY <1>1, FS_EmptySet
<1>3. 0 = Cardinality(T) + Cardinality(E)
  BY DEF VersionsAgree
<1>4. T \subseteq 1 .. Len(tenant.events) /\ Len(tenant.events) \in Nat
  BY SequenceFacts DEF OfStream
<1> HIDE DEF T, E
<1>5. IsFiniteSet(T) /\ Cardinality(T) \in Nat
  BY <1>4, BeforeFacts
<1>6. Cardinality(T) = 0
  BY <1>2, <1>3, <1>5
<1>7. T = {}
  BY <1>5, <1>6, FS_EmptySet
<1> QED
  BY <1>7 DEF T

(* The log a write leaves is such a log, and continues the one it found. *)
LEMMA PublishedHolds ==
  ASSUME NEW tenant, LogHolds(tenant.events), NEW group, WellFormed(group),
         NEW request_id, NEW id, NEW w, Published(tenant, group, request_id, id, w)
  PROVE  LogHolds(w.log.events)
<1> DEFINE old == tenant.events
           new == w.log.events
<1>1. Sequence(old) /\ Sequence(group.appends)
  BY DEF LogHolds, WellFormed
<1>2. /\ Continues(old, new)
      /\ \A i \in DOMAIN new : i \notin DOMAIN old =>
           \E n \in DOMAIN group.appends :
             /\ n = i - Len(old)
             /\ new[i].body = group.appends[n].body /\ new[i].command = group.command
             /\ new[i].hash = group.hash
  BY <1>1, PublishedFacts
<1>3. \A i \in DOMAIN old : i \in DOMAIN new /\ new[i] = old[i]
  BY <1>2, ContinuesIn
<1>4. Sequence(new) /\ Len(old) \in Nat /\ \A i \in DOMAIN new : i \in Nat
  BY <1>1, <1>2, SequenceFacts DEF Continues
<1>5. RecordedUnder(tenant, group.command) = {} /\ VersionsAgree(tenant, group.appends)
  BY DEF Published
<1> HIDE DEF new
<1>6. ASSUME NEW i \in DOMAIN new PROVE EventHolds(new[i])
  <2>1. CASE i \in DOMAIN old
    BY <1>3, <2>1 DEF LogHolds
  <2>2. CASE i \notin DOMAIN old
    <3>1. PICK n \in DOMAIN group.appends :
            /\ new[i].body = group.appends[n].body /\ new[i].command = group.command
            /\ new[i].hash = group.hash
      BY <1>2, <2>2
    <3> DEFINE e == NewEvent(0, group.command, group.hash, 0, group.appends[n].body)
    <3>2. EventHolds(e)
      BY DEF WellFormed
    <3>3. e.body = new[i].body /\ e.command = new[i].command /\ e.hash = new[i].hash
      BY <3>1, EventFields
    <3> HIDE DEF e
    <3> QED
      BY <3>2, <3>3 DEF EventHolds
  <2> QED
    BY <2>1, <2>2
<1>7. \A i \in DOMAIN new : i \notin DOMAIN old =>
        new[i].command = group.command /\ new[i].hash = group.hash
  BY <1>2
<1>8. \A i \in DOMAIN old : old[i].command # group.command
  BY <1>5 DEF RecordedUnder
<1>9. ASSUME NEW i \in DOMAIN new, NEW j \in DOMAIN new, new[i].command = new[j].command
      PROVE  new[i].hash = new[j].hash
  BY <1>3, <1>7, <1>8, <1>9 DEF LogHolds
<1>10. ASSUME NEW i \in DOMAIN new, i \notin DOMAIN old, new[i].body.name = "er.binding"
       PROVE  /\ i = Len(old) + 1
              /\ \A j \in DOMAIN old : old[j].body.name # "er.binding"
  <2>1. PICK n \in DOMAIN group.appends :
          n = i - Len(old) /\ new[i].body = group.appends[n].body
    BY <1>2, <1>10
  <2>2. DOMAIN group.appends = {1} /\ group.appends[1].expected = 0
    BY <1>10, <2>1 DEF WellFormed
  <2>3. n = 1 /\ i = Len(old) + 1
    BY <1>4, <2>1, <2>2
  <2>4. OfStream(old, StreamOf(group.appends[n].body)) = {}
    BY <1>1, <1>5, <2>2, <2>3, NoBinding
  <2>5. \A body : body.name = "er.binding" => StreamOf(body) = <<"er.binding">>
    BY DEF StreamOf
  <2>6. StreamOf(group.appends[n].body) = <<"er.binding">>
    BY <1>10, <2>1, <2>5
  <2>7. ASSUME NEW j \in DOMAIN old, old[j].body.name = "er.binding" PROVE FALSE
    <3>1. StreamOf(old[j].body) = <<"er.binding">>
      BY <2>5, <2>7
    <3> QED
      BY <2>4, <2>6, <2>7, <3>1 DEF OfStream
  <2> QED
    BY <2>3, <2>7
<1>11. ASSUME NEW i \in DOMAIN new, NEW j \in DOMAIN new,
              new[i].body.name = "er.binding", new[j].body.name = "er.binding"
       PROVE  i = j
  <2>1. CASE i \in DOMAIN old /\ j \in DOMAIN old
    BY <1>3, <1>11, <2>1 DEF LogHolds
  <2>2. CASE i \notin DOMAIN old /\ j \notin DOMAIN old
    BY <1>10, <1>11, <2>2
  <2>3. CASE i \in DOMAIN old /\ j \notin DOMAIN old
    BY <1>3, <1>10, <1>11, <2>3
  <2>4. CASE i \notin DOMAIN old /\ j \in DOMAIN old
    BY <1>3, <1>10, <1>11, <2>4
  <2> QED
    BY <2>1, <2>2, <2>3, <2>4
<1>12. LogHolds(new)
  BY <1>4, <1>6, <1>9, <1>11 DEF LogHolds
<1> QED
  BY <1>12 DEF new

-----------------------------------------------------------------------------
(* The groups of the operations. *)

(* The group of an append appends events that hold, and no binding. *)
LEMMA AppendWellFormed ==
  ASSUME NEW a, NEW key, NEW members, NEW group, AppendGroupHolds(a, key, members, group)
  PROVE  WellFormed(group)
<1>1. ASSUME NEW i \in DOMAIN group.appends
      PROVE  /\ EventHolds(NewEvent(0, group.command, group.hash, 0, group.appends[i].body))
             /\ group.appends[i].body.name # "er.binding"
  <2> DEFINE body == group.appends[i].body
             e == NewEvent(0, group.command, group.hash, 0, body)
  <2>1. /\ group.command = <<"batch", a, key>> /\ group.hash = <<BatchBlob(key, members)>>
        /\ body = EntryBody(a, key, members, i)
    BY DEF AppendGroupHolds
  <2>2. /\ body.name = "er.recorded_entry" /\ body.authority = a /\ body.key = key
        /\ body.members = members
    BY <2>1 DEF EntryBody
  <2>3. e.command = group.command /\ e.hash = group.hash /\ e.body = body
    BY EventFields
  <2> HIDE DEF e, body
  <2>4. e.command[1] # "refusal"
    BY <2>1, <2>3
  <2>5. EventHolds(e)
    BY <2>1, <2>2, <2>3, <2>4 DEF EventHolds, Names
  <2> QED
    BY <2>2, <2>5 DEF e, body
<1> QED
  BY <1>1 DEF WellFormed, AppendGroupHolds

(* The group of an import appends events that hold. *)
LEMMA ImportWellFormed ==
  ASSUME NEW a, NEW kind \in {"import", "imports"}, NEW imports \in Seq(Import)
  PROVE  WellFormed(import_group(a, kind, imports))
<1> DEFINE group == import_group(a, kind, imports)
<1>1. /\ group.command[1] = kind
      /\ group.appends = [i \in DOMAIN imports |-> Append1(AnchorBody(a, imports[i]), 0)]
  BY DEF import_group, Group
<1>2. Len(imports) \in Nat /\ DOMAIN imports = 1 .. Len(imports)
  BY SequenceTyped, SequenceFacts
<1> HIDE DEF group
<1>3. Sequence(group.appends)
  <2>1. /\ DOMAIN group.appends = 1 .. Len(imports)
        /\ group.appends = [i \in DOMAIN group.appends |-> group.appends[i]]
    BY <1>1, <1>2
  <2> QED
    BY <1>2, <2>1, SequenceOf
<1>4. ASSUME NEW i \in DOMAIN group.appends
      PROVE  /\ EventHolds(NewEvent(0, group.command, group.hash, 0, group.appends[i].body))
             /\ group.appends[i].body.name # "er.binding"
  <2> DEFINE body == group.appends[i].body
             e == NewEvent(0, group.command, group.hash, 0, body)
  <2>1. body = AnchorBody(a, imports[i])
    BY <1>1 DEF Append1
  <2>2. /\ body.name = "er.import_anchor" /\ body = AnchorBody(body.authority, body.import)
    BY <2>1 DEF AnchorBody
  <2>3. e.command = group.command /\ e.hash = group.hash /\ e.body = body
    BY EventFields
  <2> HIDE DEF e, body
  <2>4. e.command[1] # "refusal"
    BY <1>1, <2>3
  <2>5. EventHolds(e)
    BY <2>2, <2>3, <2>4 DEF EventHolds, Names
  <2> QED
    BY <2>2, <2>5 DEF e, body
<1>5. WellFormed(group)
  BY <1>3, <1>4 DEF WellFormed
<1> QED
  BY <1>5 DEF group

(* A sequence of one. *)
LEMMA OneAppend ==
  ASSUME NEW x
  PROVE  Sequence(<<x>>) /\ DOMAIN <<x>> = {1} /\ <<x>>[1] = x
<1>1. <<x>> \in Seq({x})
  OBVIOUS
<1>2. Sequence(<<x>>)
  BY <1>1, SequenceTyped, Zenon
<1> QED
  BY <1>2

(* The group of a binding appends it alone, to a stream that has none. *)
LEMMA BindingWellFormed ==
  ASSUME NEW a
  PROVE  WellFormed(binding_group(a))
<1> DEFINE group == binding_group(a)
           e == NewEvent(0, group.command, group.hash, 0, BindingBody(a))
<1>1. group.command = <<"binding">> /\ group.appends = <<Append1(BindingBody(a), 0)>>
  BY DEF binding_group, Group
<1>2. e.command = group.command /\ e.hash = group.hash /\ e.body = BindingBody(a)
  BY EventFields
<1>3. /\ BindingBody(a).name = "er.binding"
      /\ BindingBody(a) = BindingBody(BindingBody(a).authority)
  BY DEF BindingBody
<1> HIDE DEF e
<1>4. e.command[1] # "refusal"
  BY <1>1, <1>2
<1>5. EventHolds(e)
  BY <1>2, <1>3, <1>4 DEF EventHolds, Names
<1>6. /\ Sequence(group.appends) /\ DOMAIN group.appends = {1}
      /\ group.appends[1] = Append1(BindingBody(a), 0)
  BY <1>1, OneAppend
<1> HIDE DEF group
<1>7. \A i \in DOMAIN group.appends :
        group.appends[i].body = BindingBody(a) /\ group.appends[i].expected = 0
  BY <1>6 DEF Append1
<1>8. WellFormed(group)
  BY <1>5, <1>6, <1>7 DEF WellFormed, e
<1> QED
  BY <1>8 DEF group

(* The group of a refusal appends an event that holds. *)
LEMMA RefusalWellFormed ==
  ASSUME NEW a, NEW refusal
  PROVE  WellFormed(refusal_group(a, refusal))
<1> DEFINE group == refusal_group(a, refusal)
           body == RefusalBody(a, refusal)
           e == NewEvent(0, group.command, group.hash, 0, body)
<1>1. /\ group.command = <<"refusal", a, refusal>>
      /\ group.appends = <<Append1(body, 0)>>
  BY DEF refusal_group, Group
<1>2. e.command = group.command /\ e.hash = group.hash /\ e.body = body
  BY EventFields
<1>3. /\ body.name = "er.refused_request"
      /\ body = RefusalBody(body.authority, body.refusal)
      /\ body.authority = a /\ body.refusal = refusal
  BY DEF RefusalBody
<1> HIDE DEF e
<1>4. e.body = RefusalBody(e.command[2], e.command[3])
  BY <1>1, <1>2
<1> HIDE DEF body
<1>5. EventHolds(e)
  BY <1>2, <1>3, <1>4 DEF EventHolds, Names
<1>6. Sequence(group.appends) /\ DOMAIN group.appends = {1} /\ group.appends[1] = Append1(body, 0)
  BY <1>1, OneAppend
<1> HIDE DEF group
<1>7. \A i \in DOMAIN group.appends : group.appends[i].body = body
  BY <1>6 DEF Append1
<1>8. WellFormed(group)
  BY <1>3, <1>5, <1>6, <1>7 DEF WellFormed, e
<1> QED
  BY <1>8 DEF group

(* Every group a call may write. *)
LEMMA GroupWellFormed ==
  ASSUME NEW op, op.kind \in Writes, NEW pending, NEW group, GroupHolds(op, pending, group)
  PROVE  WellFormed(group)
<1>1. CASE op.kind = "append"
  BY <1>1, AppendWellFormed DEF GroupHolds
<1>2. CASE op.kind \in {"import", "imports"}
  BY <1>2, ImportWellFormed DEF GroupHolds
<1>3. CASE op.kind = "provision"
  BY <1>3, BindingWellFormed DEF GroupHolds
<1>4. CASE op.kind = "refuse"
  BY <1>4, RefusalWellFormed DEF GroupHolds
<1> QED
  BY <1>1, <1>2, <1>3, <1>4 DEF Writes

-----------------------------------------------------------------------------
(* How a call goes on. *)

(* The fields of a call. *)
CallFields ==
  {"pc", "op", "id", "goal", "attempts", "read", "capture", "group", "pending", "result",
   "answer"}

(* Every call has the fields of an idle one, which has no answer. *)
LEMMA CallDomain ==
  /\ DOMAIN IdleCall = CallFields
  /\ IdleCall.pc = "idle" /\ IdleCall.id = 0 /\ IdleCall.answer = NoAnswer
  BY DEF IdleCall, CallFields

(* What no step of a call changes. *)
Mine(events, waiting, k) ==
  /\ DOMAIN k = CallFields
  /\ k.id \in Nat /\ k.id # 0
  /\ BindsOwn(events, k)
  /\ waiting # None /\ waiting.id = k.id => waiting.op = k.op

(* A call that went on, and not to a capture of its own. *)
Goes(events, waiting, k, n) ==
  /\ CallHolds(events, waiting, n)
  /\ n.id = k.id /\ n.op = k.op
  /\ n.pc # "resume"

(* A call that has its fields still, and its operation. *)
SameCall(k, n) == DOMAIN n = CallFields /\ n.op = k.op /\ n.id = k.id

(* What a call is told leaves its number and its operation. *)
LEMMA AnswersFields ==
  ASSUME NEW k, NEW answer
  PROVE  LET n == Answers(k, answer) IN
         SameCall(k, n) /\ n.pc = "idle" /\ n.answer = answer
  BY DEF Answers, IdleCall, SameCall, CallFields

(* A call told the truth has answered. *)
LEMMA AnswersHold ==
  ASSUME NEW events, NEW waiting, NEW k, Mine(events, waiting, k), NEW answer,
         AnswerHolds(events, waiting, k.op, k.id, answer)
  PROVE  Goes(events, waiting, k, Answers(k, answer))
<1> DEFINE n == Answers(k, answer)
<1>1. SameCall(k, n) /\ n.pc = "idle" /\ n.answer = answer
  BY AnswersFields
<1> HIDE DEF n
<1>2. ~Unpublished(n)
  BY <1>1 DEF Unpublished, WriteSteps, ReadSteps
<1>3. BindsOwn(events, n)
  BY <1>1 DEF Mine, BindsOwn, SameCall
<1>4. CallHolds(events, waiting, n)
  BY <1>1, <1>2, <1>3, CallDomain DEF CallHolds, Mine, SameCall
<1>5. Goes(events, waiting, k, n)
  BY <1>1, <1>4 DEF Goes, SameCall
<1> QED
  BY <1>5 DEF n

(* Answers that claim something. *)
Claims == {"committed", "imported", "bound", "recorded", "not_committed"}

(* The fields of an answer. *)
LEMMA AnswerFields ==
  /\ NoAnswer.status = "none" /\ Uncertain.status = "uncertain"
  /\ \A why : NotCommitted(why).status = "not_committed" /\ Failed(why).status = "failed"
  /\ \A status, receipt, replayed :
       LET answer == Settlement(status, receipt, replayed) IN
       answer.status = status /\ answer.receipt = receipt
  BY DEF NoAnswer, Uncertain, NotCommitted, Failed, Settlement

(* Every other answer is true. *)
LEMMA ModestHolds ==
  ASSUME NEW events, NEW waiting, NEW op, NEW id, NEW answer, answer.status \notin Claims
  PROVE  AnswerHolds(events, waiting, op, id, answer)
  BY DEF AnswerHolds, Claims

(* A call that published nothing, and has nothing under way, may be told so. *)
LEMMA NotCommittedHolds ==
  ASSUME NEW events, NEW waiting, NEW op, NEW id, NEW answer, answer.status = "not_committed",
         Unwritten(events, waiting, id)
  PROVE  AnswerHolds(events, waiting, op, id, answer)
  BY DEF AnswerHolds, Unwritten

(* A call told nothing of what it may have published. *)
LEMMA Modestly ==
  ASSUME NEW events, NEW waiting, NEW k, Mine(events, waiting, k), NEW answer,
         answer.status \notin Claims
  PROVE  Goes(events, waiting, k, Answers(k, answer))
  BY AnswersHold, ModestHolds

(* A call told that it published nothing. *)
LEMMA Refuses ==
  ASSUME NEW events, NEW waiting, NEW k, Mine(events, waiting, k), NEW answer,
         answer.status = "not_committed", Unwritten(events, waiting, k.id)
  PROVE  Goes(events, waiting, k, Answers(k, answer))
  BY AnswersHold, NotCommittedHolds

(* What a call must know to read again. *)
MayRead(events, waiting, k, goal) ==
  /\ OpHolds(k.op) /\ k.answer = NoAnswer
  /\ goal \in {"plan", "confirm", "unknown", "conflict", "mismatch"}
  /\ k.op.kind = "append" /\ goal = "confirm" =>
       RecordedFor(events, Authority(k.op), k.op.key, k.op.members)
  /\ k.op.kind \in {"import", "imports"} /\ goal # "plan" => PendingHolds(events, k.op, k.pending)
  /\ goal \in {"plan", "conflict", "mismatch"} => Unwritten(events, waiting, k.id)

(* A read that has seen nothing. *)
LEMMA NothingHolds ==
  ASSUME NEW events
  PROVE  ReadHolds(events, NothingRead)
  BY DEF ReadHolds, NothingRead

(* A call about to read goes on. *)
LEMMA ReadsHold ==
  ASSUME NEW events, NEW waiting, NEW k, Mine(events, waiting, k), NEW goal,
         MayRead(events, waiting, k, goal), NEW n, SameCall(k, n), n.goal = goal,
         n.answer = k.answer, n.pending = k.pending,
         n.pc \in {"capture", "keys"},
         n.pc = "keys" => k.op.kind = "append" /\ n.read = NothingRead
  PROVE  Goes(events, waiting, k, n)
<1>1. n.op = k.op /\ n.id = k.id /\ DOMAIN n = CallFields
  BY DEF SameCall
<1>2. BindsOwn(events, n)
  BY <1>1 DEF Mine, BindsOwn
<1>3. n.pc \in {"capture", "keys"}
  OBVIOUS
<1>4. Unpublished(n) => goal \in {"plan", "conflict", "mismatch"}
  BY <1>3 DEF Unpublished, WriteSteps, ReadSteps
<1>5. CallKnows(events, n)
  <2>1. ReadHolds(events, NothingRead)
    BY NothingHolds
  <2> QED
    BY <1>1, <1>3, <2>1 DEF CallKnows, MayRead, ReadSteps, WriteSteps
<1>6. CallHolds(events, waiting, n)
  BY <1>1, <1>2, <1>3, <1>4, <1>5, CallDomain DEF CallHolds, Mine, MayRead
<1> QED
  BY <1>1, <1>3, <1>6 DEF Goes

(* A complete capture is taken. *)
LEMMA CapturesHold ==
  ASSUME NEW events, NEW waiting, NEW k, Mine(events, waiting, k), NEW goal,
         MayRead(events, waiting, k, goal)
  PROVE  Goes(events, waiting, k, Captures(k, goal))
<1> DEFINE n == Captures(k, goal)
<1>1. /\ SameCall(k, n) /\ n.goal = goal /\ n.pc = "capture"
      /\ n.answer = k.answer /\ n.pending = k.pending
  BY DEF Captures, At, SameCall, Mine, CallFields
<1> HIDE DEF n
<1>2. Goes(events, waiting, k, n)
  BY <1>1, ReadsHold
<1> QED
  BY <1>2 DEF n

(* A scoped read starts. *)
LEMMA ScopesHold ==
  ASSUME NEW events, NEW waiting, NEW k, Mine(events, waiting, k), NEW goal,
         MayRead(events, waiting, k, goal), k.op.kind = "append"
  PROVE  Goes(events, waiting, k, Scopes(k, goal))
<1> DEFINE at == At(k, "keys", goal)
           n == Scopes(k, goal)
<1>1. /\ SameCall(k, at) /\ at.goal = goal /\ at.pc = "keys"
      /\ at.answer = k.answer /\ at.pending = k.pending
  BY DEF At, SameCall, Mine, CallFields
<1>2. n = [at EXCEPT !.read = NothingRead, !.attempts = 1]
  BY DEF Scopes
<1> HIDE DEF at, n
<1>3. /\ SameCall(k, n) /\ n.goal = goal /\ n.pc = "keys"
      /\ n.answer = k.answer /\ n.pending = k.pending /\ n.read = NothingRead
  BY <1>1, <1>2 DEF SameCall, CallFields
<1>4. Goes(events, waiting, k, n)
  BY <1>3, ReadsHold
<1> QED
  BY <1>4 DEF n

(* A group is sent, its blobs first where the provider wants them so. *)
LEMMA SendsHold ==
  ASSUME NEW events, NEW waiting, NEW k, Mine(events, waiting, k), OpHolds(k.op),
         k.op.kind \in Writes, k.answer = NoAnswer, NEW group, NEW pending,
         GroupHolds(k.op, pending, group), Unwritten(events, waiting, k.id),
         k.op.kind \in {"import", "imports"} => PendingHolds(events, k.op, pending)
  PROVE  Goes(events, waiting, k, Sends(k, group, pending))
<1> DEFINE step == IF setup.atomic_blobs THEN "write" ELSE "upload"
           at == At(k, step, "none")
           n == Sends(k, group, pending)
<1>1. step \in {"write", "upload"}
  OBVIOUS
<1> HIDE DEF step
<1>2. SameCall(k, at) /\ at.pc = step /\ at.answer = k.answer
  BY DEF At, SameCall, Mine, CallFields
<1>3. n = [at EXCEPT !.group = group, !.pending = pending]
  BY DEF Sends, step
<1> HIDE DEF at, n
<1>4. /\ SameCall(k, n) /\ n.pc = step /\ n.answer = NoAnswer
      /\ n.group = group /\ n.pending = pending
  BY <1>2, <1>3 DEF SameCall, CallFields
<1>5. BindsOwn(events, n)
  BY <1>4 DEF Mine, BindsOwn, SameCall
<1>6. CallKnows(events, n)
  BY <1>1, <1>4 DEF CallKnows, ReadSteps, WriteSteps, SameCall
<1>7. CallHolds(events, waiting, n)
  BY <1>1, <1>4, <1>5, <1>6, CallDomain DEF CallHolds, Mine, SameCall
<1>8. Goes(events, waiting, k, n)
  BY <1>1, <1>4, <1>7 DEF Goes, SameCall
<1> QED
  BY <1>8 DEF n

(* A call forgets a capture it has used, and what it read. *)
LEMMA Forgetful ==
  ASSUME NEW events, NEW waiting, NEW k, NEW n, Goes(events, waiting, k, n), NEW attempts
  PROVE  /\ Goes(events, waiting, k, [n EXCEPT !.capture = None])
         /\ Goes(events, waiting, k, [n EXCEPT !.attempts = attempts])
         /\ Goes(events, waiting, k, [n EXCEPT !.read = NothingRead, !.attempts = attempts])
<1>1. ASSUME NEW m, SameCall(n, m), m.pc = n.pc, m.goal = n.goal, m.group = n.group,
             m.pending = n.pending, m.result = n.result, m.answer = n.answer,
             m.read \in {n.read, NothingRead}
      PROVE  Goes(events, waiting, k, m)
  <2>1. CallHolds(events, waiting, n) /\ n.id = k.id /\ n.op = k.op /\ n.pc # "resume"
    BY DEF Goes
  <2>2. m.op = n.op /\ m.id = n.id /\ DOMAIN m = CallFields
    BY <1>1 DEF SameCall
  <2>3. ReadHolds(events, NothingRead)
    BY NothingHolds
  <2>4. ReadHolds(events, n.read) => ReadHolds(events, m.read)
    BY <1>1, <2>3
  <2>5. n.pc # "idle" => CallKnows(events, m)
    BY <1>1, <2>1, <2>2, <2>4 DEF CallHolds, CallKnows
  <2>6. Unpublished(m) => Unpublished(n)
    BY <1>1, <2>2 DEF Unpublished
  <2>7. CallHolds(events, waiting, m)
    BY <1>1, <2>1, <2>2, <2>5, <2>6, CallDomain DEF CallHolds, BindsOwn
  <2> QED
    BY <1>1, <2>1, <2>2, <2>7 DEF Goes
<1>2. DOMAIN n = CallFields
  BY CallDomain DEF Goes, CallHolds
<1>3. Goes(events, waiting, k, [n EXCEPT !.capture = None])
  <2> DEFINE m == [n EXCEPT !.capture = None]
  <2>1. /\ SameCall(n, m) /\ m.pc = n.pc /\ m.goal = n.goal /\ m.group = n.group
        /\ m.pending = n.pending /\ m.result = n.result /\ m.answer = n.answer
        /\ m.read = n.read
    BY <1>2 DEF SameCall, CallFields
  <2> HIDE DEF m
  <2>2. Goes(events, waiting, k, m)
    BY <1>1, <2>1
  <2> QED
    BY <2>2 DEF m
<1>4. Goes(events, waiting, k, [n EXCEPT !.attempts = attempts])
  <2> DEFINE m == [n EXCEPT !.attempts = attempts]
  <2>1. /\ SameCall(n, m) /\ m.pc = n.pc /\ m.goal = n.goal /\ m.group = n.group
        /\ m.pending = n.pending /\ m.result = n.result /\ m.answer = n.answer
        /\ m.read = n.read
    BY <1>2 DEF SameCall, CallFields
  <2> HIDE DEF m
  <2>2. Goes(events, waiting, k, m)
    BY <1>1, <2>1
  <2> QED
    BY <2>2 DEF m
<1>5. Goes(events, waiting, k, [n EXCEPT !.read = NothingRead, !.attempts = attempts])
  <2> DEFINE m == [n EXCEPT !.read = NothingRead, !.attempts = attempts]
  <2>1. /\ SameCall(n, m) /\ m.pc = n.pc /\ m.goal = n.goal /\ m.group = n.group
        /\ m.pending = n.pending /\ m.result = n.result /\ m.answer = n.answer
        /\ m.read = NothingRead
    BY <1>2 DEF SameCall, CallFields
  <2> HIDE DEF m
  <2>2. Goes(events, waiting, k, m)
    BY <1>1, <2>1
  <2> QED
    BY <2>2 DEF m
<1> QED
  BY <1>3, <1>4, <1>5

-----------------------------------------------------------------------------
(* What a call knows while others write. *)

(* What the log holds, every later log holds. *)
LEMMA InLogStays ==
  ASSUME NEW old, NEW new, Continues(old, new)
  PROVE  /\ \A body : InLog(old, body) => InLog(new, body)
         /\ \A a, key, members :
              RecordedFor(old, a, key, members) => RecordedFor(new, a, key, members)
         /\ \A op, pending : PendingHolds(old, op, pending) => PendingHolds(new, op, pending)
         /\ BindingsIn(old) # {} => BindingsIn(new) # {}
<1>1. \A i \in DOMAIN old : i \in DOMAIN new /\ new[i] = old[i]
  BY ContinuesIn
<1>2. \A body : InLog(old, body) => InLog(new, body)
  BY <1>1 DEF InLog
<1>3. \A a, key, members : RecordedFor(old, a, key, members) => RecordedFor(new, a, key, members)
  BY <1>1 DEF RecordedFor
<1>4. \A op, pending : PendingHolds(old, op, pending) => PendingHolds(new, op, pending)
  BY <1>2 DEF PendingHolds
<1>5. BindingsIn(old) # {} => BindingsIn(new) # {}
  BY <1>1 DEF BindingsIn
<1> QED
  BY <1>2, <1>3, <1>4, <1>5

(* An answer stays true when the log grows, of the call told NotCommitted   *)
(* by nothing.                                                             *)
LEMMA AnswerStays ==
  ASSUME NEW old, NEW new, Continues(old, new), NEW waiting, NEW after, NEW op, NEW id, NEW answer,
         AnswerHolds(old, waiting, op, id, answer),
         answer.status = "not_committed" => Silent(new, id),
         after \in {waiting, None} \/ after.id # id
  PROVE  AnswerHolds(new, after, op, id, answer)
<1>1. \A i \in DOMAIN old : i \in DOMAIN new /\ new[i] = old[i]
  BY ContinuesIn
<1>2. \A body : InLog(old, body) => InLog(new, body)
  BY InLogStays
<1>3. BindingsIn(old) # {} => BindingsIn(new) # {}
  BY InLogStays
<1>4. ASSUME answer.status = "committed"
      PROVE  /\ Len(answer.receipt.members) = Len(op.members)
             /\ DOMAIN op.members = 1 .. Len(op.members)
             /\ \A i \in DOMAIN op.members :
                  /\ EntryIn(new, answer.receipt.members[i].position.store) = op.members[i].entry
                  /\ op.members[i].entry # None
  <2>1. ASSUME NEW i \in DOMAIN op.members
        PROVE  EntryIn(new, answer.receipt.members[i].position.store) = op.members[i].entry
    <3> DEFINE at == answer.receipt.members[i].position.store
    <3>1. EntryIn(old, at) = op.members[i].entry /\ op.members[i].entry # None
      BY <1>4 DEF AnswerHolds
    <3> HIDE DEF at
    <3>2. at \in DOMAIN old /\ old[at].body.name = "er.recorded_entry"
      BY <3>1 DEF EntryIn
    <3>3. EntryIn(new, at) = EntryIn(old, at)
      BY <1>1, <3>2 DEF EntryIn
    <3> QED
      BY <3>1, <3>3 DEF at
  <2> QED
    BY <1>4, <2>1 DEF AnswerHolds
<1>5. answer.status = "imported" =>
        \A x \in ToSet(op.imports) : InLog(new, AnchorBody(Authority(op), x))
  BY <1>2 DEF AnswerHolds
<1>6. answer.status = "bound" =>
        answer.receipt \in DOMAIN new /\ new[answer.receipt].body = BindingBody(op.authority)
  BY <1>1 DEF AnswerHolds
<1>7. answer.status = "recorded" => InLog(new, RefusalBody(Authority(op), op.refusal))
  BY <1>2 DEF AnswerHolds
<1>8. answer.status = "not_committed" =>
        /\ Silent(new, id)
        /\ \/ after = None \/ after.id # id
           \/ after.op.kind = "provision" /\ BindingsIn(new) # {}
  BY <1>3 DEF AnswerHolds
<1> QED
  BY <1>4, <1>5, <1>6, <1>7, <1>8 DEF AnswerHolds

(* What a call knows it knows of every later log. *)
LEMMA KnowsStays ==
  ASSUME NEW old, NEW new, Continues(old, new), NEW k, CallKnows(old, k)
  PROVE  CallKnows(new, k)
<1>1. \A i \in DOMAIN old : i \in DOMAIN new
  BY ContinuesIn
<1>2. /\ \A body : InLog(old, body) => InLog(new, body)
      /\ \A a, key, members :
           RecordedFor(old, a, key, members) => RecordedFor(new, a, key, members)
      /\ \A op, pending : PendingHolds(old, op, pending) => PendingHolds(new, op, pending)
  BY InLogStays
<1>3. k.pc = "resume" => Continues(k.capture.events, new)
  BY ContinuesOn DEF CallKnows
<1>4. k.pc \in {"keys", "streams", "rows"} =>
        k.op.kind = "append" /\ ReadHolds(new, k.read)
  BY <1>1 DEF CallKnows, ReadHolds
<1> QED
  BY <1>2, <1>3, <1>4 DEF CallKnows

(* A call of which nothing was published that must not be goes on as it was. *)
LEMMA CallStays ==
  ASSUME NEW old, NEW new, Continues(old, new), NEW waiting, NEW after, NEW k,
         CallHolds(old, waiting, k),
         k.id # 0 => BindsOwn(new, k),
         Unpublished(k) \/ k.answer.status = "not_committed" => Silent(new, k.id),
         after \in {waiting, None} \/ after.id # k.id
  PROVE  CallHolds(new, after, k)
<1>1. k.pc # "idle" => CallKnows(new, k)
  BY KnowsStays DEF CallHolds
<1>2. k.pc = "idle" => AnswerHolds(new, after, k.op, k.id, k.answer)
  BY AnswerStays DEF CallHolds
<1>3. Unpublished(k) => Unwritten(new, after, k.id)
  BY DEF CallHolds, Unwritten
<1>4. after # None /\ k.id # 0 /\ after.id = k.id => after.op = k.op
  BY DEF CallHolds
<1> QED
  BY <1>1, <1>2, <1>3, <1>4 DEF CallHolds

-----------------------------------------------------------------------------
(* What a write leaves. *)

(* A write of a tenant: its group published, or nothing. *)
Wrote(tenant, group, id, w) ==
  \/ Published(tenant, group, id, Len(tenant.events), w)
  \/ Quiet(tenant, group, w)

(* What a write of an operation leaves to the log. *)
LEMMA WroteHolds ==
  ASSUME NEW tenant, LogHolds(tenant.events), NEW group, WellFormed(group), NEW id, NEW w,
         Wrote(tenant, group, id, w)
  PROVE  /\ LogHolds(w.log.events) /\ Continues(tenant.events, w.log.events)
         /\ \A i \in DOMAIN w.log.events : i \notin DOMAIN tenant.events =>
              w.log.events[i].request_id = id
<1>1. Sequence(tenant.events) /\ Sequence(group.appends)
  BY DEF LogHolds, WellFormed
<1>2. CASE Published(tenant, group, id, Len(tenant.events), w)
  <2>1. LogHolds(w.log.events)
    BY <1>2, PublishedHolds
  <2>2. /\ Continues(tenant.events, w.log.events)
        /\ \A i \in DOMAIN w.log.events : i \notin DOMAIN tenant.events =>
             w.log.events[i].request_id = id
    BY <1>1, <1>2, PublishedFacts
  <2> QED
    BY <2>1, <2>2
<1>3. CASE Quiet(tenant, group, w)
  BY <1>1, <1>3, ContinuesItself DEF Quiet
<1> QED
  BY <1>2, <1>3 DEF Wrote

(* A write of another call leaves this one as it was. *)
LEMMA OthersStay ==
  ASSUME NEW tenant, LogHolds(tenant.events), NEW group, WellFormed(group), NEW id, NEW w,
         Wrote(tenant, group, id, w), NEW waiting, NEW after, NEW k,
         CallHolds(tenant.events, waiting, k), k.id # id,
         after \in {waiting, None} \/ after.id # k.id
  PROVE  CallHolds(w.log.events, after, k)
<1> DEFINE old == tenant.events
           new == w.log.events
<1>1. /\ Continues(old, new)
      /\ \A i \in DOMAIN new : i \notin DOMAIN old => new[i].request_id = id
  BY WroteHolds
<1>2. \A i \in DOMAIN old : i \in DOMAIN new /\ new[i] = old[i]
  BY <1>1, ContinuesIn
<1> HIDE DEF new, old
<1>3. CallHolds(old, waiting, k)
  BY DEF old
<1>4. k.id # 0 => BindsOwn(new, k)
  BY <1>1, <1>2, <1>3 DEF CallHolds, BindsOwn
<1>5. Silent(old, k.id) => Silent(new, k.id)
  BY <1>1, <1>2 DEF Silent
<1>6. Unpublished(k) => Silent(old, k.id)
  BY <1>3 DEF CallHolds, Unwritten
<1>7. k.answer.status = "not_committed" => Silent(old, k.id)
  <2>1. k.pc # "idle" => k.answer.status # "not_committed"
    BY <1>3, AnswerFields DEF CallHolds, CallKnows
  <2> QED
    BY <1>3, <2>1 DEF CallHolds, AnswerHolds
<1>8. CallHolds(new, after, k)
  BY <1>1, <1>3, <1>4, <1>5, <1>6, <1>7, CallStays
<1> QED
  BY <1>8 DEF new

(* What is published of a provision is its binding. *)
LEMMA BindsStill ==
  ASSUME NEW tenant, LogHolds(tenant.events), NEW k, BindsOwn(tenant.events, k), NEW pending,
         NEW group, k.op.kind \in Writes, GroupHolds(k.op, pending, group), NEW w,
         Wrote(tenant, group, k.id, w)
  PROVE  BindsOwn(w.log.events, k)
<1> SUFFICES ASSUME k.op.kind = "provision" PROVE BindsOwn(w.log.events, k)
  BY DEF BindsOwn
<1>1. group = binding_group(k.op.authority)
  BY DEF GroupHolds
<1>2. /\ Sequence(group.appends) /\ DOMAIN group.appends = {1}
      /\ group.appends[1].body = BindingBody(k.op.authority)
  <2>1. group.appends = <<Append1(BindingBody(k.op.authority), 0)>>
    BY <1>1 DEF binding_group, Group
  <2>2. Append1(BindingBody(k.op.authority), 0).body = BindingBody(k.op.authority)
    BY DEF Append1
  <2> QED
    BY <2>1, <2>2, OneAppend
<1>3. Sequence(tenant.events)
  BY DEF LogHolds
<1>4. CASE Published(tenant, group, k.id, Len(tenant.events), w)
  <2>1. /\ Continues(tenant.events, w.log.events)
        /\ \A i \in DOMAIN w.log.events : i \notin DOMAIN tenant.events =>
             \E n \in DOMAIN group.appends : w.log.events[i].body = group.appends[n].body
    BY <1>2, <1>3, <1>4, PublishedFacts
  <2>2. \A i \in DOMAIN tenant.events : w.log.events[i] = tenant.events[i]
    BY <2>1, ContinuesIn
  <2> QED
    BY <1>2, <2>1, <2>2 DEF BindsOwn
<1>5. CASE Quiet(tenant, group, w)
  BY <1>5 DEF Quiet
<1> QED
  BY <1>4, <1>5 DEF Wrote

(* The late write of a call lands: the call was told nothing that rules it  *)
(* out, or its binding finds another.                                      *)
LEMMA LateStays ==
  ASSUME NEW tenant, LogHolds(tenant.events), NEW waiting, waiting # None,
         waiting.op.kind \in Writes, GroupHolds(waiting.op, waiting.pending, waiting.group),
         NEW w, Wrote(tenant, waiting.group, waiting.id, w),
         NEW k, CallHolds(tenant.events, waiting, k), waiting.id # 0
  PROVE  CallHolds(w.log.events, None, k)
<1> DEFINE old == tenant.events
           new == w.log.events
<1>1. WellFormed(waiting.group)
  BY GroupWellFormed
<1>2. CASE k.id # waiting.id
  BY <1>1, <1>2, OthersStay
<1>3. CASE k.id = waiting.id /\ Quiet(tenant, waiting.group, w)
  <2>1. new = old /\ Continues(old, new)
    BY <1>3, ContinuesItself DEF Quiet, LogHolds
  <2>2. BindsOwn(old, k)
    BY <1>3 DEF CallHolds
  <2>3. Unpublished(k) => Silent(old, k.id)
    BY DEF CallHolds, Unwritten
  <2>4. k.answer.status = "not_committed" => Silent(old, k.id)
    <3>1. k.pc # "idle" => k.answer.status # "not_committed"
      BY AnswerFields DEF CallHolds, CallKnows
    <3> QED
      BY <3>1 DEF CallHolds, AnswerHolds
  <2> HIDE DEF new
  <2>5. CallHolds(new, None, k)
    BY <2>1, <2>2, <2>3, <2>4, CallStays
  <2> QED
    BY <2>5 DEF new
<1>4. CASE k.id = waiting.id /\ Published(tenant, waiting.group, waiting.id, Len(tenant.events), w)
  <2>1. waiting.op = k.op
    BY <1>4 DEF CallHolds
  <2>2. Continues(old, new)
    BY <1>1, WroteHolds
  <2>3. BindsOwn(old, k) /\ GroupHolds(k.op, waiting.pending, waiting.group) /\ k.op.kind \in Writes
    BY <1>4, <2>1 DEF CallHolds
  <2>4. BindsOwn(new, k)
    BY <1>4, <2>3, BindsStill
  <2>5. ~Unpublished(k)
    BY <1>4 DEF CallHolds, Unwritten
  <2>6. k.answer.status # "not_committed"
    <3> SUFFICES ASSUME k.answer.status = "not_committed" PROVE FALSE
      OBVIOUS
    <3>1. k.pc = "idle"
      BY AnswerFields DEF CallHolds, CallKnows
    <3>2. waiting.op.kind = "provision" /\ BindingsIn(old) # {}
      BY <1>4, <3>1 DEF CallHolds, AnswerHolds
    <3>3. waiting.group = binding_group(waiting.op.authority)
      BY <3>2 DEF GroupHolds
    <3> DEFINE appends == waiting.group.appends
               one == Append1(BindingBody(waiting.op.authority), 0)
    <3>4. appends = <<one>>
      BY <3>3 DEF binding_group, Group
    <3>5. one.expected = 0 /\ one.body = BindingBody(waiting.op.authority)
      BY DEF Append1
    <3> HIDE DEF appends, one
    <3>6. Sequence(appends) /\ DOMAIN appends = {1} /\ appends[1] = one
      BY <3>4, OneAppend
    <3>7. VersionsAgree(tenant, appends)
      BY <1>4 DEF Published, appends
    <3>8. OfStream(old, StreamOf(appends[1].body)) = {}
      <4>1. 1 \in DOMAIN appends /\ appends[1].expected = 0
        BY <3>5, <3>6
      <4>2. Sequence(tenant.events)
        BY DEF LogHolds
      <4> QED
        BY <3>6, <3>7, <4>1, <4>2, NoBinding
    <3>9. \A body : body.name = "er.binding" => StreamOf(body) = <<"er.binding">>
      BY DEF StreamOf
    <3>10. appends[1].body.name = "er.binding"
      BY <3>5, <3>6 DEF BindingBody
    <3> QED
      BY <3>2, <3>8, <3>9, <3>10 DEF BindingsIn, OfStream
  <2> HIDE DEF old, new
  <2>7. CallHolds(old, waiting, k)
    BY DEF old
  <2>8. CallHolds(new, None, k)
    BY <2>2, <2>4, <2>5, <2>6, <2>7, CallStays
  <2> QED
    BY <2>8 DEF new
<1> QED
  BY <1>2, <1>3, <1>4 DEF Wrote

-----------------------------------------------------------------------------
(* Appends. *)

(* A call that reads, and what it knows. *)
Reading(events, waiting, k) ==
  /\ Mine(events, waiting, k)
  /\ OpHolds(k.op) /\ k.answer = NoAnswer
  /\ k.goal \in {"plan", "confirm", "unknown", "conflict", "mismatch"}
  /\ k.goal \in {"plan", "conflict", "mismatch"} => Unwritten(events, waiting, k.id)
  /\ k.op.kind = "append" /\ k.goal = "confirm" =>
       RecordedFor(events, Authority(k.op), k.op.key, k.op.members)
  /\ k.op.kind \in {"import", "imports"} /\ k.goal # "plan" => PendingHolds(events, k.op, k.pending)

(* A call in a read step is reading. *)
LEMMA ReadingOf ==
  ASSUME NEW events, NEW waiting, NEW k, CallHolds(events, waiting, k), k.id \in Nat,
         k.pc \in ReadSteps
  PROVE  Reading(events, waiting, k)
<1>1. k.pc # "idle" /\ k.id # 0
  BY DEF ReadSteps, CallHolds
<1>2. k.goal \in {"plan", "conflict", "mismatch"} => Unwritten(events, waiting, k.id)
  BY DEF CallHolds, Unpublished
<1>3. Mine(events, waiting, k)
  BY <1>1, CallDomain DEF CallHolds, Mine
<1>4. CallKnows(events, k)
  BY <1>1 DEF CallHolds
<1> QED
  BY <1>2, <1>3, <1>4 DEF Reading, CallKnows

(* A model of a log, now perhaps longer. *)
Sees(seen, events, a, model) ==
  LogHolds(events) /\ Continues(seen, events) /\ ModelHolds(a, seen, model)

(* An append's members. *)
LEMMA MembersFacts ==
  ASSUME NEW op, OpHolds(op), op.kind = "append"
  PROVE  /\ op.key \in Key
         /\ Len(op.members) \in Nat /\ DOMAIN op.members = 1 .. Len(op.members)
         /\ op.key.kind = "single" => Len(op.members) = 1
         /\ \A i \in DOMAIN op.members :
              op.members[i].entry # None /\ EntryId(op.members[i].entry) \in RecordIds
<1>1. /\ op.key \in Key /\ op.members \in Seq(AppendMember)
      /\ op.key.kind = "single" => Len(op.members) = 1
      /\ \A i \in DOMAIN op.members : EntryId(op.members[i].entry) \in RecordIds
  BY DEF OpHolds
<1>2. /\ Len(op.members) \in Nat /\ DOMAIN op.members = 1 .. Len(op.members)
      /\ op.members \in [1 .. Len(op.members) -> AppendMember]
  BY <1>1, LenProperties, Zenon
<1>3. \A i \in DOMAIN op.members : op.members[i] \in AppendMember
  BY <1>2
<1>4. \A i \in DOMAIN op.members : op.members[i].entry # None
  BY <1>3, StoreAssumption DEF AppendMember
<1> QED
  BY <1>1, <1>2, <1>4

(* A record read is in the log where its receipt says. *)
LEMMA ReadIn ==
  ASSUME NEW seen, NEW events, Continues(seen, events), NEW x, RecordRead(seen, x)
  PROVE  EntryIn(events, x.receipt.position.store) = x.entry
<1>1. \A i \in DOMAIN seen : i \in DOMAIN events /\ events[i] = seen[i]
  BY ContinuesIn
<1> QED
  BY <1>1 DEF RecordRead, EntryIn

(* A batch read back with the members asked for is a true answer. *)
LEMMA BatchAnswers ==
  ASSUME NEW a, NEW seen, NEW events, Continues(seen, events), NEW waiting, NEW op, OpHolds(op),
         op.kind = "append", NEW records, BatchRead(a, seen, op.key, records),
         Len(records) = Len(op.members),
         \A i \in DOMAIN records : records[i].entry = op.members[i].entry,
         NEW id, NEW replayed
  PROVE  AnswerHolds(events, waiting, op, id,
           Settlement("committed", BatchReceipt(op.key, records), replayed))
<1> DEFINE receipt == BatchReceipt(op.key, records)
           answer == Settlement("committed", receipt, replayed)
<1>1. Len(records) \in Nat /\ DOMAIN records = 1 .. Len(records)
  BY DEF BatchRead
<1>2. /\ DOMAIN receipt.members = DOMAIN records
      /\ receipt.members = [i \in DOMAIN receipt.members |-> receipt.members[i]]
      /\ \A i \in DOMAIN records : receipt.members[i] = records[i].receipt
  BY DEF BatchReceipt
<1> HIDE DEF receipt
<1>3. Len(receipt.members) = Len(records)
  BY <1>1, <1>2, SequenceOf
<1>4. answer.status = "committed" /\ answer.receipt = receipt
  BY AnswerFields
<1> HIDE DEF answer
<1>5. /\ Len(op.members) \in Nat /\ DOMAIN op.members = 1 .. Len(op.members)
      /\ \A i \in DOMAIN op.members : op.members[i].entry # None
  BY MembersFacts
<1>6. \A i \in DOMAIN records : RecordRead(seen, records[i])
  BY DEF BatchRead
<1>7. \A i \in DOMAIN records :
        EntryIn(events, records[i].receipt.position.store) = records[i].entry
  BY <1>6, ReadIn
<1>8. \A i \in DOMAIN op.members :
        EntryIn(events, answer.receipt.members[i].position.store) = op.members[i].entry
  BY <1>1, <1>2, <1>4, <1>5, <1>7
<1>9. AnswerHolds(events, waiting, op, id, answer)
  BY <1>3, <1>4, <1>5, <1>8 DEF AnswerHolds
<1> QED
  BY <1>9 DEF answer, receipt

(* A single record answered with the receipt it was first given. *)
LEMMA SingleAnswers ==
  ASSUME NEW seen, NEW events, Continues(seen, events), NEW waiting, NEW op, OpHolds(op),
         op.kind = "append", op.key.kind = "single", NEW x, RecordRead(seen, x),
         x.entry = op.members[1].entry, NEW id, NEW replayed
  PROVE  AnswerHolds(events, waiting, op, id, Settlement("committed", SingleReceipt(x), replayed))
<1> DEFINE receipt == SingleReceipt(x)
           answer == Settlement("committed", receipt, replayed)
<1>1. receipt.members = <<x.receipt>>
  BY DEF SingleReceipt
<1> HIDE DEF receipt
<1>2. Len(receipt.members) = 1 /\ receipt.members[1] = x.receipt
  BY <1>1
<1>3. answer.status = "committed" /\ answer.receipt = receipt
  BY AnswerFields
<1> HIDE DEF answer
<1>4. /\ Len(op.members) = 1 /\ DOMAIN op.members = 1 .. Len(op.members)
      /\ \A i \in DOMAIN op.members : op.members[i].entry # None
  BY MembersFacts
<1>5. EntryIn(events, x.receipt.position.store) = x.entry
  BY ReadIn
<1>6. \A i \in DOMAIN op.members : i = 1
  BY <1>4
<1>7. \A i \in DOMAIN op.members :
        EntryIn(events, answer.receipt.members[i].position.store) = op.members[i].entry
  BY <1>2, <1>3, <1>5, <1>6
<1>8. AnswerHolds(events, waiting, op, id, answer)
  BY <1>2, <1>3, <1>4, <1>7 DEF AnswerHolds
<1> QED
  BY <1>8 DEF answer, receipt

(* What a model says of a request recorded before is true. *)
LEMMA RecoveredHolds ==
  ASSUME NEW seen, NEW events, NEW op, OpHolds(op), op.kind = "append", NEW model, model.ok,
         Sees(seen, events, Authority(op), model), NEW waiting, NEW id, NEW outcome,
         outcome = recover_from(model, op.key, op.members),
         outcome.answer \in {"committed", "historical"}
  PROVE  AnswerHolds(events, waiting, op, id, OutcomeAnswer(outcome))
<1> DEFINE Lookup(i) == model.records[EntryId(op.members[i].entry)]
           prior == {i \in DOMAIN op.members : Lookup(i) # None}
           records == model.batches[op.key]
<1>1. /\ op.key \in Key /\ DOMAIN op.members = 1 .. Len(op.members)
      /\ op.key.kind = "single" => Len(op.members) = 1
      /\ \A i \in DOMAIN op.members : EntryId(op.members[i].entry) \in RecordIds
  BY MembersFacts
<1>2. Continues(seen, events)
  BY DEF Sees
<1>3. OutcomeAnswer(outcome) = Settlement(outcome.answer, outcome.receipt, outcome.replayed)
  BY DEF OutcomeAnswer
<1>4. CASE records # << >>
  <2>1. BatchRead(Authority(op), seen, op.key, records)
    BY <1>1, <1>4 DEF Sees, ModelHolds
  <2>2. SameMembers(records, op.members)
    <3>1. ~SameMembers(records, op.members) => outcome = Refused("batch_conflict")
      BY <1>4, Zenon DEF recover_from
    <3>2. Refused("batch_conflict").answer = "batch_conflict"
      BY DEF Refused, Outcome
    <3> QED
      BY <3>1, <3>2
  <2>3. outcome = Replay(op.key, records)
    BY <1>4, <2>2, Zenon DEF recover_from
  <2>4. outcome.answer = "committed" /\ outcome.receipt = BatchReceipt(op.key, records)
    BY <2>3 DEF Replay, Outcome
  <2>5. /\ Len(records) = Len(op.members)
        /\ \A i \in DOMAIN records : records[i].entry = op.members[i].entry
    BY <2>2 DEF SameMembers
  <2>6. AnswerHolds(events, waiting, op, id,
          Settlement("committed", BatchReceipt(op.key, records), outcome.replayed))
    BY <1>2, <2>1, <2>5, BatchAnswers
  <2> QED
    BY <1>3, <2>4, <2>6
<1>5. CASE records = << >>
  <2> DEFINE single == Recovered(Lookup(1), EvidenceHolds(model, Lookup(1)))
  <2>1. /\ Refused("none").answer = "none"
        /\ Refused("previously_recorded").answer = "previously_recorded"
        /\ Refused("record_conflict").answer = "record_conflict"
        /\ Refused("corrupt_history").answer = "corrupt_history"
    BY DEF Refused, Outcome
  <2>2. /\ prior # {} /\ op.key.kind # "named" /\ outcome = single
        /\ LookupEntry(Lookup(1)) = op.members[1].entry
    <3>1. prior = {} => outcome = Refused("none")
      BY <1>5, Zenon DEF recover_from
    <3>2. prior # {} /\ op.key.kind = "named" => outcome = Refused("previously_recorded")
      BY <1>5, Zenon DEF recover_from
    <3>3. prior # {} /\ op.key.kind # "named" /\ LookupEntry(Lookup(1)) # op.members[1].entry =>
            outcome = Refused("record_conflict")
      BY <1>5, Zenon DEF recover_from
    <3>4. prior # {} /\ op.key.kind # "named" /\ LookupEntry(Lookup(1)) = op.members[1].entry =>
            outcome = single
      BY <1>5, Zenon DEF recover_from
    <3> HIDE DEF prior, single, Lookup
    <3> QED
      BY <2>1, <3>1, <3>2, <3>3, <3>4
  <2>3. op.key.kind = "single"
    BY <1>1, <2>2 DEF Key
  <2>4. 1 \in DOMAIN op.members /\ Lookup(1) # None
    <3>1. PICK i \in DOMAIN op.members : Lookup(i) # None
      BY <2>2
    <3>2. i = 1
      BY <1>1, <2>3, <3>1
    <3> QED
      BY <3>1, <3>2
  <2>5. Lookup(1).kind = "committed" => RecordRead(seen, Lookup(1).record)
    BY <1>1, <2>4 DEF Sees, ModelHolds
  <2> HIDE DEF Lookup
  <2>6. CASE Lookup(1).kind = "committed"
    <3>1. outcome = Outcome("committed", SingleReceipt(Lookup(1).record), TRUE)
      BY <2>2, <2>6, Zenon DEF Recovered
    <3>2. /\ outcome.answer = "committed" /\ outcome.replayed = TRUE
          /\ outcome.receipt = SingleReceipt(Lookup(1).record)
      BY <3>1 DEF Outcome
    <3>3. Lookup(1).record.entry = op.members[1].entry
      BY <2>2, <2>6 DEF LookupEntry
    <3>4. AnswerHolds(events, waiting, op, id,
            Settlement("committed", SingleReceipt(Lookup(1).record), outcome.replayed))
      BY <1>2, <2>3, <2>5, <2>6, <3>3, SingleAnswers
    <3> QED
      BY <1>3, <3>2, <3>4
  <2>7. CASE Lookup(1).kind # "committed"
    <3>1. outcome.answer # "committed"
      <4>1. outcome \in {Outcome("historical", None, FALSE), Refused("corrupt_history")}
        BY <2>2, <2>7, Zenon DEF Recovered
      <4> QED
        BY <2>1, <4>1 DEF Outcome
    <3>2. OutcomeAnswer(outcome).status = "historical"
      BY <1>3, <3>1, AnswerFields
    <3> QED
      BY <3>2, ModestHolds DEF Claims
  <2> QED
    BY <2>6, <2>7
<1> QED
  BY <1>4, <1>5

(* Any other outcome is a refusal. *)
LEMMA OutcomeRefuses ==
  ASSUME NEW outcome, outcome.answer \notin {"committed", "historical"}
  PROVE  OutcomeAnswer(outcome).status = "not_committed"
  BY AnswerFields DEF OutcomeAnswer

(* The group of an append is what it asks for. *)
LEMMA AppendGroupOf ==
  ASSUME NEW a, NEW op, op.members \in Seq(AppendMember), NEW heads
  PROVE  AppendGroupHolds(a, op.key, op.members, append_group(a, op, heads))
<1> DEFINE group == append_group(a, op, heads)
<1>1. /\ group.command = <<"batch", a, op.key>>
      /\ group.hash = <<BatchBlob(op.key, op.members)>>
      /\ DOMAIN group.appends = DOMAIN op.members
      /\ group.appends = [i \in DOMAIN group.appends |-> group.appends[i]]
      /\ \A i \in DOMAIN op.members :
           group.appends[i].body = EntryBody(a, op.key, op.members, i)
  BY DEF append_group, Group, Append1
<1>2. Len(op.members) \in Nat /\ DOMAIN op.members = 1 .. Len(op.members)
  BY LenProperties, Zenon
<1> HIDE DEF group
<1>3. Sequence(group.appends)
  BY <1>1, <1>2, SequenceOf
<1>4. AppendGroupHolds(a, op.key, op.members, group)
  BY <1>1, <1>3 DEF AppendGroupHolds
<1> QED
  BY <1>4 DEF group

(* An append planned on a model is answered from it, refused, or sent. *)
LEMMA PlanAppendHolds ==
  ASSUME NEW seen, NEW events, NEW waiting, NEW k, Reading(events, waiting, k),
         k.op.kind = "append", k.goal = "plan", NEW model,
         Sees(seen, events, Authority(k.op), model), NEW handle
  PROVE  Goes(events, waiting, k, PlanAppend(k, handle, model))
<1> DEFINE op == k.op
           outcome == recover_from(model, op.key, op.members)
           group == append_group(Authority(op), op, Heads(model))
           grows == admit_growth(handle.held, AppendGrowth(model, group, op.members))
           n == PlanAppend(k, handle, model)
<1>1. Mine(events, waiting, k) /\ OpHolds(op) /\ Unwritten(events, waiting, k.id) /\ k.answer = NoAnswer
  BY DEF Reading
<1>2. \A why : Goes(events, waiting, k, Answers(k, NotCommitted(why)))
  BY <1>1, Refuses, AnswerFields
<1>3. CASE ~model.ok
  <2>1. n = Answers(k, NotCommitted("unreadable"))
    BY <1>3, Zenon DEF PlanAppend
  <2> QED
    BY <1>2, <2>1
<1>4. CASE model.ok /\ Settled_Here(outcome)
  <2>1. n = Answers(k, OutcomeAnswer(outcome))
    BY <1>4, Zenon DEF PlanAppend
  <2> HIDE DEF n
  <2>2. CASE outcome.answer \in {"committed", "historical"}
    <3>1. outcome = recover_from(model, op.key, op.members)
      OBVIOUS
    <3> HIDE DEF outcome
    <3>2. AnswerHolds(events, waiting, op, k.id, OutcomeAnswer(outcome))
      BY <1>1, <1>4, <2>2, <3>1, RecoveredHolds, Zenon
    <3> QED
      BY <1>1, <2>1, <3>2, AnswersHold DEF n
  <2>3. CASE outcome.answer \notin {"committed", "historical"}
    <3> HIDE DEF outcome
    <3>1. OutcomeAnswer(outcome).status = "not_committed"
      BY <2>3, OutcomeRefuses
    <3> QED
      BY <1>1, <2>1, <3>1, Refuses DEF n
  <2> QED
    BY <2>2, <2>3
<1>5. CASE model.ok /\ ~Settled_Here(outcome) /\ ~grows
  <2>1. n = Answers(k, NotCommitted("exceeds_read_bounds"))
    BY <1>5, Zenon DEF PlanAppend
  <2> QED
    BY <1>2, <2>1
<1>6. CASE model.ok /\ ~Settled_Here(outcome) /\ grows
  <2>1. n = Sends(k, group, << >>)
    BY <1>6, Zenon DEF PlanAppend
  <2>2. AppendGroupHolds(Authority(op), op.key, op.members, group)
    BY <1>1, AppendGroupOf DEF OpHolds
  <2> HIDE DEF group
  <2>3. GroupHolds(op, << >>, group)
    BY <2>2 DEF GroupHolds
  <2>4. op.kind \in Writes
    BY DEF Writes
  <2>5. Goes(events, waiting, k, Sends(k, group, << >>))
    BY <1>1, <2>3, <2>4, SendsHold
  <2> QED
    BY <2>1, <2>5
<1> QED
  BY <1>3, <1>4, <1>5, <1>6

(* An append read back: its command is recorded once, under its members.   *)
LEMMA ConfirmAppendHolds ==
  ASSUME NEW seen, NEW events, NEW waiting, NEW k, Reading(events, waiting, k),
         k.op.kind = "append", k.goal = "confirm", NEW model,
         Sees(seen, events, Authority(k.op), model)
  PROVE  Goes(events, waiting, k, ConfirmAppend(k, model))
<1> DEFINE op == k.op
           a == Authority(op)
           records == model.batches[op.key]
           answer == Settlement("committed", BatchReceipt(op.key, records), FALSE)
           n == ConfirmAppend(k, model)
<1>1. Mine(events, waiting, k) /\ OpHolds(op)
  BY DEF Reading
<1>2. Continues(seen, events) /\ LogHolds(events)
  BY DEF Sees
<1>3. CASE n = Answers(k, Uncertain)
  <2>1. Uncertain.status \notin Claims
    BY AnswerFields DEF Claims
  <2> QED
    BY <1>1, <1>3, <2>1, Modestly
<1>4. CASE n # Answers(k, Uncertain)
  <2>1. /\ model.ok /\ records # << >> /\ n = Answers(k, answer)
    BY <1>4, Zenon DEF ConfirmAppend
  <2>2. op.key \in Key /\ Len(op.members) \in Nat /\ DOMAIN op.members = 1 .. Len(op.members)
    BY <1>1, MembersFacts
  <2>3. BatchRead(a, seen, op.key, records)
    BY <2>1, <2>2 DEF Sees, ModelHolds
  <2> DEFINE first == records[1].receipt.position.store
  <2> HIDE DEF records
  <2>4. /\ first \in DOMAIN seen /\ seen[first].body.name = "er.recorded_entry"
        /\ seen[first].body.authority = a /\ seen[first].body.key = op.key
        /\ Len(records) = Len(seen[first].body.members)
        /\ \A i \in DOMAIN records : records[i].entry = seen[first].body.members[i].entry
    BY <2>3 DEF BatchRead
  <2>5. first \in DOMAIN events /\ events[first] = seen[first]
    BY <1>2, <2>4, ContinuesIn
  <2> HIDE DEF first
  <2>6. /\ events[first].command = <<"batch", a, op.key>>
        /\ events[first].hash = <<BatchBlob(op.key, events[first].body.members)>>
    BY <1>2, <2>4, <2>5 DEF LogHolds, EventHolds
  <2>7. PICK i \in DOMAIN events :
          events[i].command = <<"batch", a, op.key>> /\ events[i].hash = <<BatchBlob(op.key, op.members)>>
    BY DEF Reading, RecordedFor
  <2>8. events[i].hash = events[first].hash
    BY <1>2, <2>5, <2>6, <2>7 DEF LogHolds
  <2>9. BatchBlob(op.key, op.members) = BatchBlob(op.key, events[first].body.members)
    BY <2>6, <2>7, <2>8
  <2>10. op.members = events[first].body.members
    BY <2>9 DEF BatchBlob
  <2>11. /\ Len(records) = Len(op.members)
         /\ \A j \in DOMAIN records : records[j].entry = op.members[j].entry
    BY <2>4, <2>5, <2>10
  <2>12. AnswerHolds(events, waiting, op, k.id, answer)
    BY <1>1, <1>2, <2>3, <2>11, BatchAnswers
  <2> HIDE DEF answer
  <2>13. Goes(events, waiting, k, Answers(k, answer))
    BY <1>1, <2>12, AnswersHold
  <2> QED
    BY <2>1, <2>13
<1> QED
  BY <1>3, <1>4

(* An append whose outcome is asked of a complete capture. *)
LEMMA ResolveAppendHolds ==
  ASSUME NEW seen, NEW events, NEW waiting, NEW k, Reading(events, waiting, k),
         k.op.kind = "append", k.goal \notin {"plan", "confirm"}, NEW model,
         Sees(seen, events, Authority(k.op), model)
  PROVE  Goes(events, waiting, k, ResolveAppend(k, model))
<1> DEFINE op == k.op
           outcome == recover_from(model, op.key, op.members)
           n == ResolveAppend(k, model)
<1>1. Mine(events, waiting, k) /\ OpHolds(op)
  BY DEF Reading
<1>2. CASE model.ok /\ outcome.answer \in {"committed", "historical"}
  <2>1. n = Answers(k, OutcomeAnswer(outcome))
    BY <1>2, Zenon DEF ResolveAppend
  <2>2. outcome = recover_from(model, op.key, op.members)
    OBVIOUS
  <2> HIDE DEF outcome, n
  <2>3. AnswerHolds(events, waiting, op, k.id, OutcomeAnswer(outcome))
    BY <1>1, <1>2, <2>2, RecoveredHolds, Zenon
  <2> QED
    BY <1>1, <2>1, <2>3, AnswersHold DEF n
<1>3. CASE n = Answers(k, Uncertain)
  <2>1. Uncertain.status \notin Claims
    BY AnswerFields DEF Claims
  <2> QED
    BY <1>1, <1>3, <2>1, Modestly
<1>4. CASE ~(model.ok /\ outcome.answer \in {"committed", "historical"}) /\ n # Answers(k, Uncertain)
  <2>1. /\ k.goal # "unknown"
        /\ n = IF k.goal = "conflict" THEN Scopes(k, "plan")
               ELSE Answers(k, NotCommitted("provider_integrity"))
    BY <1>4, Zenon DEF ResolveAppend
  <2> HIDE DEF n
  <2>2. Unwritten(events, waiting, k.id)
    BY <2>1 DEF Reading
  <2>3. CASE k.goal = "conflict"
    <3>1. MayRead(events, waiting, k, "plan")
      BY <2>2 DEF MayRead, Reading
    <3> QED
      BY <1>1, <2>1, <2>3, <3>1, ScopesHold DEF n
  <2>4. CASE k.goal # "conflict"
    <3>1. Goes(events, waiting, k, Answers(k, NotCommitted("provider_integrity")))
      BY <1>1, <2>2, Refuses, AnswerFields
    <3> QED
      BY <2>1, <2>4, <3>1 DEF n
  <2> QED
    BY <2>3, <2>4
<1> QED
  BY <1>2, <1>3, <1>4

-----------------------------------------------------------------------------
(* Imports. *)

(* An import a model holds is in the log. *)
LEMMA HeldIn ==
  ASSUME NEW seen, NEW events, NEW k, NEW model, model.ok, seen = k.capture.events,
         Sees(seen, events, Authority(k.op), model), NEW x \in Import, HeldAs(k, model, x)
  PROVE  InLog(events, AnchorBody(Authority(k.op), x))
<1> DEFINE a == Authority(k.op)
           at == model.anchors[x.anchor.subject]
<1>1. x.anchor.subject \in Subjects
  BY DEF Import, Instance
<1>2. at # 0 /\ AnchorBlob(a, seen[at].body.import) = AnchorBlob(a, x)
  BY DEF HeldAs, AnchorIs
<1>3. at \in DOMAIN seen /\ seen[at].body = AnchorBody(a, seen[at].body.import)
  BY <1>1, <1>2 DEF Sees, ModelHolds
<1> HIDE DEF at
<1>4. seen[at].body.import = x
  BY <1>2 DEF AnchorBlob
<1>5. at \in DOMAIN events /\ events[at].body = AnchorBody(a, x)
  BY <1>3, <1>4, ContinuesIn DEF Sees
<1> QED
  BY <1>5 DEF InLog

(* The first mention of a subject in a batch. *)
LEMMA FirstMention ==
  ASSUME NEW imports, Sequence(imports), ~Disagree(imports), NEW i \in DOMAIN imports
  PROVE  \E j \in DOMAIN imports : imports[j] = imports[i] /\ ~Repeats(imports, j)
<1> DEFINE T == {j \in DOMAIN imports : imports[j].anchor.subject = imports[i].anchor.subject}
<1>1. Len(imports) \in Nat /\ DOMAIN imports = 1 .. Len(imports)
  BY SequenceFacts
<1>2. T \subseteq Nat /\ i \in T
  BY <1>1
<1>3. PICK j \in T : \A m \in T : ~ (<<m, j>> \in Below)
  BY <1>2, WFMin, BelowIsWellFounded
<1>4. j \in 1 .. Len(imports) /\ j \in Nat
  BY <1>1, <1>3
<1>5. ~Repeats(imports, j)
  <2> SUFFICES ASSUME NEW m \in 1 .. j - 1,
                      imports[m].anchor.subject = imports[j].anchor.subject
               PROVE  FALSE
    BY DEF Repeats
  <2>1. m \in 1 .. Len(imports) /\ m \in Nat /\ m < j
    BY <1>1, <1>4
  <2>2. m \in T
    BY <1>1, <1>3, <2>1
  <2>3. <<m, j>> \in Nat \X Nat /\ <<m, j>>[1] = m /\ <<m, j>>[2] = j
    BY <1>4, <2>1
  <2> HIDE DEF T
  <2>4. <<m, j>> \in Below
    BY <2>1, <2>3 DEF Below
  <2> QED
    BY <1>3, <2>2, <2>4
<1>6. imports[j] = imports[i]
  BY <1>3 DEF Disagree
<1> QED
  BY <1>3, <1>5, <1>6

(* The members at some places, in their order. *)
InPlaces(imports, places) == [n \in DOMAIN places |-> imports[places[n]]]

(* The places of the imports a model does not hold. *)
Missing(k, model) ==
  {i \in DOMAIN k.op.imports :
     ~(Repeats(k.op.imports, i) \/ HeldAs(k, model, k.op.imports[i]))}

(* A function of the first places into a set is a sequence of it. *)
LEMMA SequenceInto ==
  ASSUME NEW S, NEW n \in Nat, NEW q \in [1 .. n -> S]
  PROVE  q \in Seq(S)
  BY SeqDef

(* Every import asked for is held, or pending. *)
LEMMA PendingOf ==
  ASSUME NEW seen, NEW events, NEW k, NEW model, model.ok, seen = k.capture.events,
         Sees(seen, events, Authority(k.op), model), OpHolds(k.op),
         k.op.kind \in {"import", "imports"}
  PROVE  PendingHolds(events, k.op, InPlaces(k.op.imports, InOrder(Missing(k, model))))
<1> DEFINE imports == k.op.imports
           missing == Missing(k, model)
           places == InOrder(missing)
           pending == InPlaces(imports, places)
           a == Authority(k.op)
<1>1. imports \in Seq(Import) /\ ~Disagree(imports)
  BY DEF OpHolds
<1>2. Len(imports) \in Nat /\ DOMAIN imports = 1 .. Len(imports) /\ imports \in [1 .. Len(imports) -> Import]
  BY <1>1, LenProperties, Zenon
<1>3. Sequence(imports)
  BY <1>1, SequenceTyped, Zenon
<1>4. missing \subseteq DOMAIN imports
  BY DEF Missing
<1>5. /\ Sequence(places) /\ \A n \in DOMAIN places : places[n] \in missing
      /\ \A i \in missing : \E n \in DOMAIN places : places[n] = i
  BY <1>3, <1>4, PlacesInOrder
<1> HIDE DEF places
<1>6. Len(places) \in Nat /\ DOMAIN places = 1 .. Len(places)
  BY <1>5, SequenceFacts
<1>7. pending = [n \in DOMAIN places |-> imports[places[n]]]
  BY DEF InPlaces
<1> HIDE DEF pending
<1>8. pending \in Seq(Import)
  <2>1. \A n \in DOMAIN places : imports[places[n]] \in Import
    BY <1>2, <1>4, <1>5
  <2> HIDE DEF imports
  <2>2. pending \in [1 .. Len(places) -> Import]
    BY <1>6, <1>7, <2>1
  <2> QED
    BY <1>6, <2>2, SequenceInto
<1>9. ASSUME NEW x \in ToSet(imports)
      PROVE  InLog(events, AnchorBody(a, x)) \/ x \in ToSet(pending)
  <2>1. PICK i \in DOMAIN imports : imports[i] = x
    BY DEF ToSet
  <2>2. PICK j \in DOMAIN imports : imports[j] = x /\ ~Repeats(imports, j)
    BY <1>1, <1>3, <2>1, FirstMention
  <2>3. CASE HeldAs(k, model, x)
    <3>1. x \in Import
      BY <1>2, <2>1
    <3>2. InLog(events, AnchorBody(a, x))
      BY <2>3, <3>1, HeldIn
    <3> QED
      BY <3>2
  <2>4. CASE ~HeldAs(k, model, x)
    <3>1. j \in missing
      BY <2>2, <2>4 DEF Missing
    <3>2. PICK n \in DOMAIN places : places[n] = j
      BY <1>5, <3>1
    <3>3. n \in DOMAIN pending /\ pending[n] = x
      BY <1>7, <2>2, <3>2
    <3> QED
      BY <3>3 DEF ToSet
  <2> QED
    BY <2>3, <2>4
<1> QED
  BY <1>8, <1>9 DEF PendingHolds, pending, places

(* An answer that every import asked for is in the log. *)
LEMMA ImportedHolds ==
  ASSUME NEW events, NEW waiting, NEW op, NEW pending, PendingHolds(events, op, pending),
         \A x \in ToSet(pending) : InLog(events, AnchorBody(Authority(op), x)),
         NEW id, NEW answer, answer.status = "imported"
  PROVE  AnswerHolds(events, waiting, op, id, answer)
<1>1. \A x \in ToSet(op.imports) : InLog(events, AnchorBody(Authority(op), x))
  BY DEF PendingHolds
<1> QED
  BY <1>1 DEF AnswerHolds

(* An import planned on a model is answered from it, refused, or sent. *)
LEMMA PlanImportHolds ==
  ASSUME NEW seen, NEW events, NEW waiting, NEW k, Reading(events, waiting, k),
         k.op.kind \in {"import", "imports"}, k.goal = "plan", NEW model,
         Sees(seen, events, Authority(k.op), model), model.ok => seen = k.capture.events
  PROVE  Goes(events, waiting, k, PlanImport(k, model))
<1> DEFINE op == k.op
           pending == InPlaces(op.imports, InOrder(Missing(k, model)))
           group == import_group(Authority(op), op.kind, pending)
           answer == Settlement("imported", None, TRUE)
           n == PlanImport(k, model)
<1>1. /\ Mine(events, waiting, k) /\ OpHolds(op) /\ Unwritten(events, waiting, k.id)
      /\ k.answer = NoAnswer
  BY DEF Reading
<1>2. \A why : Goes(events, waiting, k, Answers(k, NotCommitted(why)))
  BY <1>1, Refuses, AnswerFields
<1>3. CASE ~model.ok
  <2>1. n = Answers(k, NotCommitted("unreadable"))
    BY <1>3, Zenon DEF PlanImport
  <2> QED
    BY <1>2, <2>1
<1>4. CASE model.ok /\ ~ \E why : n = Answers(k, NotCommitted(why))
  <2>1. n = IF pending = << >> THEN Answers(k, answer) ELSE Sends(k, group, pending)
    BY <1>4, Zenon DEF PlanImport, Missing, InPlaces
  <2> HIDE DEF n
  <2>2. model.ok /\ seen = k.capture.events
    BY <1>4
  <2>3. PendingHolds(events, op, pending)
    BY <1>1, <2>2, PendingOf, Zenon
  <2> HIDE DEF pending
  <2>4. CASE pending = << >>
    <3>1. ToSet(pending) = {}
      BY <2>4 DEF ToSet
    <3>2. answer.status = "imported"
      BY DEF Settlement, NoAnswer
    <3> HIDE DEF answer
    <3>3. AnswerHolds(events, waiting, op, k.id, answer)
      BY <2>3, <3>1, <3>2, ImportedHolds
    <3> QED
      BY <1>1, <2>1, <2>4, <3>3, AnswersHold DEF n
  <2>5. CASE pending # << >>
    <3>1. GroupHolds(op, pending, group) /\ op.kind \in Writes
      BY <2>3 DEF GroupHolds, PendingHolds, Writes
    <3> HIDE DEF group
    <3>2. Goes(events, waiting, k, Sends(k, group, pending))
      BY <1>1, <2>3, <3>1, SendsHold
    <3> QED
      BY <2>1, <2>5, <3>2 DEF n
  <2> QED
    BY <2>4, <2>5
<1>5. CASE \E why : n = Answers(k, NotCommitted(why))
  BY <1>2, <1>5
<1> QED
  BY <1>3, <1>4, <1>5

(* A model that holds every pending import shows them in the log. *)
LEMMA AllHeldIn ==
  ASSUME NEW seen, NEW events, NEW k, NEW model, AllHeld(k, model),
         seen = k.capture.events, Sees(seen, events, Authority(k.op), model),
         PendingHolds(events, k.op, k.pending), NEW waiting, NEW id, NEW answer,
         answer.status = "imported"
  PROVE  AnswerHolds(events, waiting, k.op, id, answer)
<1>1. model.ok /\ \A i \in DOMAIN k.pending : HeldAs(k, model, k.pending[i])
  BY DEF AllHeld
<1>2. k.pending \in Seq(Import)
  BY DEF PendingHolds
<1>3. \A i \in DOMAIN k.pending : k.pending[i] \in Import
  <2>1. DOMAIN k.pending = 1 .. Len(k.pending) /\ k.pending \in [1 .. Len(k.pending) -> Import]
    BY <1>2, LenProperties, Zenon
  <2> QED
    BY <2>1
<1>4. \A i \in DOMAIN k.pending : InLog(events, AnchorBody(Authority(k.op), k.pending[i]))
  BY <1>1, <1>3, HeldIn
<1>5. \A x \in ToSet(k.pending) : InLog(events, AnchorBody(Authority(k.op), x))
  BY <1>4 DEF ToSet
<1> QED
  BY <1>5, ImportedHolds

(* An import read back. *)
LEMMA ConfirmImportHolds ==
  ASSUME NEW seen, NEW events, NEW waiting, NEW k, Reading(events, waiting, k),
         k.op.kind \in {"import", "imports"}, k.goal = "confirm", NEW model,
         Sees(seen, events, Authority(k.op), model), model.ok => seen = k.capture.events
  PROVE  Goes(events, waiting, k, ConfirmImport(k, model))
<1> DEFINE answer == Settlement("imported", None, k.result.answer = "deduplicated")
           n == ConfirmImport(k, model)
<1>1. Mine(events, waiting, k) /\ PendingHolds(events, k.op, k.pending)
  BY DEF Reading
<1>2. CASE n = Answers(k, Uncertain)
  <2>1. Uncertain.status \notin Claims
    BY AnswerFields DEF Claims
  <2> QED
    BY <1>1, <1>2, <2>1, Modestly
<1>3. CASE n # Answers(k, Uncertain)
  <2>1. AllHeld(k, model) /\ n = Answers(k, answer)
    BY <1>3, Zenon DEF ConfirmImport
  <2>2. answer.status = "imported"
    BY DEF Settlement, NoAnswer
  <2> HIDE DEF answer, n
  <2>3. seen = k.capture.events
    BY <2>1 DEF AllHeld
  <2>4. AnswerHolds(events, waiting, k.op, k.id, answer)
    BY <1>1, <2>1, <2>2, <2>3, AllHeldIn
  <2> QED
    BY <1>1, <2>1, <2>4, AnswersHold DEF n
<1> QED
  BY <1>2, <1>3

(* An import whose outcome is asked of a complete capture. *)
LEMMA ResolveImportHolds ==
  ASSUME NEW seen, NEW events, NEW waiting, NEW k, Reading(events, waiting, k),
         k.op.kind \in {"import", "imports"}, k.goal \notin {"plan", "confirm"}, NEW model,
         Sees(seen, events, Authority(k.op), model), model.ok => seen = k.capture.events
  PROVE  Goes(events, waiting, k, ResolveImport(k, model))
<1> DEFINE answer == Settlement("imported", None, TRUE)
           n == ResolveImport(k, model)
<1>1. Mine(events, waiting, k) /\ PendingHolds(events, k.op, k.pending)
  BY DEF Reading
<1>2. CASE n = Answers(k, Uncertain)
  <2>1. Uncertain.status \notin Claims
    BY AnswerFields DEF Claims
  <2> QED
    BY <1>1, <1>2, <2>1, Modestly
<1>3. CASE AllHeld(k, model)
  <2>1. n = Answers(k, answer)
    BY <1>3, Zenon DEF ResolveImport
  <2>2. answer.status = "imported"
    BY DEF Settlement, NoAnswer
  <2> HIDE DEF answer, n
  <2>3. seen = k.capture.events
    BY <1>3 DEF AllHeld
  <2>4. AnswerHolds(events, waiting, k.op, k.id, answer)
    BY <1>1, <1>3, <2>2, <2>3, AllHeldIn
  <2> QED
    BY <1>1, <2>1, <2>4, AnswersHold DEF n
<1>4. CASE ~AllHeld(k, model) /\ n # Answers(k, Uncertain)
  <2>1. k.goal # "unknown" /\ n = Answers(k, NotCommitted("revision_conflict"))
    BY <1>4, Zenon DEF ResolveImport
  <2>2. Unwritten(events, waiting, k.id)
    BY <2>1 DEF Reading
  <2> HIDE DEF n
  <2>3. Goes(events, waiting, k, Answers(k, NotCommitted("revision_conflict")))
    BY <1>1, <2>2, Refuses, AnswerFields
  <2> QED
    BY <2>1, <2>3 DEF n
<1> QED
  BY <1>2, <1>3, <1>4

-----------------------------------------------------------------------------
(* Binding. *)

(* A model of some events verified only under a binding. *)
LEMMA BuiltBinds ==
  ASSUME NEW a, NEW capture, DOMAIN capture.events # {}, build_model(a, capture).ok
  PROVE  build_model(a, capture).binding # 0
<1> DEFINE places == DOMAIN capture.events
           held == [EmptyModel EXCEPT !.held = capture_held(capture)]
           admitted == Admitted(a, capture, held, places)
           inserted == insert_committed(admitted, capture.events, Pending(capture.events, places))
           listed == {s \in Subjects : HasHistory(inserted.histories[s])}
           settled == Settles(inserted, listed, [s \in Subjects |-> 0])
           built == build_model_events(a, capture, places)
           model == build_model(a, capture)
<1>1. ~Corrupt.ok
  BY DEF Corrupt
<1>2. model = built
  <2>1. model \in {built, Corrupt}
    BY Zenon DEF build_model, Validated
  <2> HIDE DEF model, built
  <2> QED
    BY <1>1, <2>1 DEF model
<1> HIDE DEF places
<1>3. built # Corrupt
  BY <1>1, <1>2
<1>4. built = settled /\ admitted.binding # 0 /\ admitted.ok /\ inserted.ok
  BY <1>3, Zenon DEF build_model_events, places
<1>5. settled # Corrupt /\ inserted # Corrupt /\ admitted # Corrupt
  BY <1>1, <1>3, <1>4
<1>6. DOMAIN held = ModelFields
  BY ModelDomain
<1> HIDE DEF held
<1>7. AdmittedAs(capture.events, held, places, admitted)
  BY <1>5, <1>6, AdmittedFields, Zenon
<1>8. DOMAIN admitted = ModelFields
  BY <1>7 DEF AdmittedAs
<1> HIDE DEF admitted
<1>9. InsertedAs(capture.events, admitted, Pending(capture.events, places), inserted)
  BY <1>5, <1>8, InsertedFields, Zenon
<1>10. DOMAIN inserted = ModelFields /\ inserted.binding = admitted.binding
  BY <1>9 DEF InsertedAs
<1> HIDE DEF inserted, listed
<1>11. settled.binding = inserted.binding
  BY <1>5, <1>10 DEF Settles, ModelFields
<1> QED
  BY <1>2, <1>4, <1>10, <1>11

(* What a capture says of the tenant's binding. *)
RecoveryHolds(events, a, recovery) ==
  /\ recovery.found \in {"integrity", "none", "conflict", "bound", "unavailable"}
  /\ recovery.found = "bound" =>
       recovery.at \in DOMAIN events /\ events[recovery.at].body = BindingBody(a)
  /\ recovery.found = "conflict" =>
       \E i \in DOMAIN events : events[i].body.name = "er.binding" /\ events[i].body.authority # a

(* What is recovered of a capture the log says, now and later. *)
LEMMA RecoverHolds ==
  ASSUME NEW events, LogHolds(events), NEW capture, Continues(capture.events, events), NEW a
  PROVE  RecoveryHolds(events, a, recover_inner(a, capture))
<1> DEFINE seen == capture.events
           bindings == BindingsIn(seen)
           first == CHOOSE i \in bindings : TRUE
           observed == IF bindings = {} THEN a ELSE seen[first].body.authority
           model == build_model(observed, capture)
           recovery == recover_inner(a, capture)
<1>1. recovery = IF Cardinality(bindings) > 1 \/ ~model.ok THEN [found |-> "integrity", at |-> 0]
                 ELSE IF bindings = {} THEN [found |-> "none", at |-> 0]
                 ELSE IF observed # a THEN [found |-> "conflict", at |-> 0]
                 ELSE [found |-> "bound", at |-> model.binding]
  BY DEF recover_inner
<1>2. bindings # {} => first \in bindings
  OBVIOUS
<1> HIDE DEF first
<1>3. \A i \in bindings : i \in DOMAIN seen /\ seen[i].body.name = "er.binding"
  BY DEF BindingsIn
<1> HIDE DEF bindings
<1>4. LogHolds(seen)
  BY EarlierHolds
<1>5. ModelHolds(observed, seen, model)
  BY <1>4, BuiltHolds
<1>6. \A i \in DOMAIN seen : i \in DOMAIN events /\ events[i] = seen[i]
  BY ContinuesIn
<1>7. DOMAIN seen # {} /\ model.ok => model.binding # 0
  BY BuiltBinds
<1> HIDE DEF model, recovery, seen, observed
<1>8. CASE Cardinality(bindings) > 1 \/ ~model.ok
  <2>1. recovery.found = "integrity"
    BY <1>1, <1>8
  <2> QED
    BY <2>1 DEF RecoveryHolds, recovery
<1>9. CASE ~(Cardinality(bindings) > 1 \/ ~model.ok) /\ bindings = {}
  <2>1. recovery.found = "none"
    BY <1>1, <1>9
  <2> QED
    BY <2>1 DEF RecoveryHolds, recovery
<1>10. CASE ~(Cardinality(bindings) > 1 \/ ~model.ok) /\ bindings # {} /\ observed # a
  <2>1. recovery.found = "conflict"
    BY <1>1, <1>10
  <2>2. observed = seen[first].body.authority /\ first \in bindings
    BY <1>2, <1>10 DEF observed
  <2>3. /\ first \in DOMAIN events /\ events[first].body.name = "er.binding"
        /\ events[first].body.authority # a
    BY <1>3, <1>6, <1>10, <2>2
  <2> QED
    BY <2>1, <2>3 DEF RecoveryHolds, recovery
<1>11. CASE ~(Cardinality(bindings) > 1 \/ ~model.ok) /\ bindings # {} /\ observed = a
  <2>1. recovery = [found |-> "bound", at |-> model.binding] /\ model.ok
    BY <1>1, <1>11
  <2>2. recovery.found = "bound" /\ recovery.at = model.binding
    BY <2>1
  <2>3. model.binding # 0
    BY <1>2, <1>3, <1>7, <1>11, <2>1
  <2>4. model.binding \in DOMAIN seen /\ seen[model.binding].body = BindingBody(a)
    BY <1>5, <1>11, <2>1, <2>3 DEF ModelHolds
  <2>5. model.binding \in DOMAIN events /\ events[model.binding].body = BindingBody(a)
    BY <1>6, <2>4
  <2> QED
    BY <2>2, <2>5 DEF RecoveryHolds, recovery
<1> QED
  BY <1>8, <1>9, <1>10, <1>11

(* A provisioner that asks what became of its own is told the truth: where *)
(* another authority is bound, its own binding is not and cannot be.       *)
LEMMA ProvisionHolds ==
  ASSUME NEW events, LogHolds(events), NEW waiting, NEW k, Reading(events, waiting, k),
         k.op.kind = "provision", NEW recovery, RecoveryHolds(events, k.op.authority, recovery)
  PROVE  Goes(events, waiting, k, Provision(k, recovery))
<1> DEFINE op == k.op
           bound(replayed) == Settlement("bound", recovery.at, replayed)
           n == Provision(k, recovery)
<1>1. Mine(events, waiting, k) /\ OpHolds(op) /\ k.answer = NoAnswer
  BY DEF Reading
<1>2. Goes(events, waiting, k, Answers(k, Uncertain))
  BY <1>1, Modestly, AnswerFields DEF Claims
<1>3. ASSUME NEW replayed, recovery.found = "bound"
      PROVE  Goes(events, waiting, k, Answers(k, bound(replayed)))
  <2> DEFINE answer == bound(replayed)
  <2>1. answer.status = "bound" /\ answer.receipt = recovery.at
    BY DEF Settlement, NoAnswer
  <2> HIDE DEF answer
  <2>2. AnswerHolds(events, waiting, op, k.id, answer)
    BY <1>3, <2>1 DEF AnswerHolds, RecoveryHolds
  <2>3. Goes(events, waiting, k, Answers(k, answer))
    BY <1>1, <2>2, AnswersHold
  <2> QED
    BY <2>3 DEF answer
<1>4. ASSUME NEW why, Unwritten(events, waiting, k.id)
      PROVE  Goes(events, waiting, k, Answers(k, NotCommitted(why)))
  BY <1>1, <1>4, Refuses, AnswerFields
<1>5. CASE k.goal = "plan"
  <2>1. Unwritten(events, waiting, k.id)
    BY <1>5 DEF Reading
  <2> DEFINE group == binding_group(op.authority)
  <2>2. GroupHolds(op, << >>, group) /\ op.kind \in Writes
    BY DEF GroupHolds, Writes
  <2> HIDE DEF group
  <2>3. Goes(events, waiting, k, Sends(k, group, << >>))
    BY <1>1, <2>1, <2>2, SendsHold
  <2>4. n = IF recovery.found = "bound" THEN Answers(k, bound(TRUE))
            ELSE IF recovery.found = "none" THEN Sends(k, group, << >>)
            ELSE IF recovery.found = "unavailable" THEN Answers(k, Uncertain)
            ELSE Answers(k, NotCommitted(recovery.found))
    BY <1>5, Zenon DEF Provision, group
  <2> HIDE DEF n
  <2> QED
    BY <1>2, <1>3, <1>4, <2>1, <2>3, <2>4, Zenon DEF n
<1>6. CASE k.goal = "confirm"
  <2>1. \/ n = Answers(k, Uncertain)
        \/ recovery.found = "bound" /\ n = Answers(k, bound(k.result.answer = "deduplicated"))
    BY <1>6, Zenon DEF Provision
  <2> HIDE DEF n
  <2> QED
    BY <1>2, <1>3, <2>1, Zenon DEF n
<1>7. CASE k.goal = "unknown"
  <2>1. \/ recovery.found = "bound" /\ n = Answers(k, bound(TRUE))
        \/ recovery.found = "conflict" /\ n = Answers(k, NotCommitted("conflict"))
        \/ n = Answers(k, Uncertain)
    BY <1>7 DEF Provision
  <2> HIDE DEF n
  <2>2. ASSUME recovery.found = "conflict"
        PROVE  Goes(events, waiting, k, Answers(k, NotCommitted("conflict")))
    <3>1. PICK i \in DOMAIN events :
            events[i].body.name = "er.binding" /\ events[i].body.authority # op.authority
      BY <2>2 DEF RecoveryHolds
    <3>2. BindingsIn(events) # {}
      BY <3>1 DEF BindingsIn
    <3>3. Silent(events, k.id)
      <4> SUFFICES ASSUME NEW j \in DOMAIN events, events[j].request_id = k.id PROVE FALSE
        BY DEF Silent
      <4>1. events[j].body = BindingBody(op.authority)
        BY <1>1 DEF Mine, BindsOwn
      <4>2. events[j].body.name = "er.binding" /\ events[j].body.authority = op.authority
        BY <4>1 DEF BindingBody
      <4>3. i = j
        BY <3>1, <4>2 DEF LogHolds
      <4> QED
        BY <3>1, <4>2, <4>3
    <3>4. \/ waiting = None \/ waiting.id # k.id
          \/ waiting.op.kind = "provision" /\ BindingsIn(events) # {}
      BY <1>1, <3>2 DEF Mine
    <3> DEFINE answer == NotCommitted("conflict")
    <3>5. answer.status = "not_committed"
      BY AnswerFields
    <3> HIDE DEF answer
    <3>6. AnswerHolds(events, waiting, op, k.id, answer)
      BY <3>3, <3>4, <3>5 DEF AnswerHolds
    <3>7. Goes(events, waiting, k, Answers(k, answer))
      BY <1>1, <3>6, AnswersHold
    <3> QED
      BY <3>7 DEF answer
  <2> QED
    BY <1>2, <1>3, <2>1, <2>2, Zenon DEF n
<1>8. CASE k.goal \in {"conflict", "mismatch"}
  <2>1. Unwritten(events, waiting, k.id)
    BY <1>8 DEF Reading
  <2>2. \/ recovery.found = "bound" /\ n = Answers(k, bound(TRUE))
        \/ n = Answers(k, Uncertain)
        \/ \E why : n = Answers(k, NotCommitted(why))
    BY <1>8 DEF Provision
  <2> HIDE DEF n
  <2> QED
    BY <1>2, <1>3, <1>4, <2>1, <2>2, Zenon DEF n
<1> QED
  BY <1>5, <1>6, <1>7, <1>8 DEF Reading

-----------------------------------------------------------------------------
(* A call that is served a model. *)

(* Whatever a call does with a model is as true as the model. *)
LEMMA ContinueHolds ==
  ASSUME NEW seen, NEW events, NEW waiting, NEW k, Reading(events, waiting, k), NEW model,
         Sees(seen, events, Authority(k.op), model),
         k.op.kind \in {"import", "imports"} /\ model.ok => seen = k.capture.events,
         NEW handle
  PROVE  Goes(events, waiting, k, Continue(k, handle, model))
<1>1. Mine(events, waiting, k)
  BY DEF Reading
<1>2. CASE k.op.kind = "append" /\ k.goal = "plan"
  <2>1. Continue(k, handle, model) = PlanAppend(k, handle, model)
    BY <1>2 DEF Continue, Unsettled
  <2> QED
    BY <1>2, <2>1, PlanAppendHolds
<1>3. CASE k.op.kind = "append" /\ k.goal = "confirm"
  <2>1. Continue(k, handle, model) = ConfirmAppend(k, model)
    BY <1>3 DEF Continue, Unsettled
  <2> QED
    BY <1>3, <2>1, ConfirmAppendHolds
<1>4. CASE k.op.kind = "append" /\ k.goal \in Unsettled
  <2>1. Continue(k, handle, model) = ResolveAppend(k, model)
    BY <1>4 DEF Continue, Unsettled
  <2> QED
    BY <1>4, <2>1, ResolveAppendHolds DEF Unsettled
<1>5. CASE k.op.kind \in {"import", "imports"} /\ k.goal = "plan"
  <2>1. Continue(k, handle, model) = PlanImport(k, model)
    BY <1>5 DEF Continue, Unsettled
  <2>2. model.ok => seen = k.capture.events
    BY <1>5
  <2> QED
    BY <1>5, <2>1, <2>2, PlanImportHolds
<1>6. CASE k.op.kind \in {"import", "imports"} /\ k.goal = "confirm"
  <2>1. Continue(k, handle, model) = ConfirmImport(k, model)
    BY <1>6 DEF Continue, Unsettled
  <2>2. model.ok => seen = k.capture.events
    BY <1>6
  <2> QED
    BY <1>6, <2>1, <2>2, ConfirmImportHolds
<1>7. CASE k.op.kind \in {"import", "imports"} /\ k.goal \in Unsettled
  <2>1. Continue(k, handle, model) = ResolveImport(k, model)
    BY <1>7 DEF Continue, Unsettled
  <2>2. model.ok => seen = k.capture.events
    BY <1>7
  <2> QED
    BY <1>7, <2>1, <2>2, ResolveImportHolds DEF Unsettled
<1>8. CASE k.op.kind \notin {"append", "import", "imports"}
  <2>1. \E answer : /\ answer \in {Settlement("read", None, FALSE), Failed("unreadable")}
                    /\ Continue(k, handle, model) = Answers(k, answer)
    BY <1>8 DEF Continue, Unsettled
  <2>2. \A answer \in {Settlement("read", None, FALSE), Failed("unreadable")} :
          answer.status \notin Claims
    BY DEF Settlement, Failed, NoAnswer, Claims
  <2> QED
    BY <1>1, <2>1, <2>2, Modestly
<1> QED
  BY <1>2, <1>3, <1>4, <1>5, <1>6, <1>7, <1>8 DEF Reading, Unsettled

-----------------------------------------------------------------------------
(* Steps. *)

(* What a step leaves to the log, to the handles and to what waits. *)
LeavesRest ==
  /\ DOMAIN log' = DOMAIN EmptyLog /\ LogHolds(log'.events)
  /\ \A i \in DOMAIN log'.events : log'.events[i].request_id \in 0 .. begun'
  /\ handles' = [h \in Handles |-> handles'[h]]
  /\ \A h \in Handles : HandleHolds(log'.events, HandleAuthority[h], handles'[h])
  /\ LateHolds(late', begun')

(* What it leaves to the other calls. *)
LeavesOthers(c) == \A d \in Callers : d # c => CallHolds(log'.events, late', calls[d])

(* A step of one call keeps the invariant when every other call still      *)
(* holds, and the numbers of calls stay apart.                             *)
LEMMA CallSteps ==
  ASSUME AdapterInvariant, NEW c \in Callers, NEW n, calls' = [calls EXCEPT ![c] = n],
         begun' \in {begun, begun + 1}, n.id = calls[c].id \/ (n.id = begun + 1 /\ begun' = begun + 1),
         LeavesRest, LeavesOthers(c), CallHolds(log'.events, late', n)
  PROVE  AdapterInvariant'
<1>1. /\ begun \in Nat /\ calls = [d \in Callers |-> calls[d]]
      /\ \A d \in Callers : calls[d].id \in 0 .. begun
      /\ \A d, e \in Callers : d # e => calls[d].id = 0 \/ calls[d].id # calls[e].id
  BY Zenon DEF AdapterInvariant
<1>2. /\ calls' = [d \in Callers |-> calls'[d]]
      /\ calls'[c] = n /\ \A d \in Callers : d # c => calls'[d] = calls[d]
  BY <1>1
<1>3. begun' \in Nat /\ \A d \in Callers : calls'[d].id \in 0 .. begun'
  BY <1>1, <1>2
<1>4. \A d \in Callers : CallHolds(log'.events, late', calls'[d])
  BY <1>2 DEF LeavesOthers
<1>5. \A d, e \in Callers : d # e => calls'[d].id = 0 \/ calls'[d].id # calls'[e].id
  BY <1>1, <1>2
<1> QED
  BY <1>2, <1>3, <1>4, <1>5, Zenon DEF AdapterInvariant, LeavesRest

(* The log and what waits are left alone by every step that neither writes *)
(* nor begins a call.                                                      *)
LEMMA CallMoves ==
  ASSUME AdapterInvariant, NEW c \in Callers, NEW n, calls' = [calls EXCEPT ![c] = n],
         n.id = calls[c].id, CallHolds(log.events, late, n),
         UNCHANGED <<late, begun>>, DOMAIN log' = DOMAIN EmptyLog, log'.events = log.events,
         handles' = [h \in Handles |-> handles'[h]],
         \A h \in Handles : HandleHolds(log.events, HandleAuthority[h], handles'[h])
  PROVE  AdapterInvariant'
<1>1. /\ LogHolds(log.events) /\ LateHolds(late, begun)
      /\ \A i \in DOMAIN log.events : log.events[i].request_id \in 0 .. begun
      /\ \A d \in Callers : CallHolds(log.events, late, calls[d])
  BY DEF AdapterInvariant
<1>2. begun' \in {begun, begun + 1}
  OBVIOUS
<1>3. LeavesRest
  BY <1>1 DEF LeavesRest
<1>4. LeavesOthers(c) /\ CallHolds(log'.events, late', n)
  BY <1>1 DEF LeavesOthers
<1> QED
  BY <1>2, <1>3, <1>4, CallSteps

(* The same, the log and the handles left as they are. *)
LEMMA CallGoes ==
  ASSUME AdapterInvariant, NEW c \in Callers, NEW n, calls' = [calls EXCEPT ![c] = n],
         n.id = calls[c].id, CallHolds(log.events, late, n), UNCHANGED <<log, handles, late, begun>>
  PROVE  AdapterInvariant'
<1>1. /\ handles = [h \in Handles |-> handles[h]] /\ DOMAIN log = DOMAIN EmptyLog
      /\ \A h \in Handles : HandleHolds(log.events, HandleAuthority[h], handles[h])
  BY Zenon DEF AdapterInvariant
<1>2. log' = log /\ handles' = handles
  OBVIOUS
<1> QED
  BY <1>1, <1>2, CallMoves

(* What the invariant says of one call. *)
LEMMA OneCall ==
  ASSUME AdapterInvariant, NEW c \in Callers
  PROVE  /\ LogHolds(log.events) /\ DOMAIN log = DOMAIN EmptyLog
         /\ calls[c].id \in Nat /\ calls[c].id <= begun /\ begun \in Nat
         /\ CallHolds(log.events, late, calls[c])
         /\ calls[c].pc # "idle" =>
              /\ CallKnows(log.events, calls[c]) /\ Mine(log.events, late, calls[c])
<1>1. /\ begun \in Nat /\ calls[c].id \in 0 .. begun /\ LogHolds(log.events)
      /\ DOMAIN log = DOMAIN EmptyLog /\ CallHolds(log.events, late, calls[c])
  BY DEF AdapterInvariant
<1>2. calls[c].id \in Nat /\ calls[c].id <= begun
  BY <1>1
<1>3. ASSUME calls[c].pc # "idle"
      PROVE  CallKnows(log.events, calls[c]) /\ Mine(log.events, late, calls[c])
  BY <1>1, <1>2, <1>3, CallDomain DEF CallHolds, Mine
<1> QED
  BY <1>1, <1>2, <1>3

(* A write of a call is of its group. *)
LEMMA Writing ==
  ASSUME NEW k, k.op.kind \in Writes
  PROVE  Wrote(log, k.group, k.id, Written(k))
<1>1. GuardOf(log.rows, k) \in Verdicts
  BY GuardSays
<1>2. CASE setup.atomic_blobs /\ k.op.kind # "refuse"
  <2> DEFINE w == append_group_guarded_with_blobs(log, k.group, GuardOf(log.rows, k),
                    ToSet(Uploads(k.group)), k.id, Len(log.events))
  <2>1. Written(k) = w
    BY <1>2 DEF Written
  <2>2. Published(log, k.group, k.id, Len(log.events), w) \/ Quiet(log, k.group, w)
    BY <1>1, WithBlobsCases
  <2> HIDE DEF w
  <2> QED
    BY <2>1, <2>2 DEF Wrote
<1>3. CASE ~(setup.atomic_blobs /\ k.op.kind # "refuse")
  <2> DEFINE w == append_group_guarded(log, k.group, GuardOf(log.rows, k), k.id, Len(log.events))
  <2>1. Written(k) = w
    BY <1>3 DEF Written
  <2>2. Published(log, k.group, k.id, Len(log.events), w) \/ Quiet(log, k.group, w)
    BY <1>1, GuardedCases
  <2> HIDE DEF w
  <2> QED
    BY <2>1, <2>2 DEF Wrote
<1> QED
  BY <1>2, <1>3

(* A write answered "ok" or "deduplicated" is recorded under its command. *)
LEMMA WroteRecords ==
  ASSUME NEW tenant, LogHolds(tenant.events), NEW group, WellFormed(group), 1 \in DOMAIN group.appends,
         NEW id, NEW w, Wrote(tenant, group, id, w), w.answer \in {"ok", "deduplicated"}
  PROVE  \E i \in DOMAIN w.log.events :
           w.log.events[i].command = group.command /\ w.log.events[i].hash = group.hash
<1>1. Sequence(tenant.events) /\ Sequence(group.appends)
  BY DEF LogHolds, WellFormed
<1>2. CASE Published(tenant, group, id, Len(tenant.events), w)
  BY <1>1, <1>2, PublishedFacts
<1>3. CASE Quiet(tenant, group, w)
  BY <1>3 DEF Quiet
<1> QED
  BY <1>2, <1>3 DEF Wrote

(* The stream of a refusal holds that refusal alone. *)
LEMMA RefusalStream ==
  ASSUME NEW events, LogHolds(events), NEW a, NEW refusal,
         OfStream(events, StreamOf(RefusalBody(a, refusal))) # {}
  PROVE  InLog(events, RefusalBody(a, refusal))
<1>1. PICK i \in DOMAIN events : StreamOf(events[i].body) = StreamOf(RefusalBody(a, refusal))
  BY DEF OfStream
<1> DEFINE body == events[i].body
<1>2. StreamOf(RefusalBody(a, refusal)) = <<"er.refusal", <<"refusal", a, refusal>>>>
  BY DEF StreamOf, RefusalBody, RefusalBlob
<1>3. EventHolds(events[i])
  BY DEF LogHolds
<1> HIDE DEF body
<1>4. CASE body.name = "er.refused_request"
  <2>1. StreamOf(body) = <<"er.refusal", <<"refusal", body.authority, body.refusal>>>>
    BY <1>4 DEF StreamOf, RefusalBlob
  <2>2. body.authority = a /\ body.refusal = refusal
    BY <1>1, <1>2, <2>1 DEF body
  <2>3. body = RefusalBody(a, refusal)
    BY <1>3, <1>4, <2>2 DEF EventHolds, body
  <2> QED
    BY <2>3 DEF InLog, body
<1>5. CASE body.name = "er.binding"
  <2>1. StreamOf(body) = <<"er.binding">>
    BY <1>5 DEF StreamOf
  <2> QED
    BY <1>1, <1>2, <2>1 DEF body
<1>6. CASE body.name = "er.recorded_entry"
  <2>1. StreamOf(body) = <<"er.subject", body.authority, EntrySubject(MemberOf(body).entry)>>
    BY <1>6 DEF StreamOf
  <2> QED
    BY <1>1, <1>2, <2>1 DEF body
<1>7. CASE body.name = "er.import_anchor"
  <2>1. StreamOf(body) = <<"er.subject", body.authority, body.import.anchor.subject>>
    BY <1>7 DEF StreamOf
  <2> QED
    BY <1>1, <1>2, <2>1 DEF body
<1> QED
  BY <1>3, <1>4, <1>5, <1>6, <1>7 DEF EventHolds, Names, body

-----------------------------------------------------------------------------
(* Writing. *)

(* An append that is recorded is recorded for the call that asked. *)
LEMMA AppendHeard ==
  ASSUME NEW tenant, LogHolds(tenant.events), NEW op, OpHolds(op), op.kind = "append",
         NEW pending, NEW group, GroupHolds(op, pending, group), NEW id,
         NEW w, Wrote(tenant, group, id, w), w.answer \in {"ok", "deduplicated"}
  PROVE  RecordedFor(w.log.events, Authority(op), op.key, op.members)
<1>1. AppendGroupHolds(Authority(op), op.key, op.members, group)
  BY DEF GroupHolds
<1>2. WellFormed(group)
  BY <1>1, AppendWellFormed
<1>3. 1 \in DOMAIN op.members
  <2>1. op.members \in Seq(AppendMember) /\ op.members # << >>
    BY DEF OpHolds
  <2> QED
    BY <2>1
<1>4. 1 \in DOMAIN group.appends
  BY <1>1, <1>3 DEF AppendGroupHolds
<1>5. \E i \in DOMAIN w.log.events :
        w.log.events[i].command = group.command /\ w.log.events[i].hash = group.hash
  BY <1>2, <1>4, WroteRecords
<1> QED
  BY <1>1, <1>5 DEF AppendGroupHolds, RecordedFor

(* A refusal that is recorded, or whose stream exists, is in the log. *)
LEMMA RefusalHeard ==
  ASSUME NEW tenant, LogHolds(tenant.events), NEW op, op.kind = "refuse", NEW pending, NEW group,
         GroupHolds(op, pending, group), NEW id, NEW w, Wrote(tenant, group, id, w),
         w.answer \in {"ok", "deduplicated", "conflict"}
  PROVE  InLog(w.log.events, RefusalBody(Authority(op), op.refusal))
<1> DEFINE a == Authority(op)
           body == RefusalBody(a, op.refusal)
           one == Append1(body, 0)
<1>1. group = refusal_group(a, op.refusal)
  BY DEF GroupHolds
<1>2. group.command = <<"refusal", a, op.refusal>> /\ group.appends = <<one>>
  BY <1>1 DEF refusal_group, Group
<1>3. one.expected = 0 /\ one.body = body
  BY DEF Append1
<1> HIDE DEF a, body, one
<1>4. Sequence(group.appends) /\ DOMAIN group.appends = {1} /\ group.appends[1] = one
  BY <1>2, OneAppend
<1>5. WellFormed(group)
  BY <1>1, RefusalWellFormed
<1>6. CASE w.answer \in {"ok", "deduplicated"}
  <2>1. PICK i \in DOMAIN w.log.events : w.log.events[i].command = group.command
    BY <1>4, <1>5, <1>6, WroteRecords
  <2>2. LogHolds(w.log.events)
    BY <1>5, WroteHolds
  <2>3. w.log.events[i].body = RefusalBody(a, op.refusal)
    BY <1>2, <2>1, <2>2 DEF LogHolds, EventHolds
  <2> QED
    BY <2>3 DEF InLog, a
<1>7. CASE w.answer = "conflict"
  <2>1. w.log = tenant /\ ~VersionsAgree(tenant, group.appends)
    BY <1>7 DEF Wrote, Published, Quiet
  <2>2. \A j \in 1 .. 0 : FALSE
    OBVIOUS
  <2> DEFINE before == {j \in 1 .. 1 - 1 : StreamOf(group.appends[j].body) = StreamOf(group.appends[1].body)}
             mine == OfStream(tenant.events, StreamOf(group.appends[1].body))
  <2>3. before = {}
    BY <2>2
  <2>4. Cardinality(before) = 0
    BY <2>3, FS_EmptySet
  <2>5. 0 # Cardinality(mine) + Cardinality(before)
    BY <1>3, <1>4, <2>1 DEF VersionsAgree
  <2> HIDE DEF before
  <2>6. mine # {}
    BY <2>4, <2>5, FS_EmptySet
  <2>7. OfStream(tenant.events, StreamOf(RefusalBody(a, op.refusal))) # {}
    BY <1>3, <1>4, <2>6 DEF body
  <2>8. InLog(tenant.events, RefusalBody(a, op.refusal))
    BY <2>7, RefusalStream
  <2> QED
    BY <2>1, <2>8 DEF a
<1> QED
  BY <1>6, <1>7

(* A call that has written waits for its reply, and hears it or not. *)
LEMMA HearsHold ==
  ASSUME NEW tenant, LogHolds(tenant.events), NEW waiting, NEW k,
         CallHolds(tenant.events, waiting, k), k.id \in Nat, k.pc \in {"write", "probe"},
         NEW w, Wrote(tenant, k.group, k.id, w), NEW answer \in {w.answer, "unknown"}, NEW after,
         \/ after = waiting
         \/ answer = "unknown" /\ after.op = k.op,
         NEW at
  PROVE  CallHolds(w.log.events, after, Hears(k, answer, at)) /\ Hears(k, answer, at).id = k.id
<1> DEFINE n == Hears(k, answer, at)
           old == tenant.events
           new == w.log.events
<1>1. /\ CallKnows(old, k) /\ k.id # 0 /\ DOMAIN k = CallFields
      /\ BindsOwn(old, k) /\ Unwritten(old, waiting, k.id)
      /\ waiting # None /\ waiting.id = k.id => waiting.op = k.op
  BY CallDomain DEF CallHolds, Unpublished, WriteSteps
<1>2. /\ k.op.kind \in Writes /\ GroupHolds(k.op, k.pending, k.group) /\ OpHolds(k.op)
      /\ k.op.kind \in {"import", "imports"} => PendingHolds(old, k.op, k.pending)
      /\ k.answer = NoAnswer
  BY <1>1 DEF CallKnows, WriteSteps
<1>3. WellFormed(k.group)
  BY <1>2, GroupWellFormed
<1>4. Continues(old, new)
  BY <1>3, WroteHolds
<1>5. /\ SameCall(k, n) /\ n.pc = "reply" /\ n.result.answer = answer /\ n.group = k.group
      /\ n.pending = k.pending /\ n.answer = NoAnswer
  BY <1>1, <1>2 DEF Hears, SameCall, CallFields
<1> HIDE DEF n
<1>6. BindsOwn(new, n)
  <2>1. BindsOwn(new, k)
    BY <1>1, <1>2, BindsStill
  <2> QED
    BY <1>5, <2>1 DEF BindsOwn, SameCall
<1>7. n.op.kind = "append" /\ answer \in {"ok", "deduplicated"} =>
        RecordedFor(new, Authority(n.op), n.op.key, n.op.members)
  <2> SUFFICES ASSUME k.op.kind = "append", w.answer \in {"ok", "deduplicated"}
               PROVE  RecordedFor(new, Authority(k.op), k.op.key, k.op.members)
    BY <1>5 DEF SameCall
  <2> QED
    BY <1>2, AppendHeard
<1>8. n.op.kind = "refuse" /\ answer \in {"ok", "deduplicated", "conflict"} =>
        InLog(new, RefusalBody(Authority(n.op), n.op.refusal))
  <2> SUFFICES ASSUME k.op.kind = "refuse", w.answer \in {"ok", "deduplicated", "conflict"}
               PROVE  InLog(new, RefusalBody(Authority(k.op), k.op.refusal))
    BY <1>5 DEF SameCall
  <2> QED
    BY <1>2, RefusalHeard
<1>9. n.op.kind \in {"import", "imports"} => PendingHolds(new, n.op, n.pending)
  BY <1>2, <1>4, <1>5, InLogStays DEF SameCall
<1>10. CallKnows(new, n)
  BY <1>2, <1>5, <1>7, <1>8, <1>9 DEF CallKnows, SameCall, ReadSteps, WriteSteps
<1>11. Unpublished(n) => Unwritten(new, after, n.id)
  <2> SUFFICES ASSUME answer \notin {"ok", "unknown"}
               PROVE  Unwritten(new, after, k.id)
    BY <1>5 DEF Unpublished, SameCall, WriteSteps, ReadSteps
  <2>1. w.log = tenant /\ after = waiting
    BY DEF Wrote, Published, Quiet
  <2> QED
    BY <1>1, <2>1
<1>12. after # None /\ after.id = n.id => after.op = n.op
  BY <1>1, <1>5 DEF SameCall
<1>13. CallHolds(new, after, n)
  BY <1>1, <1>5, <1>6, <1>10, <1>11, <1>12, CallDomain DEF CallHolds, SameCall
<1> QED
  BY <1>5, <1>13 DEF SameCall, n

(* A call about to write, and its group. *)
LEMMA WritesOwn ==
  ASSUME AdapterInvariant, NEW c \in Callers, calls[c].pc \in WriteSteps \cup {"reply"}
  PROVE  /\ calls[c].op.kind \in Writes /\ OpHolds(calls[c].op)
         /\ GroupHolds(calls[c].op, calls[c].pending, calls[c].group)
         /\ WellFormed(calls[c].group)
         /\ calls[c].id \in 1 .. begun
<1>1. calls[c].pc # "idle"
  BY DEF WriteSteps
<1>2. /\ CallKnows(log.events, calls[c]) /\ calls[c].id # 0
      /\ calls[c].id \in Nat /\ calls[c].id <= begun /\ begun \in Nat
  BY <1>1, OneCall DEF Mine
<1>3. /\ calls[c].op.kind \in Writes /\ OpHolds(calls[c].op)
      /\ GroupHolds(calls[c].op, calls[c].pending, calls[c].group)
  BY <1>2 DEF CallKnows
<1>4. WellFormed(calls[c].group)
  BY <1>3, GroupWellFormed
<1>5. calls[c].id \in 1 .. begun
  BY <1>2
<1> QED
  BY <1>3, <1>4, <1>5

(* A write keeps what the log and the handles hold. *)
LEMMA WriteLeaves ==
  ASSUME AdapterInvariant, NEW group, WellFormed(group), NEW id \in 1 .. begun,
         NEW w, Wrote(log, group, id, w)
  PROVE  /\ DOMAIN w.log = DOMAIN EmptyLog /\ LogHolds(w.log.events)
         /\ \A i \in DOMAIN w.log.events : w.log.events[i].request_id \in 0 .. begun
         /\ \A h \in Handles : HandleHolds(w.log.events, HandleAuthority[h], handles[h])
<1>1. /\ LogHolds(log.events) /\ DOMAIN log = DOMAIN EmptyLog /\ begun \in Nat
      /\ \A i \in DOMAIN log.events : log.events[i].request_id \in 0 .. begun
      /\ \A h \in Handles : HandleHolds(log.events, HandleAuthority[h], handles[h])
  BY DEF AdapterInvariant
<1>2. /\ LogHolds(w.log.events) /\ Continues(log.events, w.log.events)
      /\ \A i \in DOMAIN w.log.events : i \notin DOMAIN log.events =>
           w.log.events[i].request_id = id
  BY <1>1, WroteHolds
<1>3. \A i \in DOMAIN log.events : w.log.events[i] = log.events[i]
  BY <1>2, ContinuesIn
<1>4. ASSUME NEW i \in DOMAIN w.log.events
      PROVE  w.log.events[i].request_id \in 0 .. begun
  <2>1. CASE i \in DOMAIN log.events
    BY <1>1, <1>3, <2>1
  <2>2. CASE i \notin DOMAIN log.events
    BY <1>1, <1>2, <2>2
  <2> QED
    BY <2>1, <2>2
<1>5. DOMAIN w.log = DOMAIN EmptyLog
  BY <1>1 DEF Wrote, Published, Quiet
<1>6. \A h \in Handles : HandleHolds(w.log.events, HandleAuthority[h], handles[h])
  BY <1>1, <1>2, HandleStays
<1> QED
  BY <1>2, <1>4, <1>5, <1>6

(* A call writes, whatever it hears; the write may be on its way still. *)
LEMMA CallWrites ==
  ASSUME AdapterInvariant, NEW c \in Callers, calls[c].pc \in {"write", "probe"},
         NEW w, Wrote(log, calls[c].group, calls[c].id, w), NEW answer \in {w.answer, "unknown"},
         NEW at, log' = w.log, calls' = [calls EXCEPT ![c] = Hears(calls[c], answer, at)],
         UNCHANGED <<handles, begun>>,
         \/ late' = late
         \/ late = None /\ late' = calls[c] /\ answer = "unknown"
  PROVE  AdapterInvariant'
<1> DEFINE k == calls[c]
           n == Hears(k, answer, at)
<1>1. /\ k.op.kind \in Writes /\ OpHolds(k.op) /\ GroupHolds(k.op, k.pending, k.group)
      /\ WellFormed(k.group) /\ k.id \in 1 .. begun
  BY WritesOwn DEF WriteSteps
<1>2. /\ LogHolds(log.events) /\ CallHolds(log.events, late, k) /\ begun \in Nat
      /\ LateHolds(late, begun) /\ handles = [h \in Handles |-> handles[h]]
      /\ \A d \in Callers : CallHolds(log.events, late, calls[d])
      /\ \A d \in Callers : d # c => calls[d].id # k.id
  <2>1. k.id # 0
    BY <1>1
  <2> QED
    BY <1>1, <2>1, Zenon DEF AdapterInvariant
<1>3. /\ DOMAIN w.log = DOMAIN EmptyLog /\ LogHolds(w.log.events)
      /\ \A i \in DOMAIN w.log.events : w.log.events[i].request_id \in 0 .. begun
      /\ \A h \in Handles : HandleHolds(w.log.events, HandleAuthority[h], handles[h])
  BY <1>1, WriteLeaves
<1>4. LateHolds(late', begun)
  BY <1>1, <1>2 DEF LateHolds
<1>5. LeavesRest
  BY <1>2, <1>3, <1>4 DEF LeavesRest
<1>6. ASSUME NEW d \in Callers, d # c, NEW after, after \in {late, None} \/ after.id # calls[d].id
      PROVE  CallHolds(w.log.events, after, calls[d])
  <2>1. CallHolds(log.events, late, calls[d]) /\ calls[d].id # k.id
    BY <1>2, <1>6
  <2> HIDE DEF k
  <2> QED
    BY SMTT(40), <1>1, <1>2, <1>6, <2>1, OthersStay DEF k
<1>7. LeavesOthers(c)
  <2>1. \A d \in Callers : d # c => late' \in {late, None} \/ late'.id # calls[d].id
    BY <1>2
  <2> QED
    BY <1>6, <2>1 DEF LeavesOthers
<1>8. ASSUME NEW after, \/ after = late
                        \/ answer = "unknown" /\ after.op = k.op
      PROVE  CallHolds(w.log.events, after, n) /\ n.id = k.id
  <2>1. k.id \in Nat
    BY <1>1, <1>2
  <2>2. after = late \/ (answer = "unknown" /\ after.op = k.op)
    BY <1>8
  <2>3. Wrote(log, k.group, k.id, w) /\ k.pc \in {"write", "probe"}
    OBVIOUS
  <2> HIDE DEF k
  <2> QED
    BY <1>2, <2>1, <2>2, <2>3, HearsHold
<1> HIDE DEF n
<1>9. calls' = [calls EXCEPT ![c] = n] /\ begun' \in {begun, begun + 1} /\ log' = w.log
  BY DEF n
<1>10. CallHolds(w.log.events, late', n) /\ n.id = k.id
  BY <1>8
<1> QED
  BY <1>5, <1>7, <1>9, <1>10, CallSteps

(* A write answered, or made and unheard. *)
LEMMA AppendGroupSafe ==
  ASSUME AdapterInvariant, NEW c \in Callers, AppendGroup(c) \/ WriteUnheard(c)
  PROVE  AdapterInvariant'
<1> DEFINE w == Written(calls[c])
<1>1. calls[c].pc = "write"
  BY DEF AppendGroup, WriteUnheard
<1>2. Wrote(log, calls[c].group, calls[c].id, w)
  BY <1>1, WritesOwn, Writing DEF WriteSteps
<1>3. log' = w.log /\ UNCHANGED <<handles, late, begun>>
  BY DEF AppendGroup, WriteUnheard
<1>4. CASE AppendGroup(c)
  <2>1. calls' = [calls EXCEPT ![c] = Hears(calls[c], w.answer, w.at)]
    BY <1>4 DEF AppendGroup
  <2> HIDE DEF w
  <2> QED
    BY <1>1, <1>2, <1>3, <2>1, CallWrites
<1>5. CASE WriteUnheard(c)
  <2>1. calls' = [calls EXCEPT ![c] = Hears(calls[c], "unknown", << >>)]
    BY <1>5 DEF WriteUnheard
  <2> HIDE DEF w
  <2> QED
    BY <1>1, <1>2, <1>3, <2>1, CallWrites
<1> QED
  BY <1>4, <1>5

(* A write that fails, or is only delayed, writes nothing yet. *)
LEMMA WriteFailsSafe ==
  ASSUME AdapterInvariant, NEW c \in Callers, WriteFails(c) \/ WriteDelayed(c)
  PROVE  AdapterInvariant'
<1> DEFINE w == Settled(log, "backend", << >>)
<1>1. w.log = log /\ w.answer = "backend"
  BY DEF Settled
<1> HIDE DEF w
<1>2. Wrote(log, calls[c].group, calls[c].id, w)
  BY <1>1 DEF Wrote, Quiet
<1>3. calls[c].pc = "write" /\ log' = w.log /\ UNCHANGED <<handles, begun>>
  BY <1>1 DEF WriteFails, WriteDelayed
<1>4. CASE WriteFails(c)
  <2>1. calls' = [calls EXCEPT ![c] = Hears(calls[c], "backend", << >>)] /\ late' = late
    BY <1>4 DEF WriteFails
  <2> QED
    BY <1>1, <1>2, <1>3, <2>1, CallWrites
<1>5. CASE WriteDelayed(c)
  <2>1. /\ calls' = [calls EXCEPT ![c] = Hears(calls[c], "unknown", << >>)]
        /\ late = None /\ late' = calls[c]
    BY <1>5 DEF WriteDelayed
  <2> QED
    BY <1>1, <1>2, <1>3, <2>1, CallWrites
<1> QED
  BY <1>4, <1>5

(* A probe admits nothing. *)
LEMMA ProbeSafe ==
  ASSUME AdapterInvariant, NEW c \in Callers, Probe(c)
  PROVE  AdapterInvariant'
<1> DEFINE group == calls[c].group
           guard == GuardOf(log.rows, calls[c])
           refusal == IF guard = "ok" THEN "provider_integrity" ELSE guard
           w == append_group_guarded(log, group, refusal, calls[c].id, Len(log.events))
<1>1. /\ calls[c].pc = "probe" /\ UNCHANGED <<log, handles, late, begun>>
      /\ calls' = [calls EXCEPT ![c] = Hears(calls[c], w.answer, w.at)]
  BY DEF Probe
<1>2. guard \in Verdicts
  BY <1>1, WritesOwn, GuardSays DEF WriteSteps
<1>3. refusal \in Verdicts /\ refusal # "ok"
  BY <1>2 DEF Verdicts
<1> HIDE DEF refusal
<1>4. Quiet(log, group, w)
  <2>1. CASE RecordedUnder(log, group.command) # {}
    BY <2>1, AnsweredQuiet, Zenon DEF append_group_guarded
  <2>2. CASE RecordedUnder(log, group.command) = {}
    BY <1>3, <2>2, RefusedQuiet, Zenon DEF append_group_guarded
  <2> QED
    BY <2>1, <2>2
<1> HIDE DEF w
<1>5. Wrote(log, calls[c].group, calls[c].id, w) /\ w.log = log
  BY <1>4 DEF Wrote, Quiet
<1> QED
  BY <1>1, <1>5, CallWrites

(* The late write lands. *)
LEMMA LandSafe ==
  ASSUME AdapterInvariant, Land
  PROVE  AdapterInvariant'
<1> DEFINE w == Written(late)
<1>1. /\ late # None /\ log' = w.log /\ late' = None /\ UNCHANGED <<handles, calls, begun>>
  BY DEF Land
<1>2. /\ late.id \in 1 .. begun /\ late.op.kind \in Writes /\ LogHolds(log.events)
      /\ GroupHolds(late.op, late.pending, late.group) /\ begun \in Nat
      /\ \A c \in Callers : CallHolds(log.events, late, calls[c])
  BY <1>1 DEF AdapterInvariant, LateHolds
<1>3. WellFormed(late.group) /\ late.id # 0
  BY <1>2, GroupWellFormed
<1>4. Wrote(log, late.group, late.id, w)
  BY <1>2, Writing
<1> HIDE DEF w
<1>5. /\ DOMAIN w.log = DOMAIN EmptyLog /\ LogHolds(w.log.events)
      /\ \A i \in DOMAIN w.log.events : w.log.events[i].request_id \in 0 .. begun
      /\ \A h \in Handles : HandleHolds(w.log.events, HandleAuthority[h], handles[h])
  BY <1>2, <1>3, <1>4, WriteLeaves
<1>6. \A c \in Callers : CallHolds(w.log.events, None, calls[c])
  BY <1>1, <1>2, <1>3, <1>4, LateStays
<1>7. LateHolds(None, begun)
  BY DEF LateHolds
<1> QED
  BY <1>1, <1>5, <1>6, <1>7, Zenon DEF AdapterInvariant

-----------------------------------------------------------------------------
(* Replies. *)

(* What a call knows that has its reply. *)
Heard(events, waiting, k) ==
  /\ Mine(events, waiting, k)
  /\ OpHolds(k.op) /\ k.answer = NoAnswer /\ k.op.kind \in Writes
  /\ GroupHolds(k.op, k.pending, k.group)
  /\ k.op.kind \in {"import", "imports"} => PendingHolds(events, k.op, k.pending)
  /\ k.result.answer \notin {"ok", "unknown"} => Unwritten(events, waiting, k.id)
  /\ k.op.kind = "append" /\ k.result.answer \in {"ok", "deduplicated"} =>
       RecordedFor(events, Authority(k.op), k.op.key, k.op.members)
  /\ k.op.kind = "refuse" /\ k.result.answer \in {"ok", "deduplicated", "conflict"} =>
       InLog(events, RefusalBody(Authority(k.op), k.op.refusal))

(* A call that has its reply knows as much. *)
LEMMA HeardOf ==
  ASSUME NEW events, NEW waiting, NEW k, CallHolds(events, waiting, k), k.id \in Nat,
         k.pc = "reply"
  PROVE  Heard(events, waiting, k)
<1>1. k.pc # "idle" /\ k.id # 0
  BY DEF CallHolds
<1>2. CallKnows(events, k) /\ Mine(events, waiting, k)
  BY <1>1, CallDomain DEF CallHolds, Mine
<1>3. k.result.answer \notin {"ok", "unknown"} => Unwritten(events, waiting, k.id)
  BY DEF CallHolds, Unpublished
<1> QED
  BY <1>2, <1>3 DEF Heard, CallKnows

(* After an append the call reads its group back, or what became of it. *)
LEMMA AppendReplyHolds ==
  ASSUME NEW events, NEW waiting, NEW k, Heard(events, waiting, k), k.op.kind = "append"
  PROVE  Goes(events, waiting, k, AppendReply(k))
<1> DEFINE answer == k.result.answer
<1>1. Mine(events, waiting, k)
  BY DEF Heard
<1>2. CASE answer \in {"ok", "deduplicated"}
  <2>1. AppendReply(k) = Scopes(k, "confirm")
    BY <1>2 DEF AppendReply
  <2>2. MayRead(events, waiting, k, "confirm")
    BY <1>2 DEF Heard, MayRead
  <2> QED
    BY <1>1, <2>1, <2>2, ScopesHold
<1>3. CASE answer = "unknown"
  <2>1. AppendReply(k) = Captures(k, "unknown")
    BY <1>3 DEF AppendReply
  <2>2. MayRead(events, waiting, k, "unknown")
    BY DEF Heard, MayRead
  <2> QED
    BY <1>1, <2>1, <2>2, CapturesHold
<1>4. CASE answer = "conflict"
  <2>1. AppendReply(k) = Captures(k, "conflict")
    BY <1>4 DEF AppendReply
  <2>2. MayRead(events, waiting, k, "conflict")
    BY <1>4 DEF Heard, MayRead
  <2> QED
    BY <1>1, <2>1, <2>2, CapturesHold
<1>5. CASE answer = "idempotency_mismatch"
  <2>1. AppendReply(k) = Captures(k, "mismatch")
    BY <1>5 DEF AppendReply
  <2>2. MayRead(events, waiting, k, "mismatch")
    BY <1>5 DEF Heard, MayRead
  <2> QED
    BY <1>1, <2>1, <2>2, CapturesHold
<1>6. CASE answer \notin {"ok", "deduplicated", "unknown", "conflict", "idempotency_mismatch"}
  <2>1. AppendReply(k) = Answers(k, NotCommitted(answer))
    BY <1>6 DEF AppendReply
  <2>2. Unwritten(events, waiting, k.id)
    BY <1>6 DEF Heard
  <2> QED
    BY <1>1, <2>1, <2>2, AnswerFields, Refuses
<1> QED
  BY <1>2, <1>3, <1>4, <1>5, <1>6

(* A refused import may be asked again, admitting nothing. *)
LEMMA ProbesHold ==
  ASSUME NEW events, NEW waiting, NEW k, Heard(events, waiting, k),
         k.result.answer \notin {"ok", "unknown"}
  PROVE  Goes(events, waiting, k, At(k, "probe", "probed"))
<1> DEFINE n == At(k, "probe", "probed")
<1>1. /\ SameCall(k, n) /\ n.pc = "probe" /\ n.answer = NoAnswer
      /\ n.group = k.group /\ n.pending = k.pending
  BY DEF At, SameCall, CallFields, Heard, Mine
<1> HIDE DEF n
<1>2. n.op = k.op /\ n.id = k.id /\ DOMAIN n = CallFields
  BY <1>1 DEF SameCall
<1>3. BindsOwn(events, n)
  BY <1>2 DEF Heard, Mine, BindsOwn
<1>4. CallKnows(events, n)
  BY <1>1, <1>2 DEF CallKnows, Heard, ReadSteps, WriteSteps
<1>5. CallHolds(events, waiting, n)
  BY <1>1, <1>2, <1>3, <1>4, CallDomain DEF CallHolds, Heard, Mine
<1>6. Goes(events, waiting, k, n)
  BY <1>1, <1>2, <1>5 DEF Goes
<1> QED
  BY <1>6 DEF n

(* After an import the destination is captured. *)
LEMMA ImportReplyHolds ==
  ASSUME NEW events, NEW waiting, NEW k, Heard(events, waiting, k),
         k.op.kind \in {"import", "imports"}
  PROVE  Goes(events, waiting, k, ImportReply(k))
<1> DEFINE answer == k.result.answer
           asks == /\ answer \in GuardRefusals /\ k.op.kind = "import" /\ setup.atomic_blobs
                   /\ k.goal # "probed"
<1>1. Mine(events, waiting, k)
  BY DEF Heard
<1>2. CASE answer \in {"ok", "deduplicated"}
  <2>1. ImportReply(k) = Captures(k, "confirm")
    BY <1>2 DEF ImportReply, GuardRefusals
  <2>2. MayRead(events, waiting, k, "confirm")
    BY <1>2 DEF Heard, MayRead
  <2> QED
    BY <1>1, <2>1, <2>2, CapturesHold
<1>3. CASE answer = "unknown"
  <2>1. ImportReply(k) = Captures(k, "unknown")
    BY <1>3 DEF ImportReply, GuardRefusals
  <2>2. MayRead(events, waiting, k, "unknown")
    BY DEF Heard, MayRead
  <2> QED
    BY <1>1, <2>1, <2>2, CapturesHold
<1>4. CASE answer \in {"conflict", "idempotency_mismatch"}
  <2>1. ImportReply(k) = Captures(k, "conflict")
    BY <1>4 DEF ImportReply, GuardRefusals
  <2>2. MayRead(events, waiting, k, "conflict")
    BY <1>4 DEF Heard, MayRead
  <2> QED
    BY <1>1, <2>1, <2>2, CapturesHold
<1>5. CASE asks
  <2>1. answer \in {"record_conflict", "revision_conflict", "provider_integrity"}
    BY <1>5 DEF GuardRefusals
  <2>2. ImportReply(k) = At(k, "probe", "probed")
    BY <1>5, <2>1 DEF ImportReply
  <2>3. answer \notin {"ok", "unknown"}
    BY <2>1
  <2> QED
    BY <2>2, <2>3, ProbesHold
<1>6. CASE /\ answer \notin {"ok", "deduplicated", "unknown", "conflict", "idempotency_mismatch"}
           /\ ~asks
  <2>1. ImportReply(k) = Answers(k, NotCommitted(answer))
    BY <1>6 DEF ImportReply
  <2>2. Unwritten(events, waiting, k.id)
    BY <1>6 DEF Heard
  <2> QED
    BY <1>1, <2>1, <2>2, AnswerFields, Refuses
<1> QED
  BY <1>2, <1>3, <1>4, <1>5, <1>6

(* After a binding the tenant is captured. *)
LEMMA ProvisionReplyHolds ==
  ASSUME NEW events, NEW waiting, NEW k, Heard(events, waiting, k), k.op.kind = "provision"
  PROVE  Goes(events, waiting, k, ProvisionReply(k))
<1> DEFINE answer == k.result.answer
           lost == {"record_conflict", "revision_conflict", "provider_integrity", "conflict",
                    "idempotency_mismatch"}
<1>1. Mine(events, waiting, k)
  BY DEF Heard
<1>2. CASE answer \in {"ok", "deduplicated"}
  <2>1. ProvisionReply(k) = Captures(k, "confirm")
    BY <1>2 DEF ProvisionReply, GuardRefusals
  <2>2. MayRead(events, waiting, k, "confirm")
    BY DEF Heard, MayRead
  <2> QED
    BY <1>1, <2>1, <2>2, CapturesHold
<1>3. CASE answer = "unknown"
  <2>1. ProvisionReply(k) = Captures(k, "unknown")
    BY <1>3 DEF ProvisionReply, GuardRefusals
  <2>2. MayRead(events, waiting, k, "unknown")
    BY DEF Heard, MayRead
  <2> QED
    BY <1>1, <2>1, <2>2, CapturesHold
<1>4. CASE answer \in lost
  <2>1. ProvisionReply(k) = Captures(k, "conflict")
    BY <1>4 DEF ProvisionReply, GuardRefusals
  <2>2. MayRead(events, waiting, k, "conflict")
    BY <1>4 DEF Heard, MayRead
  <2> QED
    BY <1>1, <2>1, <2>2, CapturesHold
<1>5. CASE answer \notin {"ok", "deduplicated", "unknown"} \cup lost
  <2>1. ProvisionReply(k) = Answers(k, NotCommitted(answer))
    BY <1>5 DEF ProvisionReply, GuardRefusals
  <2>2. Unwritten(events, waiting, k.id)
    BY <1>5 DEF Heard
  <2> QED
    BY <1>1, <2>1, <2>2, AnswerFields, Refuses
<1> QED
  BY <1>2, <1>3, <1>4, <1>5

(* A refusal that is recorded, or was before, is said to be. *)
LEMMA RefusalReplyHolds ==
  ASSUME NEW events, NEW waiting, NEW k, Heard(events, waiting, k), k.op.kind = "refuse"
  PROVE  Goes(events, waiting, k, RefusalReply(k))
<1> DEFINE answer == k.result.answer
<1>1. Mine(events, waiting, k)
  BY DEF Heard
<1>2. CASE answer \in {"ok", "deduplicated", "conflict"}
  <2> DEFINE said == Settlement("recorded", None, answer # "ok")
  <2>1. RefusalReply(k) = Answers(k, said)
    BY <1>2 DEF RefusalReply
  <2>2. said.status = "recorded"
    BY DEF Settlement, NoAnswer
  <2> HIDE DEF said
  <2>3. AnswerHolds(events, waiting, k.op, k.id, said)
    BY <1>2, <2>2 DEF Heard, AnswerHolds
  <2> QED
    BY <1>1, <2>1, <2>3, AnswersHold
<1>3. CASE answer \notin {"ok", "deduplicated", "conflict"}
  <2>1. RefusalReply(k) = Answers(k, Failed("backend"))
    BY <1>3 DEF RefusalReply
  <2> QED
    BY <1>1, <2>1, AnswerFields, Modestly DEF Claims
<1> QED
  BY <1>2, <1>3

(* What a handle learns of a write leaves what it has verified. *)
LEMMA LearnsHold ==
  ASSUME NEW a, NEW events, NEW handle, HandleHolds(events, a, handle), NEW k
  PROVE  HandleHolds(events, a, Learns(handle, k)) /\ HandleHolds(events, a, Remembers(handle, k))
<1>1. DOMAIN handle = HandleFields
  BY HandleDomain DEF HandleHolds
<1>2. HandleHolds(events, a, Learns(handle, k))
  <2> DEFINE after == Learns(handle, k)
  <2>1. DOMAIN after = HandleFields /\ after.verified = handle.verified
    BY <1>1 DEF Learns, HandleFields
  <2> HIDE DEF after
  <2>2. HandleHolds(events, a, after)
    BY <2>1, HandleSame
  <2> QED
    BY <2>2 DEF after
<1>3. HandleHolds(events, a, Remembers(handle, k))
  <2> DEFINE after == Remembers(handle, k)
  <2>1. DOMAIN after = HandleFields /\ after.verified = handle.verified
    BY <1>1 DEF Remembers, HandleFields
  <2> HIDE DEF after
  <2>2. HandleHolds(events, a, after)
    BY <2>1, HandleSame
  <2> QED
    BY <2>2 DEF after
<1> QED
  BY <1>2, <1>3

(* One handle changes. *)
LEMMA HandlesHold ==
  ASSUME AdapterInvariant, NEW h, NEW handle, handles' = [handles EXCEPT ![h] = handle],
         h \in Handles => HandleHolds(log.events, HandleAuthority[h], handle)
  PROVE  /\ handles' = [x \in Handles |-> handles'[x]]
         /\ \A x \in Handles : HandleHolds(log.events, HandleAuthority[x], handles'[x])
<1>1. /\ handles = [x \in Handles |-> handles[x]]
      /\ \A x \in Handles : HandleHolds(log.events, HandleAuthority[x], handles[x])
  BY Zenon DEF AdapterInvariant
<1>2. /\ handles' = [x \in Handles |-> handles'[x]]
      /\ \A x \in Handles : handles'[x] = IF x = h THEN handle ELSE handles[x]
  BY <1>1
<1> QED
  BY <1>1, <1>2

(* A call hears its reply. *)
LEMMA ReplySafe ==
  ASSUME AdapterInvariant, NEW c \in Callers, Reply(c)
  PROVE  AdapterInvariant'
<1> DEFINE k == calls[c]
<1>1. k.pc = "reply" /\ UNCHANGED <<log, late, begun>>
  BY DEF Reply
<1>2. CallHolds(log.events, late, k) /\ k.id \in Nat /\ DOMAIN log = DOMAIN EmptyLog
  BY OneCall
<1>3. Heard(log.events, late, k)
  BY <1>1, <1>2, HeardOf
<1>4. \A h \in Handles : HandleHolds(log.events, HandleAuthority[h], handles[h])
  BY DEF AdapterInvariant
<1>5. k.op.kind \in Writes
  BY <1>3 DEF Heard
<1> HIDE DEF k
<1>6. ASSUME NEW n, Goes(log.events, late, k, n), calls' = [calls EXCEPT ![c] = n],
             handles' = [x \in Handles |-> handles'[x]],
             \A x \in Handles : HandleHolds(log.events, HandleAuthority[x], handles'[x])
      PROVE  AdapterInvariant'
  <2>1. CallHolds(log.events, late, n) /\ n.id = calls[c].id
    BY <1>6 DEF Goes, k
  <2>2. DOMAIN log' = DOMAIN EmptyLog /\ log'.events = log.events /\ UNCHANGED <<late, begun>>
    BY <1>1, <1>2
  <2> QED
    BY <1>6, <2>1, <2>2, CallMoves
<1>7. CASE k.op.kind = "append"
  <2>1. /\ calls' = [calls EXCEPT ![c] = AppendReply(k)]
        /\ handles' = [handles EXCEPT ![k.op.handle] = Learns(handles[k.op.handle], k)]
    BY <1>7 DEF Reply, k
  <2>2. k.op.handle \in Handles =>
          HandleHolds(log.events, HandleAuthority[k.op.handle], Learns(handles[k.op.handle], k))
    BY <1>4, LearnsHold
  <2>3. /\ handles' = [x \in Handles |-> handles'[x]]
        /\ \A x \in Handles : HandleHolds(log.events, HandleAuthority[x], handles'[x])
    BY <2>1, <2>2, HandlesHold
  <2>4. Goes(log.events, late, k, AppendReply(k))
    BY <1>3, <1>7, AppendReplyHolds
  <2> QED
    BY <1>6, <2>1, <2>3, <2>4
<1>8. CASE k.op.kind \in {"import", "imports"}
  <2>1. /\ calls' = [calls EXCEPT ![c] = ImportReply(k)]
        /\ handles' = [handles EXCEPT ![k.op.handle] = Remembers(handles[k.op.handle], k)]
    BY <1>8 DEF Reply, k
  <2>2. k.op.handle \in Handles =>
          HandleHolds(log.events, HandleAuthority[k.op.handle], Remembers(handles[k.op.handle], k))
    BY <1>4, LearnsHold
  <2>3. /\ handles' = [x \in Handles |-> handles'[x]]
        /\ \A x \in Handles : HandleHolds(log.events, HandleAuthority[x], handles'[x])
    BY <2>1, <2>2, HandlesHold
  <2>4. Goes(log.events, late, k, ImportReply(k))
    BY <1>3, <1>8, ImportReplyHolds
  <2> QED
    BY <1>6, <2>1, <2>3, <2>4
<1>9. ASSUME handles' = handles
      PROVE  /\ handles' = [x \in Handles |-> handles'[x]]
             /\ \A x \in Handles : HandleHolds(log.events, HandleAuthority[x], handles'[x])
  <2>1. handles = [x \in Handles |-> handles[x]]
    BY Zenon DEF AdapterInvariant
  <2> QED
    BY <1>4, <1>9, <2>1
<1>10. CASE k.op.kind = "provision"
  <2>1. calls' = [calls EXCEPT ![c] = ProvisionReply(k)] /\ handles' = handles
    BY <1>10 DEF Reply, k
  <2>2. Goes(log.events, late, k, ProvisionReply(k))
    BY <1>3, <1>10, ProvisionReplyHolds
  <2> QED
    BY <1>6, <1>9, <2>1, <2>2
<1>11. CASE k.op.kind = "refuse"
  <2>1. calls' = [calls EXCEPT ![c] = RefusalReply(k)] /\ handles' = handles
    BY <1>11 DEF Reply, k
  <2>2. Goes(log.events, late, k, RefusalReply(k))
    BY <1>3, <1>11, RefusalReplyHolds
  <2> QED
    BY <1>6, <1>9, <2>1, <2>2
<1> QED
  BY <1>5, <1>7, <1>8, <1>10, <1>11 DEF Writes

-----------------------------------------------------------------------------
(* Reading and uploading. *)

(* A call goes on by itself. *)
LEMMA GoesOn ==
  ASSUME AdapterInvariant, NEW c \in Callers, NEW n, Goes(log.events, late, calls[c], n),
         calls' = [calls EXCEPT ![c] = n], UNCHANGED <<log, handles, late, begun>>
  PROVE  AdapterInvariant'
<1>1. n.id = calls[c].id /\ CallHolds(log.events, late, n)
  BY DEF Goes
<1> QED
  BY <1>1, CallGoes

(* A call that reads, by itself. *)
LEMMA ReadingOne ==
  ASSUME AdapterInvariant, NEW c \in Callers, calls[c].pc \in ReadSteps
  PROVE  /\ Reading(log.events, late, calls[c]) /\ LogHolds(log.events)
         /\ Continues(log.events, log.events)
<1>1. CallHolds(log.events, late, calls[c]) /\ calls[c].id \in Nat /\ LogHolds(log.events)
  BY OneCall
<1>2. Sequence(log.events)
  BY <1>1 DEF LogHolds
<1> QED
  BY <1>1, <1>2, ReadingOf, ContinuesItself

(* A read that fails says nothing of the log. *)
LEMMA UnreadHolds ==
  ASSUME NEW events, LogHolds(events), NEW waiting, NEW k, Reading(events, waiting, k), NEW handle
  PROVE  Goes(events, waiting, k, Continue(k, handle, Corrupt))
<1>1. Continues(events, events)
  BY ContinuesItself DEF LogHolds
<1>2. ModelHolds(Authority(k.op), events, Corrupt) /\ ~Corrupt.ok
  BY CorruptHolds
<1>3. Sees(events, events, Authority(k.op), Corrupt)
  BY <1>1, <1>2 DEF Sees
<1> QED
  BY <1>2, <1>3, ContinueHolds

(* A scoped read that fails. *)
LEMMA ReadFailsSafe ==
  ASSUME AdapterInvariant, NEW c \in Callers, ReadFails(c)
  PROVE  AdapterInvariant'
<1> DEFINE n == Continue(calls[c], handles[calls[c].op.handle], Corrupt)
<1>1. /\ calls[c].pc \in ReadSteps /\ calls' = [calls EXCEPT ![c] = n]
      /\ UNCHANGED <<log, handles, late, begun>>
  BY DEF ReadFails, ReadSteps
<1>2. Goes(log.events, late, calls[c], n)
  BY <1>1, ReadingOne, UnreadHolds
<1> HIDE DEF n
<1> QED
  BY <1>1, <1>2, GoesOn

(* A capture that is refused. *)
LEMMA CaptureFailsSafe ==
  ASSUME AdapterInvariant, NEW c \in Callers, CaptureFails(c)
  PROVE  AdapterInvariant'
<1> DEFINE k == calls[c]
           nothing == [found |-> "unavailable", at |-> 0]
<1>1. calls[c].pc \in ReadSteps /\ UNCHANGED <<log, handles, late, begun>>
  BY DEF CaptureFails, ReadSteps
<1>2. Reading(log.events, late, k) /\ LogHolds(log.events)
  BY <1>1, ReadingOne
<1>3. CASE k.op.kind = "provision"
  <2> DEFINE n == Provision(k, nothing)
  <2>1. calls' = [calls EXCEPT ![c] = n]
    BY <1>3 DEF CaptureFails
  <2>2. RecoveryHolds(log.events, k.op.authority, nothing)
    BY DEF RecoveryHolds
  <2> HIDE DEF nothing
  <2>3. Goes(log.events, late, k, n)
    BY <1>2, <1>3, <2>2, ProvisionHolds
  <2> HIDE DEF n
  <2> QED
    BY <1>1, <2>1, <2>3, GoesOn
<1>4. CASE k.op.kind # "provision"
  <2> DEFINE n == Continue(k, handles[k.op.handle], Corrupt)
  <2>1. calls' = [calls EXCEPT ![c] = n]
    BY <1>4 DEF CaptureFails
  <2>2. Goes(log.events, late, k, n)
    BY <1>2, UnreadHolds
  <2> HIDE DEF n
  <2> QED
    BY <1>1, <2>1, <2>2, GoesOn
<1> QED
  BY <1>3, <1>4

(* A call that reads on, and what it has read. *)
LEMMA ReadsOn ==
  ASSUME NEW events, NEW waiting, NEW k, Reading(events, waiting, k), NEW n, SameCall(k, n),
         n.goal = k.goal, n.answer = k.answer, n.pending = k.pending,
         n.pc \in {"streams", "rows", "resume"},
         n.pc \in {"streams", "rows"} => k.op.kind = "append" /\ ReadHolds(events, n.read),
         n.pc = "resume" => Continues(n.capture.events, events)
  PROVE  CallHolds(events, waiting, n)
<1>1. n.op = k.op /\ n.id = k.id /\ DOMAIN n = CallFields
  BY DEF SameCall
<1>2. BindsOwn(events, n)
  BY <1>1 DEF Reading, Mine, BindsOwn
<1>3. CallKnows(events, n)
  BY <1>1 DEF CallKnows, Reading, ReadSteps, WriteSteps
<1>4. Unpublished(n) => Unwritten(events, waiting, n.id)
  BY <1>1 DEF Unpublished, Reading, WriteSteps
<1> QED
  BY <1>1, <1>2, <1>3, <1>4, CallDomain DEF CallHolds, Reading, Mine

(* One instant of the tenant is captured. *)
LEMMA CaptureSafe ==
  ASSUME AdapterInvariant, NEW c \in Callers, Capture(c)
  PROVE  AdapterInvariant'
<1> DEFINE k == calls[c]
           n == calls'[c]
<1>1. /\ k.pc = "capture" /\ UNCHANGED <<log, handles, late, begun>>
      /\ calls' = [calls EXCEPT ![c].pc = "resume", ![c].capture = log]
  BY DEF Capture
<1>2. Reading(log.events, late, k) /\ Continues(log.events, log.events)
  BY <1>1, ReadingOne DEF ReadSteps
<1>3. DOMAIN k = CallFields
  BY <1>2 DEF Reading, Mine
<1>4. calls = [d \in Callers |-> calls[d]]
  BY Zenon DEF AdapterInvariant
<1>5. calls' = [calls EXCEPT ![c] = n]
  BY <1>1, <1>4
<1>6. /\ SameCall(k, n) /\ n.goal = k.goal /\ n.answer = k.answer /\ n.pending = k.pending
      /\ n.pc = "resume" /\ n.capture = log
  BY <1>1, <1>3, <1>4 DEF SameCall, CallFields
<1> HIDE DEF n
<1>7. CallHolds(log.events, late, n)
  BY <1>2, <1>6, ReadsOn
<1>8. n.id = calls[c].id
  BY <1>6 DEF SameCall
<1> QED
  BY <1>1, <1>5, <1>7, <1>8, CallGoes

(* The rows of the named keys are read. *)
LEMMA ReadKeysSafe ==
  ASSUME AdapterInvariant, NEW c \in Callers, ReadKeys(c)
  PROVE  AdapterInvariant'
<1> DEFINE k == calls[c]
           keys == KeyRows(log.rows, k.op)
<1>1. k.pc = "keys" /\ UNCHANGED <<log, handles, late, begun>>
  BY DEF ReadKeys
<1>2. Reading(log.events, late, k) /\ LogHolds(log.events)
  BY <1>1, ReadingOne DEF ReadSteps
<1>3. CASE keys.binding = None
  <2> DEFINE n == Continue(k, handles[k.op.handle], Corrupt)
  <2>1. calls' = [calls EXCEPT ![c] = n]
    BY <1>3 DEF ReadKeys
  <2>2. Goes(log.events, late, k, n)
    BY <1>2, UnreadHolds
  <2> HIDE DEF n
  <2> QED
    BY <1>1, <2>1, <2>2, GoesOn
<1>4. CASE keys.binding # None
  <2> DEFINE read == [keys |-> keys, seen |-> {}, read |-> {},
                      wanted |-> ScopeSubjects(k.op) \cup NamedSubjects(keys)]
             n == [k EXCEPT !.pc = "streams", !.read = read]
  <2>1. calls' = [calls EXCEPT ![c] = n]
    BY <1>4 DEF ReadKeys
  <2>2. ReadHolds(log.events, read)
    BY DEF ReadHolds, NothingRead
  <2>3. k.op.kind = "append"
    BY <1>1, OneCall DEF CallKnows
  <2>4. DOMAIN k = CallFields
    BY <1>2 DEF Reading, Mine
  <2> HIDE DEF read
  <2>5. /\ SameCall(k, n) /\ n.goal = k.goal /\ n.answer = k.answer /\ n.pending = k.pending
        /\ n.pc = "streams" /\ n.read = read
    BY <2>4 DEF SameCall, CallFields
  <2> HIDE DEF n
  <2>6. CallHolds(log.events, late, n)
    BY <1>2, <2>2, <2>3, <2>5, ReadsOn
  <2>7. n.id = calls[c].id
    BY <2>5 DEF SameCall
  <2> QED
    BY <1>1, <2>1, <2>6, <2>7, CallGoes
<1> QED
  BY <1>3, <1>4

(* A round of streams is read. *)
LEMMA ReadStreamsSafe ==
  ASSUME AdapterInvariant, NEW c \in Callers, ReadStreams(c)
  PROVE  AdapterInvariant'
<1> DEFINE k == calls[c]
           n == calls'[c]
           unread == k.read.wanted \ k.read.read
           found == OfStream(log.events, <<"er.binding">>)
                      \cup UNION {OfStream(log.events, <<"er.subject", Authority(k.op), s>>) : s \in unread}
           seen == k.read.seen \cup found
           wanted == k.read.wanted \cup BatchMates(seen)
           read == [k.read EXCEPT !.seen = seen, !.wanted = wanted,
                                  !.read = k.read.read \cup unread]
           step == IF wanted = k.read.read \cup unread THEN "rows" ELSE "streams"
<1>1. /\ k.pc = "streams" /\ UNCHANGED <<log, handles, late, begun>>
      /\ calls' = [calls EXCEPT ![c].read = read, ![c].pc = step]
  BY DEF ReadStreams
<1>2. Reading(log.events, late, k) /\ k.op.kind = "append" /\ ReadHolds(log.events, k.read)
  <2>1. CallKnows(log.events, k)
    BY <1>1, OneCall
  <2> QED
    BY <1>1, <2>1, ReadingOne DEF ReadSteps, CallKnows
<1>3. found \subseteq DOMAIN log.events
  BY DEF OfStream
<1> HIDE DEF found
<1>4. seen \subseteq DOMAIN log.events
  BY <1>2, <1>3 DEF ReadHolds
<1> HIDE DEF seen, wanted
<1>5. ReadHolds(log.events, read)
  BY <1>2, <1>4 DEF ReadHolds, NothingRead
<1>6. step \in {"rows", "streams"}
  OBVIOUS
<1> HIDE DEF read, step
<1>7. DOMAIN k = CallFields
  BY <1>2 DEF Reading, Mine
<1>8. calls = [d \in Callers |-> calls[d]]
  BY Zenon DEF AdapterInvariant
<1>9. calls' = [calls EXCEPT ![c] = n]
  BY <1>1, <1>8
<1>10. /\ SameCall(k, n) /\ n.goal = k.goal /\ n.answer = k.answer /\ n.pending = k.pending
       /\ n.pc = step /\ n.read = read
  BY <1>1, <1>7, <1>8 DEF SameCall, CallFields
<1> HIDE DEF n
<1>11. CallHolds(log.events, late, n)
  BY <1>2, <1>5, <1>6, <1>10, ReadsOn
<1>12. n.id = calls[c].id
  BY <1>10 DEF SameCall
<1> QED
  BY <1>1, <1>9, <1>11, <1>12, CallGoes

(* What was read verifies, is read again, or is captured whole. *)
LEMMA VerifySafe ==
  ASSUME AdapterInvariant, NEW c \in Callers, Verify(c)
  PROVE  AdapterInvariant'
<1> DEFINE k == calls[c]
           a == Authority(k.op)
           model == build_model_events(a, log, k.read.seen)
           good == model.ok /\ RowsAgree(k, model, log.rows)
           n == IF good THEN [Continue(k, handles[k.op.handle], model)
                                EXCEPT !.read = NothingRead, !.attempts = 0]
                ELSE IF k.attempts < setup.ATTEMPTS
                THEN [Scopes(k, k.goal) EXCEPT !.attempts = k.attempts + 1]
                ELSE AfterAttempts(k)
<1>1. /\ k.pc = "rows" /\ UNCHANGED <<log, handles, late, begun>>
      /\ calls' = [calls EXCEPT ![c] = n]
  BY DEF Verify
<1>2. /\ Reading(log.events, late, k) /\ LogHolds(log.events)
      /\ Continues(log.events, log.events)
  BY <1>1, ReadingOne DEF ReadSteps
<1>3. k.op.kind = "append" /\ k.read.seen \subseteq DOMAIN log.events
  BY <1>1, OneCall DEF CallKnows, ReadHolds
<1>4. Mine(log.events, late, k) /\ MayRead(log.events, late, k, k.goal)
  BY <1>2 DEF Reading, MayRead
<1>5. Sees(log.events, log.events, a, model)
  BY <1>2, <1>3, BuiltEventsHold DEF Sees
<1> HIDE DEF model
<1>6. Goes(log.events, late, k, Continue(k, handles[k.op.handle], model))
  BY <1>2, <1>3, <1>5, ContinueHolds
<1>7. Goes(log.events, late, k, Scopes(k, k.goal))
  BY <1>3, <1>4, ScopesHold
<1>8. Goes(log.events, late, k, Captures(k, k.goal))
  BY <1>4, CapturesHold
<1>9. /\ Goes(log.events, late, k, [Continue(k, handles[k.op.handle], model)
                                      EXCEPT !.read = NothingRead, !.attempts = 0])
      /\ Goes(log.events, late, k, [Scopes(k, k.goal) EXCEPT !.attempts = k.attempts + 1])
      /\ Goes(log.events, late, k, AfterAttempts(k))
  BY <1>6, <1>7, <1>8, Forgetful DEF AfterAttempts
<1>10. Goes(log.events, late, k, n)
  BY <1>9
<1> HIDE DEF n
<1> QED
  BY <1>1, <1>10, GoesOn

(* A call goes on with the capture it took. *)
LEMMA ResumeSafe ==
  ASSUME AdapterInvariant, NEW c \in Callers, Resume(c)
  PROVE  AdapterInvariant'
<1> DEFINE k == calls[c]
<1>1. k.pc = "resume" /\ UNCHANGED <<log, late, begun>>
  BY DEF Resume
<1>2. Reading(log.events, late, k) /\ LogHolds(log.events)
  BY <1>1, ReadingOne DEF ReadSteps
<1>3. Continues(k.capture.events, log.events) /\ OpHolds(k.op)
  BY <1>1, OneCall DEF CallKnows
<1>4. CASE k.op.kind = "provision"
  <2> DEFINE recovery == recover_inner(k.op.authority, k.capture)
             n == Provision(k, recovery)
  <2>1. calls' = [calls EXCEPT ![c] = n] /\ UNCHANGED handles
    BY <1>4 DEF Resume
  <2>2. RecoveryHolds(log.events, k.op.authority, recovery)
    BY <1>2, <1>3, RecoverHolds
  <2> HIDE DEF recovery
  <2>3. Goes(log.events, late, k, n)
    BY <1>2, <1>4, <2>2, ProvisionHolds
  <2> HIDE DEF n
  <2> QED
    BY <1>1, <2>1, <2>3, GoesOn
<1>5. CASE k.op.kind # "provision"
  <2> DEFINE h == k.op.handle
             a == HandleAuthority[h]
             served == model_of(a, handles[h], k.capture)
             m == Continue(k, served.handle, served.model)
             n == [m EXCEPT !.capture = None]
             opened == Opened(k.op, served)
  <2>1. calls' = [calls EXCEPT ![c] = n] /\ handles' = [handles EXCEPT ![h] = opened]
    BY <1>5 DEF Resume
  <2>2. h \in Handles /\ Authority(k.op) = a
    BY <1>3, <1>5 DEF OpHolds, Authority
  <2>3. HandleHolds(log.events, a, handles[h])
    BY <2>2 DEF AdapterInvariant
  <2> HIDE DEF h
  <2>4. /\ HandleHolds(log.events, a, served.handle)
        /\ ModelHolds(a, k.capture.events, served.model)
    BY <1>2, <1>3, <2>3, ServedHolds
  <2> HIDE DEF served
  <2>5. Sees(k.capture.events, log.events, Authority(k.op), served.model)
    BY <1>2, <1>3, <2>2, <2>4 DEF Sees
  <2> HIDE DEF a
  <2>6. Goes(log.events, late, k, m)
    BY <1>2, <2>5, ContinueHolds
  <2> HIDE DEF m
  <2>7. Goes(log.events, late, k, n)
    BY <2>6, Forgetful
  <2>8. HandleHolds(log.events, a, opened)
    <3>1. HandleHolds(log.events, a, ClosedHandle)
      BY ClosedHolds
    <3> DEFINE open == [served.handle EXCEPT !.open = TRUE]
    <3>2. DOMAIN served.handle = HandleFields
      BY <2>4, HandleDomain DEF HandleHolds
    <3>3. DOMAIN open = HandleFields /\ open.verified = served.handle.verified
      BY <3>2 DEF HandleFields
    <3> HIDE DEF open
    <3>4. HandleHolds(log.events, a, open)
      BY <2>4, <3>3, HandleSame
    <3> QED
      BY <2>4, <3>1, <3>4 DEF Opened, open
  <2> HIDE DEF opened, n
  <2>9. /\ handles' = [x \in Handles |-> handles'[x]]
        /\ \A x \in Handles : HandleHolds(log.events, HandleAuthority[x], handles'[x])
    BY <2>1, <2>8, HandlesHold DEF a
  <2>10. /\ CallHolds(log.events, late, n) /\ n.id = calls[c].id
         /\ DOMAIN log' = DOMAIN EmptyLog /\ log'.events = log.events
    BY <1>1, <2>7, OneCall DEF Goes
  <2> QED
    BY <1>1, <2>1, <2>9, <2>10, CallMoves
<1> QED
  BY <1>4, <1>5

(* Blobs are put ahead of the group that binds them. *)
LEMMA UploadSafe ==
  ASSUME AdapterInvariant, NEW c \in Callers, Upload(c)
  PROVE  AdapterInvariant'
<1> DEFINE k == calls[c]
           n == calls'[c]
           blobs == Uploads(k.group)
<1>1. /\ k.pc = "upload" /\ UNCHANGED <<handles, late, begun>>
      /\ \E sent \in 0 .. Len(blobs) :
           /\ log' = put_blobs(log, ToSet(SubSeq(blobs, 1, sent)))
           /\ calls' = [calls EXCEPT ![c] =
                IF sent = Len(blobs) THEN [k EXCEPT !.pc = "write"]
                ELSE Answers(k, NotCommitted("backend"))]
  BY DEF Upload
<1>2. CallHolds(log.events, late, k) /\ DOMAIN log = DOMAIN EmptyLog
  BY OneCall
<1>3. /\ CallKnows(log.events, k) /\ Mine(log.events, late, k)
      /\ Unwritten(log.events, late, k.id)
  BY <1>1, <1>2, OneCall DEF CallHolds, Unpublished, WriteSteps
<1>4. /\ calls = [d \in Callers |-> calls[d]]
      /\ handles = [h \in Handles |-> handles[h]]
      /\ \A h \in Handles : HandleHolds(log.events, HandleAuthority[h], handles[h])
  BY Zenon DEF AdapterInvariant
<1>5. DOMAIN log' = DOMAIN EmptyLog /\ log'.events = log.events
  BY <1>1, <1>2 DEF put_blobs, EmptyLog
<1>6. /\ calls' = [calls EXCEPT ![c] = n]
      /\ n \in {[k EXCEPT !.pc = "write"], Answers(k, NotCommitted("backend"))}
  BY <1>1, <1>4
<1>7. Goes(log.events, late, k, [k EXCEPT !.pc = "write"])
  <2> DEFINE m == [k EXCEPT !.pc = "write"]
  <2>1. /\ SameCall(k, m) /\ m.pc = "write" /\ m.answer = k.answer /\ m.group = k.group
        /\ m.pending = k.pending
    BY <1>3 DEF Mine, SameCall, CallFields
  <2> HIDE DEF m
  <2>2. m.op = k.op /\ m.id = k.id /\ DOMAIN m = CallFields
    BY <2>1 DEF SameCall
  <2>3. CallKnows(log.events, m)
    BY <1>1, <1>3, <2>1, <2>2 DEF CallKnows, ReadSteps, WriteSteps
  <2>4. BindsOwn(log.events, m)
    BY <1>3, <2>2 DEF Mine, BindsOwn
  <2>5. CallHolds(log.events, late, m)
    BY <1>3, <2>1, <2>2, <2>3, <2>4, CallDomain DEF CallHolds, Mine
  <2>6. Goes(log.events, late, k, m)
    BY <2>1, <2>2, <2>5 DEF Goes
  <2> QED
    BY <2>6 DEF m
<1>8. Goes(log.events, late, k, Answers(k, NotCommitted("backend")))
  BY <1>3, AnswerFields, Refuses
<1> HIDE DEF n
<1>9. CallHolds(log.events, late, n) /\ n.id = calls[c].id
  BY <1>6, <1>7, <1>8 DEF Goes
<1>10. handles' = [h \in Handles |-> handles'[h]]
  BY <1>1, <1>4
<1>11. \A h \in Handles : HandleHolds(log.events, HandleAuthority[h], handles'[h])
  BY <1>1, <1>4
<1> QED
  BY <1>1, <1>5, <1>6, <1>9, <1>10, <1>11, CallMoves

(* A caller that drops its call is told nothing. *)
LEMMA AbandonSafe ==
  ASSUME AdapterInvariant, NEW c \in Callers, Abandon(c)
  PROVE  AdapterInvariant'
<1> DEFINE n == Answers(calls[c], NoAnswer)
<1>1. /\ calls[c].pc = "reply" /\ UNCHANGED <<log, handles, late, begun>>
      /\ calls' = [calls EXCEPT ![c] = n]
  BY DEF Abandon
<1>2. Mine(log.events, late, calls[c])
  BY <1>1, OneCall
<1>3. Goes(log.events, late, calls[c], n)
  BY <1>2, AnswerFields, Modestly DEF Claims
<1> HIDE DEF n
<1> QED
  BY <1>1, <1>3, GoesOn

-----------------------------------------------------------------------------
(* Beginning. *)

(* What a caller may ask: a request that is whole, or one that reaches no  *)
(* provider.                                                               *)
Requested(op) ==
  \/ OpHolds(op)
  \/ op.kind = "append" /\ op.members = << >>
  \/ op.kind = "imports" /\ (op.imports = << >> \/ Disagree(op.imports))

FreshCall(op, id) == [IdleCall EXCEPT !.op = op, !.id = id]

(* Nothing was published of a call that has a number of its own. *)
LEMMA FreshHolds ==
  ASSUME AdapterInvariant, NEW op, NEW k, k = FreshCall(op, begun + 1)
  PROVE  /\ Mine(log.events, late, k) /\ Unwritten(log.events, late, k.id)
         /\ k.op = op /\ k.id = begun + 1 /\ k.answer = NoAnswer
<1>1. DOMAIN k = CallFields /\ k.op = op /\ k.id = begun + 1 /\ k.answer = NoAnswer
  BY DEF FreshCall, IdleCall, CallFields
<1>2. /\ begun \in Nat /\ LateHolds(late, begun)
      /\ \A i \in DOMAIN log.events : log.events[i].request_id \in 0 .. begun
  BY DEF AdapterInvariant
<1>3. \A i \in DOMAIN log.events : log.events[i].request_id # begun + 1
  BY <1>2
<1>4. late # None => late.id # begun + 1
  BY <1>2 DEF LateHolds
<1>5. BindsOwn(log.events, k)
  BY <1>1, <1>3 DEF BindsOwn
<1>6. Unwritten(log.events, late, k.id)
  BY <1>1, <1>3, <1>4 DEF Unwritten, Silent
<1>7. k.id \in Nat /\ k.id # 0
  BY <1>1, <1>2
<1>8. Mine(log.events, late, k)
  BY <1>1, <1>4, <1>5, <1>7 DEF Mine
<1> QED
  BY <1>1, <1>6, <1>8

(* The first provider call of each operation. *)
LEMMA FirstStepHolds ==
  ASSUME AdapterInvariant, NEW op, Requested(op), NEW k, k = FreshCall(op, begun + 1)
  PROVE  Goes(log.events, late, k, FirstStep(k))
<1>1. /\ Mine(log.events, late, k) /\ Unwritten(log.events, late, k.id)
      /\ k.op = op /\ k.answer = NoAnswer
  BY FreshHolds
<1>2. OpHolds(op) => MayRead(log.events, late, k, "plan")
  BY <1>1 DEF MayRead
<1>3. CASE op.kind = "append" /\ op.members = << >>
  <2>1. FirstStep(k) = Answers(k, Settlement("empty", None, FALSE))
    BY <1>1, <1>3 DEF FirstStep
  <2>2. Settlement("empty", None, FALSE).status = "empty"
    BY DEF Settlement, NoAnswer
  <2> QED
    BY <1>1, <2>1, <2>2, Modestly DEF Claims
<1>4. CASE op.kind = "append" /\ OpHolds(op)
  <2>1. op.members # << >>
    BY <1>4 DEF OpHolds
  <2>2. FirstStep(k) = Scopes(k, "plan")
    BY <1>1, <1>4, <2>1 DEF FirstStep
  <2> QED
    BY <1>1, <1>2, <1>4, <2>2, ScopesHold
<1>5. CASE op.kind = "imports" /\ op.imports = << >>
  <2> DEFINE said == Settlement("imported", None, TRUE)
  <2>1. FirstStep(k) = Answers(k, said)
    BY <1>1, <1>5 DEF FirstStep
  <2>2. said.status = "imported"
    BY DEF Settlement, NoAnswer
  <2> HIDE DEF said
  <2>3. ToSet(op.imports) = {}
    BY <1>5 DEF ToSet
  <2>4. AnswerHolds(log.events, late, k.op, k.id, said)
    BY <1>1, <2>2, <2>3 DEF AnswerHolds
  <2> QED
    BY <1>1, <2>1, <2>4, AnswersHold
<1>6. CASE op.kind = "imports" /\ op.imports # << >> /\ Disagree(op.imports)
  <2>1. FirstStep(k) = Answers(k, NotCommitted("invalid_input"))
    BY <1>1, <1>6 DEF FirstStep
  <2> QED
    BY <1>1, <2>1, AnswerFields, Refuses
<1>7. CASE op.kind = "imports" /\ op.imports # << >> /\ ~Disagree(op.imports)
  <2>1. OpHolds(op)
    BY <1>7 DEF Requested
  <2>2. FirstStep(k) = Captures(k, "plan")
    BY <1>1, <1>7, Zenon DEF FirstStep
  <2> QED
    BY <1>1, <1>2, <2>1, <2>2, CapturesHold
<1>8. CASE op.kind = "refuse" /\ OpHolds(op)
  <2> DEFINE group == refusal_group(Authority(op), op.refusal)
             at == At(k, "upload", "none")
             n == [at EXCEPT !.group = group]
  <2>1. FirstStep(k) = n
    BY <1>1, <1>8 DEF FirstStep
  <2>2. SameCall(k, at) /\ at.pc = "upload" /\ at.answer = NoAnswer
    BY <1>1 DEF At, SameCall, CallFields, Mine
  <2> HIDE DEF at, group
  <2>3. SameCall(k, n) /\ n.pc = "upload" /\ n.answer = NoAnswer /\ n.group = group
    BY <2>2 DEF SameCall, CallFields
  <2> HIDE DEF n
  <2>4. n.op = op /\ n.id = k.id /\ DOMAIN n = CallFields
    BY <1>1, <2>3 DEF SameCall
  <2>5. GroupHolds(op, n.pending, group)
    BY <1>8 DEF GroupHolds, group
  <2>6. CallKnows(log.events, n)
    BY <1>8, <2>3, <2>4, <2>5 DEF CallKnows, ReadSteps, WriteSteps, Writes
  <2>7. BindsOwn(log.events, n)
    BY <1>1, <2>4 DEF Mine, BindsOwn
  <2>8. CallHolds(log.events, late, n)
    BY <1>1, <2>3, <2>4, <2>6, <2>7, CallDomain DEF CallHolds, Mine
  <2>9. Goes(log.events, late, k, n)
    BY <1>1, <2>3, <2>4, <2>8 DEF Goes
  <2> QED
    BY <2>1, <2>9
<1>9. CASE op.kind \notin {"append", "imports", "refuse"}
  <2>1. OpHolds(op)
    BY <1>9 DEF Requested
  <2>2. FirstStep(k) = Captures(k, "plan")
    BY <1>1, <1>9 DEF FirstStep
  <2> QED
    BY <1>1, <1>2, <2>1, <2>2, CapturesHold
<1>10. \/ op.kind = "append" /\ op.members = << >>
       \/ op.kind = "append" /\ OpHolds(op)
       \/ op.kind = "imports" /\ op.imports = << >>
       \/ op.kind = "imports" /\ op.imports # << >> /\ Disagree(op.imports)
       \/ op.kind = "imports" /\ op.imports # << >> /\ ~Disagree(op.imports)
       \/ op.kind = "refuse" /\ OpHolds(op)
       \/ op.kind \notin {"append", "imports", "refuse"}
  BY Zenon DEF Requested
<1> QED
  BY <1>3, <1>4, <1>5, <1>6, <1>7, <1>8, <1>9, <1>10

(* A call begins under a number of its own. *)
LEMMA CallBegins ==
  ASSUME AdapterInvariant, NEW c \in Callers, NEW n, CallHolds(log.events, late, n),
         n.id = begun + 1, calls' = [calls EXCEPT ![c] = n], begun' = begun + 1,
         DOMAIN log' = DOMAIN EmptyLog, log'.events = log.events, UNCHANGED <<handles, late>>
  PROVE  AdapterInvariant'
<1>1. /\ LogHolds(log.events) /\ begun \in Nat
      /\ \A i \in DOMAIN log.events : log.events[i].request_id \in 0 .. begun
      /\ \A h \in Handles : HandleHolds(log.events, HandleAuthority[h], handles[h])
      /\ handles = [h \in Handles |-> handles[h]]
      /\ \A d \in Callers : CallHolds(log.events, late, calls[d])
  BY Zenon DEF AdapterInvariant
<1>2. LateHolds(late, begun + 1)
  <2>1. LateHolds(late, begun)
    BY DEF AdapterInvariant
  <2>2. \A i \in 1 .. begun : i \in 1 .. begun + 1
    BY <1>1
  <2> QED
    BY <2>1, <2>2 DEF LateHolds
<1>3. \A i \in DOMAIN log.events : log.events[i].request_id \in 0 .. begun + 1
  BY <1>1
<1>4. LeavesRest
  BY <1>1, <1>2, <1>3 DEF LeavesRest
<1>5. LeavesOthers(c) /\ CallHolds(log'.events, late', n)
  BY <1>1 DEF LeavesOthers
<1>6. begun' \in {begun, begun + 1}
  OBVIOUS
<1> QED
  BY <1>4, <1>5, <1>6, CallSteps

(* An operation begins. *)
LEMMA BeginSafe ==
  ASSUME AdapterInvariant, NEW c \in Callers, NEW op, Requested(op), Begin(c, op)
  PROVE  AdapterInvariant'
<1> DEFINE k == FreshCall(op, begun + 1)
           n == FirstStep(k)
<1>1. /\ calls' = [calls EXCEPT ![c] = n] /\ begun' = begun + 1
      /\ UNCHANGED <<log, handles, late>>
  BY DEF Begin, FreshCall
<1>2. Goes(log.events, late, k, n)
  BY FirstStepHolds
<1>3. k.id = begun + 1
  BY FreshHolds
<1> HIDE DEF n
<1>4. CallHolds(log.events, late, n) /\ n.id = begun + 1
  BY <1>2, <1>3 DEF Goes
<1>5. DOMAIN log' = DOMAIN EmptyLog /\ log'.events = log.events
  BY <1>1 DEF AdapterInvariant
<1> QED
  BY <1>1, <1>4, <1>5, CallBegins

(* One import is a batch that cannot disagree with itself. *)
LEMMA OneImport ==
  ASSUME NEW imports \in Seq(Import), Len(imports) = 1
  PROVE  <<imports[1]>> \in Seq(Import) /\ ~Disagree(<<imports[1]>>)
<1>1. imports[1] \in Import
  OBVIOUS
<1>2. <<imports[1]>> \in Seq(Import)
  BY <1>1
<1>3. DOMAIN <<imports[1]>> = {1}
  BY OneAppend
<1> QED
  BY <1>2, <1>3 DEF Disagree

(* Every call a caller makes. *)
LEMMA CallSafe ==
  ASSUME AdapterInvariant, NEW c \in Callers, Call(c)
  PROVE  AdapterInvariant'
<1>1. ASSUME NEW a \in Rebinding, Begin(c, ProvisionOp(a))
      PROVE  AdapterInvariant'
  <2>1. OpHolds(ProvisionOp(a))
    BY DEF OpHolds, ProvisionOp, Writes
  <2> QED
    BY <1>1, <2>1, BeginSafe DEF Requested
<1>2. ASSUME NEW h \in Handles, NEW kind \in {"open", "read"}, Begin(c, HandleOp(kind, h))
      PROVE  AdapterInvariant'
  <2>1. OpHolds(HandleOp(kind, h))
    BY DEF OpHolds, HandleOp, Writes
  <2> QED
    BY <1>2, <2>1, BeginSafe DEF Requested
<1>3. ASSUME NEW h \in Handles, NEW b \in Batches, Begin(c, AppendOp(h, b))
      PROVE  AdapterInvariant'
  <2> DEFINE op == AppendOp(h, b)
  <2>1. op.kind = "append" /\ op.handle = h /\ op.key = b.key /\ op.members = b.members
    BY DEF AppendOp
  <2> HIDE DEF op
  <2>2. Requested(op)
    BY <2>1, AdapterAssumption DEF Requested, OpHolds, Writes
  <2> QED
    BY <1>3, <2>2, BeginSafe DEF op
<1>4. ASSUME NEW h \in Handles, NEW i \in ImportBatches, Len(i) = 1, Begin(c, ImportOp(h, i[1]))
      PROVE  AdapterInvariant'
  <2> DEFINE op == ImportOp(h, i[1])
  <2>1. op.kind = "import" /\ op.handle = h /\ op.imports = <<i[1]>>
    BY DEF ImportOp
  <2>2. i \in Seq(Import)
    BY AdapterAssumption
  <2>3. <<i[1]>> \in Seq(Import) /\ ~Disagree(<<i[1]>>)
    BY <1>4, <2>2, OneImport
  <2> HIDE DEF op
  <2>4. OpHolds(op)
    BY <2>1, <2>3 DEF OpHolds, Writes
  <2> QED
    BY <1>4, <2>4, BeginSafe DEF op, Requested
<1>5. ASSUME NEW h \in Handles, NEW i \in ImportBatches, Begin(c, ImportsOp(h, i))
      PROVE  AdapterInvariant'
  <2> DEFINE op == ImportsOp(h, i)
  <2>1. op.kind = "imports" /\ op.handle = h /\ op.imports = i
    BY DEF ImportsOp
  <2>2. i \in Seq(Import)
    BY AdapterAssumption
  <2> HIDE DEF op
  <2>3. Requested(op)
    BY <2>1, <2>2 DEF Requested, OpHolds, Writes
  <2> QED
    BY <1>5, <2>3, BeginSafe DEF op
<1>6. ASSUME NEW h \in Handles, NEW r \in RefusedRequests, Begin(c, RefuseOp(h, r))
      PROVE  AdapterInvariant'
  <2>1. OpHolds(RefuseOp(h, r))
    BY DEF OpHolds, RefuseOp, Writes
  <2> QED
    BY <1>6, <2>1, BeginSafe DEF Requested
<1> QED
  BY <1>1, <1>2, <1>3, <1>4, <1>5, <1>6 DEF Call

(* The indexes are rebuilt from the events, which stay. *)
LEMMA RebuildSafe ==
  ASSUME AdapterInvariant, NEW c \in Callers, RebuildIndexes(c)
  PROVE  AdapterInvariant'
<1>1. PICK h \in Handles :
        calls' = [calls EXCEPT ![c] = Captures(FreshCall(HandleOp("rebuild", h), begun + 1), "plan")]
  BY DEF RebuildIndexes, FreshCall
<1> DEFINE op == HandleOp("rebuild", h)
           k == FreshCall(op, begun + 1)
           n == Captures(k, "plan")
<1>2. OpHolds(op) /\ op.kind = "rebuild"
  BY DEF OpHolds, HandleOp, Writes
<1> HIDE DEF op
<1>3. /\ Mine(log.events, late, k) /\ Unwritten(log.events, late, k.id)
      /\ k.op = op /\ k.id = begun + 1 /\ k.answer = NoAnswer
  BY FreshHolds
<1> HIDE DEF k
<1>4. MayRead(log.events, late, k, "plan")
  BY <1>2, <1>3 DEF MayRead
<1>5. Goes(log.events, late, k, n)
  BY <1>3, <1>4, CapturesHold
<1> HIDE DEF n
<1>6. CallHolds(log.events, late, n) /\ n.id = begun + 1
  BY <1>3, <1>5 DEF Goes
<1>7. DOMAIN log' = DOMAIN EmptyLog /\ log'.events = log.events
  <2>1. DOMAIN log = DOMAIN EmptyLog
    BY DEF AdapterInvariant
  <2> QED
    BY <2>1 DEF RebuildIndexes, EmptyLog
<1>8. begun' = begun + 1 /\ UNCHANGED <<handles, late>>
  BY DEF RebuildIndexes
<1> QED
  BY <1>1, <1>6, <1>7, <1>8, CallBegins DEF n, k, op

-----------------------------------------------------------------------------
(* Every behaviour. *)

(* The tenant a provisioner left, and one more append of its own. *)
LEMMA SeededHolds ==
  ASSUME NEW a, NEW seed \in Seeds
  PROVE  LET bound  == BoundLog(a)
             seeded == SeedLog(a, seed)
         IN /\ LogHolds(bound.events)
            /\ DOMAIN seeded = DOMAIN EmptyLog /\ LogHolds(seeded.events)
            /\ Continues(bound.events, seeded.events)
            /\ \A i \in DOMAIN seeded.events : seeded.events[i].request_id = 0
<1> DEFINE group == binding_group(a)
           written == append_group_guarded_with_blobs(EmptyLog, group, "ok", {BindingBlob(a)}, 0, 0)
           bound == BoundLog(a)
           seeded == SeedLog(a, seed)
<1>1. LogHolds(EmptyLog.events) /\ DOMAIN EmptyLog.events = {} /\ Len(EmptyLog.events) = 0
  <2>1. EmptyLog.events = << >>
    BY DEF EmptyLog
  <2>2. DOMAIN << >> = {} /\ Len(<< >>) = 0 /\ << >> \in Seq({})
    OBVIOUS
  <2>3. Sequence(<< >>)
    BY <2>2, SequenceTyped, Zenon
  <2> QED
    BY <2>1, <2>2, <2>3 DEF LogHolds
<1>2. "ok" \in Verdicts
  BY DEF Verdicts
<1>3. WellFormed(group)
  BY BindingWellFormed
<1>4. Wrote(EmptyLog, group, 0, written) /\ bound = written.log
  <2>1. Published(EmptyLog, group, 0, 0, written) \/ Quiet(EmptyLog, group, written)
    BY <1>2, WithBlobsCases
  <2> HIDE DEF written
  <2>2. Wrote(EmptyLog, group, 0, written)
    BY <1>1, <2>1 DEF Wrote
  <2> QED
    BY <2>2 DEF BoundLog, written
<1> HIDE DEF written, group
<1>5. /\ LogHolds(bound.events)
      /\ \A i \in DOMAIN bound.events : bound.events[i].request_id = 0
  BY <1>1, <1>3, <1>4, WroteHolds
<1>6. DOMAIN bound = DOMAIN EmptyLog
  BY <1>4 DEF Wrote, Published, Quiet
<1>7. Continues(bound.events, bound.events)
  BY <1>5, ContinuesItself DEF LogHolds
<1> HIDE DEF bound
<1>8. CASE seed = None
  <2>1. seeded = bound
    BY <1>8 DEF SeedLog, bound
  <2> HIDE DEF seeded
  <2>2. /\ LogHolds(bound.events) /\ DOMAIN seeded = DOMAIN EmptyLog /\ LogHolds(seeded.events)
        /\ Continues(bound.events, seeded.events)
        /\ \A i \in DOMAIN seeded.events : seeded.events[i].request_id = 0
    BY <1>5, <1>6, <1>7, <2>1
  <2> QED
    BY <2>2 DEF bound, seeded
<1>9. CASE seed # None
  <2> DEFINE more == append_group(a, seed, Heads(build_model(a, bound)))
             w == append_group_guarded_with_blobs(bound, more, "ok", ToSet(Uploads(more)), 0,
                    Len(bound.events))
  <2>1. seeded = w.log
    BY <1>9 DEF SeedLog, Appended, bound
  <2>2. seed.members \in Seq(AppendMember)
    BY <1>9, AdapterAssumption
  <2>3. WellFormed(more)
    BY <2>2, AppendGroupOf, AppendWellFormed
  <2> HIDE DEF more
  <2>4. Published(bound, more, 0, Len(bound.events), w) \/ Quiet(bound, more, w)
    BY <1>2, WithBlobsCases
  <2> HIDE DEF w
  <2>5. Wrote(bound, more, 0, w)
    BY <2>4 DEF Wrote
  <2>6. /\ LogHolds(w.log.events) /\ Continues(bound.events, w.log.events)
        /\ \A i \in DOMAIN w.log.events : i \notin DOMAIN bound.events =>
             w.log.events[i].request_id = 0
    BY <1>5, <2>3, <2>5, WroteHolds
  <2>7. \A i \in DOMAIN bound.events : w.log.events[i] = bound.events[i]
    BY <2>6, ContinuesIn
  <2>8. DOMAIN w.log = DOMAIN EmptyLog
    BY <1>6, <2>5 DEF Wrote, Published, Quiet
  <2> HIDE DEF seeded
  <2>9. /\ LogHolds(bound.events) /\ DOMAIN seeded = DOMAIN EmptyLog /\ LogHolds(seeded.events)
        /\ Continues(bound.events, seeded.events)
        /\ \A i \in DOMAIN seeded.events : seeded.events[i].request_id = 0
    BY <1>5, <2>1, <2>6, <2>7, <2>8
  <2> QED
    BY <2>9 DEF bound, seeded
<1> QED
  BY <1>8, <1>9

(* A handle opened of a bound tenant. *)
LEMMA OpenHolds ==
  ASSUME NEW a, NEW tenant, LogHolds(tenant.events), NEW events, Continues(tenant.events, events)
  PROVE  HandleHolds(events, a, OpenHandle(a, tenant))
<1> DEFINE installed == install(ClosedHandle, tenant, build_model(a, tenant))
           open == [installed EXCEPT !.open = TRUE]
<1>1. DOMAIN ClosedHandle = HandleFields
  BY HandleDomain
<1>2. HandleHolds(events, a, installed)
  BY <1>1, BuiltHolds, InstalledHolds
<1> HIDE DEF installed
<1>3. DOMAIN installed = HandleFields
  BY <1>2, HandleDomain DEF HandleHolds
<1>4. DOMAIN open = HandleFields /\ open.verified = installed.verified
  BY <1>3 DEF HandleFields
<1> HIDE DEF open
<1>5. HandleHolds(events, a, open)
  BY <1>2, <1>4, HandleSame
<1> QED
  BY <1>5 DEF OpenHandle, open, installed

(* The invariant holds of every tenant at first. *)
LEMMA InitHolds ==
  ASSUME Init
  PROVE  AdapterInvariant
<1>1. /\ calls = [c \in Callers |-> IdleCall] /\ late = None /\ begun = 0
  BY DEF Init
<1>2. /\ DOMAIN log = DOMAIN EmptyLog /\ LogHolds(log.events)
      /\ \A i \in DOMAIN log.events : log.events[i].request_id = 0
      /\ handles = [h \in Handles |-> handles[h]]
      /\ \A h \in Handles : HandleHolds(log.events, HandleAuthority[h], handles[h])
  <2>1. CASE \E seed \in Seeds, a \in Authorities :
                /\ log = SeedLog(a, seed)
                /\ handles = [h \in Handles |->
                     IF HandleAuthority[h] = a THEN OpenHandle(a, BoundLog(a)) ELSE ClosedHandle]
    <3>1. PICK seed \in Seeds, a \in Authorities :
            /\ log = SeedLog(a, seed)
            /\ handles = [h \in Handles |->
                 IF HandleAuthority[h] = a THEN OpenHandle(a, BoundLog(a)) ELSE ClosedHandle]
      BY <2>1
    <3> DEFINE bound == BoundLog(a)
    <3>2. /\ LogHolds(bound.events) /\ DOMAIN log = DOMAIN EmptyLog /\ LogHolds(log.events)
          /\ Continues(bound.events, log.events)
          /\ \A i \in DOMAIN log.events : log.events[i].request_id = 0
      BY <3>1, SeededHolds
    <3> HIDE DEF bound
    <3>3. HandleHolds(log.events, a, OpenHandle(a, bound))
      BY <3>2, OpenHolds
    <3>4. \A h \in Handles : HandleHolds(log.events, HandleAuthority[h], handles[h])
      BY <3>1, <3>3, ClosedHolds DEF bound
    <3>5. handles = [h \in Handles |-> handles[h]]
      BY <3>1
    <3> QED
      BY <3>2, <3>4, <3>5
  <2>2. CASE log = EmptyLog /\ handles = [h \in Handles |-> ClosedHandle]
    <3>1. EmptyLog.events = << >> /\ DOMAIN << >> = {} /\ << >> \in Seq({})
      BY DEF EmptyLog
    <3>2. Sequence(<< >>)
      BY <3>1, SequenceTyped, Zenon
    <3>3. LogHolds(EmptyLog.events)
      BY <3>1, <3>2 DEF LogHolds
    <3> QED
      BY <2>2, <3>1, <3>3, ClosedHolds
  <2> QED
    BY <2>1, <2>2 DEF Init
<1>3. CallHolds(log.events, late, IdleCall)
  <2>1. /\ DOMAIN IdleCall = CallFields /\ IdleCall.pc = "idle" /\ IdleCall.id = 0
        /\ IdleCall.answer = NoAnswer
    BY CallDomain
  <2>2. AnswerHolds(log.events, late, IdleCall.op, IdleCall.id, NoAnswer)
    BY AnswerFields, ModestHolds DEF Claims
  <2> QED
    BY <2>1, <2>2, CallDomain DEF CallHolds, Unpublished, ReadSteps, WriteSteps
<1>4. /\ calls = [c \in Callers |-> calls[c]]
      /\ \A c \in Callers : calls[c].id = 0 /\ CallHolds(log.events, late, calls[c])
  BY <1>1, <1>3, CallDomain
<1>5. LateHolds(late, begun) /\ begun \in Nat /\ 0 \in 0 .. begun
  BY <1>1 DEF LateHolds
<1> QED
  BY <1>2, <1>4, <1>5, Zenon DEF AdapterInvariant

(* Every step keeps it. *)
LEMMA NextHolds ==
  ASSUME AdapterInvariant, [Next]_vars
  PROVE  AdapterInvariant'
<1>1. CASE UNCHANGED vars
  BY <1>1 DEF vars, AdapterInvariant, LogHolds
<1>2. CASE Land
  BY <1>2, LandSafe
<1>3. ASSUME NEW c \in Callers, Step(c)
      PROVE  AdapterInvariant'
  <2>1. CASE Call(c) \/ RebuildIndexes(c)
    BY <2>1, CallSafe, RebuildSafe
  <2>2. CASE Capture(c) \/ CaptureFails(c) \/ Resume(c)
    BY <2>2, CaptureSafe, CaptureFailsSafe, ResumeSafe
  <2>3. CASE ReadKeys(c) \/ ReadStreams(c) \/ Verify(c) \/ ReadFails(c)
    BY <2>3, ReadKeysSafe, ReadStreamsSafe, VerifySafe, ReadFailsSafe
  <2>4. CASE \/ Upload(c) \/ AppendGroup(c) \/ WriteUnheard(c) \/ WriteDelayed(c)
             \/ WriteFails(c)
    BY <2>4, UploadSafe, AppendGroupSafe, WriteFailsSafe
  <2>5. CASE Reply(c) \/ Probe(c) \/ Abandon(c)
    BY <2>5, ReplySafe, ProbeSafe, AbandonSafe
  <2> QED
    BY <1>3, <2>1, <2>2, <2>3, <2>4, <2>5 DEF Step
<1> QED
  BY <1>1, <1>2, <1>3 DEF Next

(* Over any log, whoever writes it and whatever is lost, late or dropped:   *)
(* what the log holds is what the adapter's groups append, every model a   *)
(* handle serves says what those events say, and every call knows of the   *)
(* log what its step takes for granted.                                    *)
THEOREM AdapterSafe == Spec => []AdapterInvariant
<1>1. Init => AdapterInvariant
  BY InitHolds
<1>2. AdapterInvariant /\ [Next]_vars => AdapterInvariant'
  BY NextHolds
<1> QED
  BY <1>1, <1>2, PTL DEF Spec

(* An answer that holds is true. *)
LEMMA HoldsTruly ==
  ASSUME NEW op, NEW id, NEW answer, AnswerHolds(log.events, late, op, id, answer)
  PROVE  Truly(op, id, answer)
<1>1. \A i : EntryAt(i) = EntryIn(log.events, i)
  BY DEF EntryAt, EntryIn
<1>2. CASE answer.status = "committed"
  BY <1>1, <1>2 DEF AnswerHolds, Truly
<1>3. CASE answer.status = "imported"
  BY <1>3 DEF AnswerHolds, Truly, InLog
<1>4. CASE answer.status = "bound"
  BY <1>4 DEF AnswerHolds, Truly
<1>5. CASE answer.status = "recorded"
  BY <1>5 DEF AnswerHolds, Truly, InLog
<1>6. CASE answer.status = "not_committed"
  BY <1>6 DEF AnswerHolds, Truly, Silent
<1>7. CASE answer.status \notin Claims
  BY <1>7 DEF Truly, Claims
<1> QED
  BY <1>2, <1>3, <1>4, <1>5, <1>6, <1>7 DEF Claims

(* The answer of one call, if it has one, holds. *)
LEMMA AnswerTrue ==
  ASSUME AdapterInvariant, NEW c \in Callers
  PROVE  Truly(calls[c].op, calls[c].id, calls[c].answer)
<1>1. CASE calls[c].pc = "idle"
  BY <1>1, OneCall, HoldsTruly DEF CallHolds
<1>2. CASE calls[c].pc # "idle"
  <2>1. calls[c].answer = NoAnswer
    BY <1>2, OneCall DEF CallKnows
  <2>2. AnswerHolds(log.events, late, calls[c].op, calls[c].id, NoAnswer)
    BY AnswerFields, ModestHolds DEF Claims
  <2> QED
    BY <2>1, <2>2, HoldsTruly
<1> QED
  BY <1>1, <1>2

(* A committed answer names what the log holds where it says, and a call   *)
(* told NotCommitted published nothing and never will: for every log, any  *)
(* number of callers and handles, and a provider that may lose its reply.  *)
THEOREM AdapterAnswersAreTrue == Spec => []AnswersAreTrue
<1>1. AdapterInvariant => AnswersAreTrue
  BY AnswerTrue DEF AnswersAreTrue
<1> QED
  BY <1>1, AdapterSafe, PTL

=============================================================================
