------------------------- MODULE StoredRuntimeProofs -------------------------
(***************************************************************************)
(* Theorems about StoredRuntime, for every number of shells, subjects,     *)
(* record ids and requests, and every kernel.                              *)
(***************************************************************************)
EXTENDS StoredRuntime, StoreContractProofs

(* The parts of a request. *)
LEMMA RequestFacts ==
  ASSUME NEW q \in Requests
  PROVE  /\ q \in AllRequests /\ q # None
         /\ q.subject \in Subjects /\ q.record_id \in RecordId
         /\ q.kind \in {"create", "execute", "observe"}
         /\ q.kind = "create" => q.input \in Creations
         /\ q.kind = "execute" => q.input \in Operations /\ q.expected \in Nat
         /\ q.kind = "observe" => q.input \in Notes /\ q.expected \in Nat
<1>1. q \in AllRequests /\ q # None
  BY RuntimeAssumption
<1> QED
  BY <1>1 DEF AllRequests

(* The observation a request asks for. *)
LEMMA ObservationType ==
  ASSUME NEW q \in Requests, q.kind = "observe"
  PROVE  /\ ObservationOf(q) \in RecordedObservation
         /\ ObservationOf(q).subject = q.subject
         /\ ObservationOf(q).record_id = q.record_id
  BY RequestFacts DEF ObservationOf, RecordedObservation

(* What is true of a call stays true when the store moves on. *)
LEMMA CallMovesOn ==
  ASSUME NEW st \in Store, NEW nu \in Store, Extends(st, nu), Advances(st, nu),
         NEW call \in Call, CallConsistent(st, call)
  PROVE  CallConsistent(nu, call)
<1> DEFINE q == call.request
<1>1. CASE call.pc = "idle"
  BY <1>1 DEF CallConsistent, AnswerDurable
<1>2. CASE call.pc # "idle"
  <2>1. q \in Requests /\ q.subject \in Subjects
    BY <1>2, RequestFacts DEF CallConsistent
  <2>2. ASSUME call.pc \in {"match", "commit"}
        PROVE  LoadedHolds(nu, call)
    <3> DEFINE held == st.instances[q.subject]
               now == nu.instances[q.subject]
    <3>1. /\ q.kind = "execute" /\ call.instance \in Instance
          /\ call.instance.subject = q.subject
          /\ held # None /\ call.instance.revision <= held.revision
          /\ call.instance.revision = held.revision => call.instance = held
      BY <2>2 DEF CallConsistent, LoadedHolds
    <3>2. /\ now # None /\ held.revision <= now.revision
          /\ held.revision = now.revision => held = now
      BY <2>1, <3>1 DEF Advances
    <3>3. /\ call.instance.revision \in Nat /\ held.revision \in Nat
          /\ now.revision \in Nat
      BY <2>1, <3>1, <3>2, StoreFacts, InstanceFacts
    <3> QED
      BY <3>1, <3>2, <3>3 DEF LoadedHolds
  <2>3. AnswerDurable(nu, call)
    <3>1. /\ Keeps(st.records[q.subject], nu.records[q.subject])
          /\ Keeps(st.observations[q.subject], nu.observations[q.subject])
      BY <2>1 DEF Extends
    <3> QED
      BY <3>1 DEF Keeps, AnswerDurable, CallConsistent
  <2> QED
    BY <1>2, <2>2, <2>3 DEF CallConsistent
<1> QED
  BY <1>1, <1>2

(* commit_recorded of a decision the kernel took on nothing or on an       *)
(* instance that is still held at its revision, sent with the matching     *)
(* expectation.                                                            *)
LEMMA CommitRecordedStep ==
  ASSUME NEW st \in Store, IndexIsExact(st), IsKernelPath(st),
         NEW d \in RecordedCommit, NEW expect,
         \/ expect = Absent
         \/ /\ expect \in Nat
            /\ LET held == st.instances[d.instance.subject]
                   op   == d.envelope.command
               IN held # None /\ held.revision = expect =>
                    /\ op \in Operations /\ Admits(held, op)
                    /\ d.instance = execute(held, op).instance
  PROVE  LET res == commit_recorded(st, d, expect)
         IN /\ res.store \in Store
            /\ IndexIsExact(res.store)
            /\ IsKernelPath(res.store)
            /\ Extends(st, res.store) /\ Advances(st, res.store)
            /\ res.outcome \in {"ok"} \cup Refusals
            /\ res.outcome = "ok" =>
                 /\ d.envelope.result = d.instance
                 /\ \E i \in DOMAIN res.store.records[d.instance.subject] :
                      res.store.records[d.instance.subject][i] = d.envelope
<1> DEFINE res == commit_recorded(st, d, expect)
           s == d.instance.subject
           r == d.envelope.record_id
           held == st.instances[s]
<1>1. /\ d.instance \in Instance /\ d.envelope \in Envelope /\ s \in Subjects
      /\ CommitValid(d) => r \in RecordIds /\ d.envelope.result = d.instance
  BY InstanceFacts, EnvelopeFacts DEF RecordedCommit, CommitValid, RecordId
<1>2. CASE res.store = st /\ res.outcome \in Refusals
  BY <1>2, ExtendsReflexive DEF Refusals
<1>3. CASE /\ res.store = st /\ res.outcome = "ok" /\ CommitValid(d)
           /\ \/ st.record_ids[r] = d
              \/ st.record_ids[r] = None /\ HeldRecord(st, s, r) # {}
  <2>1. st.record_ids[r] = d
    BY <1>1, <1>3, UnnamedIsUnused
  <2>2. NameHeld(st, r)
    BY <1>1, <1>3 DEF IndexIsExact
  <2> QED
    BY <1>3, <2>1, <2>2, <1>1, ExtendsReflexive DEF NameHeld
<1>4. CASE /\ res.store = Recorded(st, d) /\ res.outcome = "ok" /\ CommitValid(d)
           /\ st.record_ids[r] = None /\ HeldRecord(st, s, r) = {}
           /\ check(expect, revision_of(st, s))
  <2>1. \/ held = None
        \/ /\ held # None /\ expect \in Nat /\ held.revision = expect
           /\ d.envelope.command \in Operations /\ Admits(held, d.envelope.command)
           /\ d.instance = execute(held, d.envelope.command).instance
    <3>1. held # None => held.revision # None
      BY <1>1, StoreFacts, InstanceFacts, StoreAssumption
    <3>2. revision_of(st, s) = IF held = None THEN None ELSE held.revision
      BY DEF revision_of
    <3>3. CASE expect = Absent
      BY <1>4, <3>1, <3>2, <3>3, StoreAssumption DEF check
    <3>4. CASE expect \in Nat
      BY <1>4, <3>2, <3>4, StoreAssumption DEF check
    <3> QED
      BY <3>3, <3>4
  <2>2. \/ held = None
        \/ d.instance.revision = held.revision + 1
    BY <2>1, <1>1, ExecuteType, StoreFacts
  <2>3. Recorded(st, d) \in Store
    BY <1>1, <1>4, RecordedType
  <2>4. Recorded(st, d).instances = [st.instances EXCEPT ![s] = d.instance]
    BY <1>1 DEF Recorded, Store
  <2>5. Advances(st, Recorded(st, d))
    BY <1>1, <2>2, <2>3, <2>4, WriteAdvances
  <2>6. IsKernelPath(Recorded(st, d))
    BY <1>4, <2>1, RecordedKeepsPath
  <2>7. IndexIsExact(Recorded(st, d)) /\ Extends(st, Recorded(st, d))
    BY <1>4, RecordedKeepsIndex, RecordedExtends
  <2>8. /\ Recorded(st, d).records[s] = Append(st.records[s], d.envelope)
        /\ st.records[s] \in Seq(Envelope)
    BY <1>1 DEF Recorded, Store
  <2>9. \E i \in DOMAIN Recorded(st, d).records[s] :
           Recorded(st, d).records[s][i] = d.envelope
    <3>0. st.records[s] \in Seq(Envelope) /\ d.envelope \in Envelope
      BY <1>1, <2>8
    <3>1. \E i \in DOMAIN Append(st.records[s], d.envelope) :
             Append(st.records[s], d.envelope)[i] = d.envelope
      BY ZenonT(30), <3>0, AppendLast
    <3> QED
      BY <3>1, <2>8
  <2> QED
    BY <1>1, <1>4, <2>3, <2>5, <2>6, <2>7, <2>9
<1> QED
  BY ZenonT(60), <1>2, <1>3, <1>4, CommitRecordedCases

(* The same for observe. *)
LEMMA ObserveStep ==
  ASSUME NEW st \in Store, IndexIsExact(st), IsKernelPath(st),
         NEW o \in RecordedObservation
  PROVE  LET res == observe(st, o)
         IN /\ res.store \in Store
            /\ IndexIsExact(res.store)
            /\ IsKernelPath(res.store)
            /\ Extends(st, res.store) /\ Advances(st, res.store)
            /\ res.outcome \in {"ok"} \cup Refusals
            /\ res.outcome = "ok" =>
                 \E i \in DOMAIN res.store.observations[o.subject] :
                   res.store.observations[o.subject][i] = o
<1> DEFINE res == observe(st, o)
           s == o.subject
           r == o.record_id
<1>1. s \in Subjects /\ (ObservationValid(o) => r \in RecordIds)
  BY DEF RecordedObservation, ObservationValid, RecordId
<1>2. CASE res.store = st /\ res.outcome \in Refusals
  BY <1>2, ExtendsReflexive DEF Refusals
<1>3. CASE /\ res.store = st /\ res.outcome = "ok" /\ ObservationValid(o)
           /\ \/ st.record_ids[r] = o
              \/ st.record_ids[r] = None /\ HeldObservation(st, s, r) # {}
  <2>1. st.record_ids[r] = o
    BY <1>1, <1>3, UnnamedIsUnused
  <2>2. NameHeld(st, r)
    BY <1>1, <1>3 DEF IndexIsExact
  <2> QED
    BY <1>3, <2>1, <2>2, <1>1, ExtendsReflexive DEF NameHeld
<1>4. CASE /\ res.store = Observed(st, o) /\ res.outcome = "ok" /\ ObservationValid(o)
           /\ st.record_ids[r] = None /\ HeldObservation(st, s, r) = {}
           /\ check(o.revision, revision_of(st, s))
  <2>1. Observed(st, o) \in Store
    BY <1>1, <1>4, ObservedType
  <2>2. /\ Observed(st, o).instances = st.instances
        /\ Observed(st, o).records = st.records
        /\ Observed(st, o).observations[s] = Append(st.observations[s], o)
        /\ st.observations[s] \in Seq(RecordedObservation)
    BY <1>1 DEF Observed, Store
  <2>3. Advances(st, Observed(st, o))
    BY <2>2, ExtendsReflexive DEF Advances
  <2>4. IsKernelPath(Observed(st, o))
    BY <2>2 DEF IsKernelPath, OnKernelPath, Placed
  <2>5. IndexIsExact(Observed(st, o)) /\ Extends(st, Observed(st, o))
    BY <1>4, ObservedKeepsIndex, ObservedExtends
  <2>6. \E i \in DOMAIN Observed(st, o).observations[s] :
           Observed(st, o).observations[s][i] = o
    <3>1. \E i \in DOMAIN Append(st.observations[s], o) :
             Append(st.observations[s], o)[i] = o
      BY SMTT(30), <2>2, AppendLast
    <3> QED
      BY <3>1, <2>2
  <2> QED
    BY <1>4, <2>1, <2>3, <2>4, <2>5, <2>6
<1> QED
  BY <1>2, <1>3, <1>4, ObserveCases

-----------------------------------------------------------------------------

(* The invariant holds in the beginning. *)
LEMMA InitOK == Init => InductiveInvariant
<1> SUFFICES ASSUME Init PROVE InductiveInvariant
  OBVIOUS
<1>1. EmptyStore \in Store
  BY DEF EmptyStore, Store
<1>2. Idle \in Call
  BY DEF Idle, Call
<1>3. NoBatch \in Batch
  BY DEF NoBatch, Batch
<1>4. TypeOK
  BY <1>1, <1>2, <1>3 DEF TypeOK, Init
<1>5. IndexIsExact(EmptyStore)
  BY StoreAssumption DEF EmptyStore, IndexIsExact, NameHeld, Document
<1>6. IsKernelPath(EmptyStore)
  BY DEF EmptyStore, IsKernelPath, Placed
<1>7. CallConsistent(EmptyStore, Idle)
  BY DEF CallConsistent, Idle, AnswerDurable
<1>8. BatchConsistent
  BY DEF Init, NoBatch, BatchConsistent
<1> QED
  BY <1>4, <1>5, <1>6, <1>7, <1>8 DEF Init, InductiveInvariant

(* A step of shell c that moves the store to `nu` and its call to `after`. *)
LEMMA CallStep ==
  ASSUME InductiveInvariant, Free, NEW c \in Clients, NEW after \in Call,
         calls' = [calls EXCEPT ![c] = after],
         UNCHANGED batch,
         store' \in Store, IndexIsExact(store'), IsKernelPath(store'),
         Extends(store, store'), Advances(store, store'),
         CallConsistent(store', after)
  PROVE  InductiveInvariant'
<1>1. TypeOK'
  BY DEF InductiveInvariant, TypeOK
<1>2. ASSUME NEW d \in Clients
      PROVE  CallConsistent(store', calls'[d])
  <2>1. CASE d = c
    BY <2>1 DEF InductiveInvariant, TypeOK
  <2>2. CASE d # c
    <3>1. calls'[d] = calls[d] /\ calls[d] \in Call /\ store \in Store
      BY <2>2 DEF InductiveInvariant, TypeOK
    <3>2. CallConsistent(store, calls[d])
      BY DEF InductiveInvariant
    <3> QED
      BY <3>1, <3>2, CallMovesOn
  <2> QED
    BY <2>1, <2>2
<1>3. BatchConsistent'
  BY DEF InductiveInvariant, BatchConsistent, Free
<1> QED
  BY <1>1, <1>2, <1>3 DEF InductiveInvariant

(* A step of shell c that leaves the store alone. *)
LEMMA LocalStep ==
  ASSUME InductiveInvariant, NEW c \in Clients, NEW after \in Call,
         calls' = [calls EXCEPT ![c] = after],
         UNCHANGED <<store, batch>>, CallConsistent(store, after)
  PROVE  InductiveInvariant'
<1>1. TypeOK'
  BY DEF InductiveInvariant, TypeOK
<1>2. \A d \in Clients : CallConsistent(store', calls'[d])
  BY DEF InductiveInvariant, TypeOK
<1>3. BatchConsistent'
  BY DEF InductiveInvariant, BatchConsistent
<1> QED
  BY <1>1, <1>2, <1>3 DEF InductiveInvariant

(* A client that submits keeps the invariant. *)
LEMMA SubmitOK ==
  ASSUME InductiveInvariant, NEW c \in Clients, NEW q \in Requests, Submit(c, q)
  PROVE  InductiveInvariant'
<1> DEFINE after == [Idle EXCEPT !.pc = "start", !.request = q]
<1>1. after \in Call
  BY RequestFacts DEF Idle, Call
<1>2. CallConsistent(store, after)
  BY DEF Idle, CallConsistent, AnswerDurable
<1> QED
  BY <1>1, <1>2, LocalStep DEF Submit

(* A client that leaves keeps it. *)
LEMMA LeaveOK ==
  ASSUME InductiveInvariant, NEW c \in Clients, Leave(c)
  PROVE  InductiveInvariant'
<1>1. Idle \in Call /\ CallConsistent(store, Idle)
  BY DEF Idle, Call, CallConsistent, AnswerDurable
<1> QED
  BY <1>1, LocalStep DEF Leave

(* A call past "idle" carries a request, and the requests of its kind. *)
LEMMA AtFacts ==
  ASSUME InductiveInvariant, NEW c \in Clients, calls[c].pc # "idle"
  PROVE  /\ calls[c] \in Call /\ calls[c].request \in Requests
         /\ CallConsistent(store, calls[c])
         /\ store \in Store /\ IndexIsExact(store) /\ IsKernelPath(store)
  BY DEF InductiveInvariant, TypeOK, CallConsistent

(* What Respond leaves in the call. *)
Responded(call, answer, document) ==
  [call EXCEPT !.pc = "done", !.answer = answer, !.commit = document]

(* The parts of a call that was answered. *)
LEMMA RespondedFacts ==
  ASSUME NEW call \in Call, call.request \in Requests,
         NEW answer \in {"ok", "not_found", "stale_revision", "kernel",
                         "invalid_recording"} \cup Refusals,
         NEW document \in RecordedCommit \cup {None}
  PROVE  /\ Responded(call, answer, document) \in Call
         /\ Responded(call, answer, document).pc = "done"
         /\ Responded(call, answer, document).answer = answer
         /\ Responded(call, answer, document).commit = document
         /\ Responded(call, answer, document).request = call.request
         /\ \A st : CallConsistent(st, Responded(call, answer, document))
                  <=> AnswerDurable(st, Responded(call, answer, document))
<1>1. /\ Responded(call, answer, document) \in Call
      /\ Responded(call, answer, document).pc = "done"
      /\ Responded(call, answer, document).answer = answer
      /\ Responded(call, answer, document).commit = document
      /\ Responded(call, answer, document).request = call.request
  BY DEF Responded, Call
<1> QED
  BY <1>1 DEF CallConsistent

(* What answering a call does to the calls. *)
LEMMA RespondIs ==
  ASSUME TypeOK, NEW c \in Clients, NEW answer, NEW document,
         Respond(c, answer, document)
  PROVE  calls' = [calls EXCEPT ![c] = Responded(calls[c], answer, document)]
  BY DEF Respond, Responded, TypeOK, Call

(* A refusal that leaves the store alone. *)
LEMMA RefusedOK ==
  ASSUME InductiveInvariant, NEW c \in Clients, calls[c].pc # "idle",
         NEW answer \in {"not_found", "stale_revision", "kernel",
                         "invalid_recording"} \cup Refusals,
         Respond(c, answer, None), UNCHANGED <<store, batch>>
  PROVE  InductiveInvariant'
<1> DEFINE after == Responded(calls[c], answer, None)
<1>1. answer # "ok"
  BY DEF Refusals
<1>2. after \in Call /\ after.answer = answer
      /\ (CallConsistent(store, after) <=> AnswerDurable(store, after))
  BY AtFacts, RespondedFacts
<1>3. CallConsistent(store, after)
  BY <1>1, <1>2 DEF AnswerDurable
<1>4. calls' = [calls EXCEPT ![c] = after]
  BY RespondIs DEF InductiveInvariant
<1> HIDE DEF after
<1> QED
  BY <1>2, <1>3, <1>4, LocalStep

-----------------------------------------------------------------------------
(* One lemma per action of a shell. *)

(* Creating keeps the invariant. *)
LEMMA CreateOK ==
  ASSUME InductiveInvariant, NEW c \in Clients, Create(c)
  PROVE  InductiveInvariant'
<1> DEFINE q == calls[c].request
           sealed == Seal(create(q.subject, q.input), q.record_id)
           res == commit_recorded(store, sealed, Absent)
           after == Responded(calls[c], res.outcome, sealed)
<1>0. Free /\ calls[c].pc = "start" /\ q.kind = "create" /\ UNCHANGED batch
  BY DEF Create, At
<1>1. /\ calls[c] \in Call /\ q \in Requests
      /\ store \in Store /\ IndexIsExact(store) /\ IsKernelPath(store)
  BY <1>0, AtFacts
<1>2. q.subject \in Subjects /\ q.input \in Creations /\ q.record_id \in RecordId
  BY <1>0, <1>1, RequestFacts
<1>3. /\ create(q.subject, q.input) \in Decision
      /\ create(q.subject, q.input).instance.subject = q.subject
      /\ create(q.subject, q.input).instance.revision = 1
      /\ create(q.subject, q.input).command = q.input
  BY <1>2, CreateType
<1>4. /\ sealed \in RecordedCommit
      /\ sealed.instance.subject = q.subject /\ sealed.instance.revision = 1
      /\ sealed.envelope.record_id = q.record_id
      /\ sealed.envelope.command = q.input
  BY <1>2, <1>3, SealType
<1>5. CASE q.record_id = Blank
  <2>1. Respond(c, "invalid_recording", None) /\ UNCHANGED <<store, batch>>
    BY <1>0, <1>5 DEF Create
  <2> QED
    BY <1>0, <2>1, RefusedOK
<1>6. CASE q.record_id # Blank
  <2>1. store' = res.store /\ Respond(c, res.outcome, sealed)
    BY <1>6 DEF Create
  <2> HIDE DEF sealed
  <2>2. /\ res.store \in Store /\ IndexIsExact(res.store) /\ IsKernelPath(res.store)
        /\ Extends(store, res.store) /\ Advances(store, res.store)
        /\ res.outcome \in {"ok"} \cup Refusals
        /\ res.outcome = "ok" =>
             /\ sealed.envelope.result = sealed.instance
             /\ \E i \in DOMAIN res.store.records[q.subject] :
                  res.store.records[q.subject][i] = sealed.envelope
    BY <1>1, <1>4, CommitRecordedStep
  <2> HIDE DEF res
  <2>3. /\ after \in Call /\ after.pc = "done" /\ after.answer = res.outcome
        /\ after.commit = sealed /\ after.request = q
        /\ (CallConsistent(res.store, after) <=> AnswerDurable(res.store, after))
    <3>1. /\ res.outcome \in {"ok", "not_found", "stale_revision", "kernel",
                               "invalid_recording"} \cup Refusals
          /\ sealed \in RecordedCommit \cup {None}
      BY <1>4, <2>2
    <3>2. /\ after \in Call /\ after.pc = "done" /\ after.answer = res.outcome
          /\ after.commit = sealed /\ after.request = q
      BY <1>1, <3>1 DEF Responded, Call
    <3> QED
      BY <1>1, <3>2 DEF CallConsistent
  <2>4. calls' = [calls EXCEPT ![c] = after]
    BY <2>1, RespondIs DEF InductiveInvariant
  <2> HIDE DEF after
  <2>5. AnswerDurable(res.store, after)
    BY <1>0, <1>4, <2>2, <2>3 DEF AnswerDurable
  <2> QED
    BY <1>0, <2>1, <2>2, <2>3, <2>4, <2>5, CallStep
<1> QED
  BY <1>5, <1>6

(* Loading the instance keeps it. *)
LEMMA GetOK ==
  ASSUME InductiveInvariant, NEW c \in Clients, Get(c)
  PROVE  InductiveInvariant'
<1> DEFINE q == calls[c].request
           held == store.instances[q.subject]
           after == [calls[c] EXCEPT !.pc = "match", !.instance = held]
<1>0. Free /\ calls[c].pc = "start" /\ q.kind = "execute" /\ UNCHANGED <<store, batch>>
  BY DEF Get, At
<1>1. calls[c] \in Call /\ q \in Requests /\ store \in Store
  BY <1>0, AtFacts
<1>2. q.subject \in Subjects
  BY <1>1, RequestFacts
<1>3. CASE held = None
  <2>1. Respond(c, "not_found", None)
    BY <1>3 DEF Get
  <2> QED
    BY <1>0, <2>1, RefusedOK
<1>4. CASE held # None
  <2>1. held \in Instance /\ held.subject = q.subject /\ held.revision \in Nat
    BY <1>1, <1>2, <1>4, StoreFacts, InstanceFacts
       DEF InductiveInvariant, IsKernelPath, Placed
  <2>2. calls' = [calls EXCEPT ![c] = after]
    BY <1>1, <1>4 DEF Get, InductiveInvariant, TypeOK, Call
  <2>3. after \in Call /\ after.pc = "match" /\ after.request = q /\ after.instance = held
    BY <1>1, <2>1 DEF Call
  <2> HIDE DEF after
  <2>4. CallConsistent(store, after)
    BY <1>0, <1>1, <1>4, <2>1, <2>3
       DEF CallConsistent, LoadedHolds, AnswerDurable
  <2> QED
    BY <1>0, <2>2, <2>3, <2>4, LocalStep
<1> QED
  BY <1>3, <1>4

(* Looking the record id up in the history keeps it. *)
LEMMA HistoryOK ==
  ASSUME InductiveInvariant, NEW c \in Clients, History(c)
  PROVE  InductiveInvariant'
<1> DEFINE q == calls[c].request
           s == q.subject
           held == calls[c].instance
           found == HeldRecord(store, s, q.record_id)
           place == CHOOSE i \in found : \A j \in found : i <= j
           first == store.records[s][place]
           sealed == Seal(execute(held, q.input), q.record_id)
<1>0. Free /\ calls[c].pc = "match" /\ q.kind = "execute" /\ UNCHANGED <<store, batch>>
  BY DEF History, At
<1>1. /\ calls[c] \in Call /\ q \in Requests /\ store \in Store
      /\ LoadedHolds(store, calls[c]) /\ IndexIsExact(store)
  BY <1>0, AtFacts DEF CallConsistent
<1>2. /\ s \in Subjects /\ q.input \in Operations /\ q.expected \in Nat
      /\ q.record_id \in RecordId
  BY <1>0, <1>1, RequestFacts
<1>3. held \in Instance /\ held.subject = s /\ held.revision \in Nat
  BY <1>1, InstanceFacts DEF LoadedHolds
<1>4. CASE found # {} /\ MatchesRequest(first, q)
  <2> DEFINE document == [instance |-> first.result, envelope |-> first]
             after == Responded(calls[c], "ok", document)
  <2>1. place \in found
    <3>1. \E i \in found : \A j \in found : i <= j
      <4>1. \A i, j \in found : i = j
        <5> SUFFICES ASSUME NEW i \in found, NEW j \in found PROVE i = j
          OBVIOUS
        <5>1. /\ i \in DOMAIN store.records[s] /\ j \in DOMAIN store.records[s]
              /\ store.records[s][i].record_id = store.records[s][j].record_id
          BY DEF HeldRecord
        <5>2. RecordIndexed(store, s, i)
          BY <1>1, <1>2, <5>1 DEF IndexIsExact
        <5> QED
          BY <5>1, <5>2 DEF RecordIndexed
      <4>2. \A i \in found : i \in Nat
        BY <1>1, <1>2, StoreFacts DEF HeldRecord
      <4>3. PICK i \in found : TRUE
        BY <1>4
      <4> HIDE DEF found
      <4>4. i \in Nat /\ \A j \in found : i = j
        BY <4>1, <4>2
      <4>5. \A j \in found : i <= j
        BY <4>4
      <4> QED
        BY <4>5
    <3> QED
      BY <3>1
  <2>2. place \in DOMAIN store.records[s] /\ first.record_id = q.record_id
    BY <2>1 DEF HeldRecord
  <2> HIDE DEF place
  <2>3. first \in Envelope /\ first.result \in Instance
    BY <1>1, <1>2, <2>2, StoreFacts
  <2>4. document \in RecordedCommit
    BY <2>3 DEF RecordedCommit
  <2>5. /\ after \in Call /\ after.pc = "done" /\ after.answer = "ok"
        /\ after.commit = document /\ after.request = q
        /\ (CallConsistent(store, after) <=> AnswerDurable(store, after))
    <3>1. document \in RecordedCommit \cup {None}
      BY <2>4
    <3> HIDE DEF document, after
    <3>2. after = Responded(calls[c], "ok", document)
      BY DEF after
    <3> QED
      BY <1>1, <2>4, <3>1, <3>2, RespondedFacts
  <2>6. Respond(c, "ok", document)
    BY <1>4 DEF History, place
  <2>7. calls' = [calls EXCEPT ![c] = after]
    BY <2>6, RespondIs DEF InductiveInvariant
  <2> HIDE DEF after
  <2>8. AnswerDurable(store, after)
    <3>1. /\ document.envelope = first /\ document.instance = first.result
          /\ first.result.revision = q.expected + 1 /\ first.command = q.input
      BY <1>4 DEF MatchesRequest
    <3>2. \E i \in DOMAIN store.records[s] : store.records[s][i] = document.envelope
      BY <2>2
    <3> HIDE DEF document
    <3> QED
      BY <1>0, <2>2, <2>5, <3>1, <3>2 DEF AnswerDurable
  <2> QED
    BY <1>0, <2>5, <2>7, <2>8, LocalStep
<1>5. CASE found # {} /\ ~MatchesRequest(first, q)
  <2>1. Respond(c, "record_conflict", None)
    BY <1>5 DEF History
  <2> QED
    BY <1>0, <2>1, RefusedOK DEF Refusals
<1>6. CASE found = {} /\ held.revision # q.expected
  <2>1. Respond(c, "stale_revision", None)
    BY <1>6 DEF History
  <2> QED
    BY <1>0, <2>1, RefusedOK
<1>7. CASE found = {} /\ held.revision = q.expected /\ ~Admits(held, q.input)
  <2>1. Respond(c, "kernel", None)
    BY <1>7 DEF History
  <2> QED
    BY <1>0, <2>1, RefusedOK
<1>8. CASE /\ found = {} /\ held.revision = q.expected /\ Admits(held, q.input)
           /\ q.record_id = Blank
  <2>1. Respond(c, "invalid_recording", None)
    BY <1>8 DEF History
  <2> QED
    BY <1>0, <2>1, RefusedOK
<1>9. CASE /\ found = {} /\ held.revision = q.expected /\ Admits(held, q.input)
           /\ q.record_id # Blank
  <2> DEFINE after == [calls[c] EXCEPT !.pc = "commit", !.commit = sealed]
  <2>1. sealed \in RecordedCommit
    BY <1>2, <1>3, <1>9, ExecuteType, SealType
  <2>2. calls' = [calls EXCEPT ![c] = after]
    BY <1>1, <1>9 DEF History, InductiveInvariant, TypeOK, Call
  <2>3. /\ after \in Call /\ after.pc = "commit" /\ after.request = q
        /\ after.instance = held /\ after.commit = sealed
    BY <1>1, <2>1 DEF Call
  <2> HIDE DEF after
  <2>4. LoadedHolds(store, after)
    BY <1>1, <2>3 DEF LoadedHolds
  <2>5. DecidedFromLoaded(after)
    BY <1>2, <1>9, <2>3 DEF DecidedFromLoaded, RecordId
  <2>6. CallConsistent(store, after)
    BY <1>1, <2>3, <2>4, <2>5 DEF CallConsistent, AnswerDurable
  <2> QED
    BY <1>0, <2>2, <2>3, <2>6, LocalStep
<1> QED
  BY <1>4, <1>5, <1>6, <1>7, <1>8, <1>9

(* Committing what was decided keeps it. *)
LEMMA CommitOK ==
  ASSUME InductiveInvariant, NEW c \in Clients, Commit(c)
  PROVE  InductiveInvariant'
<1> DEFINE q == calls[c].request
           loaded == calls[c].instance
           sealed == calls[c].commit
           res == commit_recorded(store, sealed, q.expected)
           after == Responded(calls[c], res.outcome, sealed)
<1>0. /\ Free /\ calls[c].pc = "commit" /\ q.kind = "execute" /\ UNCHANGED batch
      /\ store' = res.store /\ Respond(c, res.outcome, sealed)
  BY DEF Commit, At
<1>1. /\ calls[c] \in Call /\ q \in Requests
      /\ store \in Store /\ IndexIsExact(store) /\ IsKernelPath(store)
      /\ LoadedHolds(store, calls[c]) /\ DecidedFromLoaded(calls[c])
  BY <1>0, AtFacts DEF CallConsistent
<1>2. /\ q.subject \in Subjects /\ q.input \in Operations /\ q.expected \in Nat
      /\ q.record_id \in RecordId
  BY <1>0, <1>1, RequestFacts
<1>3. /\ loaded \in Instance /\ loaded.subject = q.subject
      /\ loaded.revision = q.expected /\ Admits(loaded, q.input)
      /\ sealed = Seal(execute(loaded, q.input), q.record_id)
  BY <1>1 DEF LoadedHolds, DecidedFromLoaded
<1>4. /\ execute(loaded, q.input) \in Decision
      /\ execute(loaded, q.input).instance.subject = q.subject
      /\ execute(loaded, q.input).instance.revision = q.expected + 1
      /\ execute(loaded, q.input).command = q.input
  BY <1>2, <1>3, ExecuteType
<1>5. /\ sealed \in RecordedCommit
      /\ sealed.instance = execute(loaded, q.input).instance
      /\ sealed.envelope.record_id = q.record_id
      /\ sealed.envelope.command = q.input
  BY <1>2, <1>3, <1>4, SealType
<1> HIDE DEF sealed, loaded
<1>6. LET held == store.instances[sealed.instance.subject]
          op   == sealed.envelope.command
      IN held # None /\ held.revision = q.expected =>
           /\ op \in Operations /\ Admits(held, op)
           /\ sealed.instance = execute(held, op).instance
  <2>1. sealed.instance.subject = q.subject
    BY <1>4, <1>5
  <2>2. store.instances[q.subject].revision = q.expected =>
             loaded = store.instances[q.subject]
    BY <1>1, <1>3 DEF LoadedHolds, loaded
  <2> QED
    BY <2>1, <2>2, <1>2, <1>3, <1>5
<1>7. /\ res.store \in Store /\ IndexIsExact(res.store) /\ IsKernelPath(res.store)
      /\ Extends(store, res.store) /\ Advances(store, res.store)
      /\ res.outcome \in {"ok"} \cup Refusals
      /\ res.outcome = "ok" =>
           /\ sealed.envelope.result = sealed.instance
           /\ \E i \in DOMAIN res.store.records[sealed.instance.subject] :
                res.store.records[sealed.instance.subject][i] = sealed.envelope
  BY ZenonT(30), <1>1, <1>2, <1>5, <1>6, CommitRecordedStep
<1> HIDE DEF res
<1>8. /\ after \in Call /\ after.pc = "done" /\ after.answer = res.outcome
      /\ after.commit = sealed /\ after.request = q
  <2>1. /\ res.outcome \in {"ok", "not_found", "stale_revision", "kernel",
                             "invalid_recording"} \cup Refusals
        /\ sealed \in RecordedCommit \cup {None}
    BY <1>5, <1>7
  <2> QED
    BY <1>1, <2>1 DEF Responded, Call
<1>9. calls' = [calls EXCEPT ![c] = after]
  BY <1>0, RespondIs DEF InductiveInvariant
<1> HIDE DEF after
<1>10. AnswerDurable(res.store, after)
  BY <1>0, <1>4, <1>5, <1>7, <1>8 DEF AnswerDurable
<1>11. CallConsistent(res.store, after)
  BY <1>1, <1>8, <1>10 DEF CallConsistent
<1> QED
  BY <1>0, <1>7, <1>8, <1>9, <1>11, CallStep

(* Recording an observation keeps it. *)
LEMMA ObserveOK ==
  ASSUME InductiveInvariant, NEW c \in Clients, Observe(c)
  PROVE  InductiveInvariant'
<1> DEFINE q == calls[c].request
           o == ObservationOf(q)
           res == observe(store, o)
           after == Responded(calls[c], res.outcome, None)
<1>0. /\ Free /\ calls[c].pc = "start" /\ q.kind = "observe" /\ UNCHANGED batch
      /\ store' = res.store /\ Respond(c, res.outcome, None)
  BY DEF Observe, At
<1>1. /\ calls[c] \in Call /\ q \in Requests
      /\ store \in Store /\ IndexIsExact(store) /\ IsKernelPath(store)
  BY <1>0, AtFacts
<1>2. o \in RecordedObservation /\ o.subject = q.subject
  BY <1>0, <1>1, ObservationType
<1> HIDE DEF o
<1>3. /\ res.store \in Store /\ IndexIsExact(res.store) /\ IsKernelPath(res.store)
      /\ Extends(store, res.store) /\ Advances(store, res.store)
      /\ res.outcome \in {"ok"} \cup Refusals
      /\ res.outcome = "ok" =>
           \E i \in DOMAIN res.store.observations[o.subject] :
             res.store.observations[o.subject][i] = o
  BY <1>1, <1>2, ObserveStep
<1> HIDE DEF res
<1>4. /\ after \in Call /\ after.pc = "done" /\ after.answer = res.outcome
      /\ after.request = q
  <2>1. res.outcome \in {"ok", "not_found", "stale_revision", "kernel",
                          "invalid_recording"} \cup Refusals
    BY <1>3
  <2> QED
    BY <1>1, <2>1 DEF Responded, Call
<1>5. calls' = [calls EXCEPT ![c] = after]
  BY <1>0, RespondIs DEF InductiveInvariant
<1> HIDE DEF after
<1>6. AnswerDurable(res.store, after)
  BY <1>0, <1>2, <1>3, <1>4 DEF AnswerDurable, o
<1>7. CallConsistent(res.store, after)
  BY <1>1, <1>4, <1>6 DEF CallConsistent
<1> QED
  BY <1>0, <1>3, <1>4, <1>5, <1>7, CallStep

-----------------------------------------------------------------------------
(* One lemma per action of the batch caller. *)

(* A step that only changes the batch, to one that is still consistent. *)
LEMMA BatchOnly ==
  ASSUME InductiveInvariant, UNCHANGED <<store, calls>>, batch' \in Batch, BatchConsistent'
  PROVE  InductiveInvariant'
  BY DEF InductiveInvariant, TypeOK

(* Planning an entry of a batch keeps it. *)
LEMMA PlanOK ==
  ASSUME InductiveInvariant, NEW s \in Subjects, NEW op \in Operations, Plan(s, op)
  PROVE  InductiveInvariant'
<1>0. /\ batch \in Batch /\ batch.candidate = None /\ store \in Store
      /\ UNCHANGED <<store, calls>>
      /\ batch.entries \in Seq(AtomicCommit)
  BY DEF InductiveInvariant, TypeOK, Plan, Free, Batch
<1>1. PICK held : /\ held \in IF Planned(s) = {} THEN {store.instances[s]}
                                ELSE LastPlanned(s)
                  /\ held # None /\ Admits(held, op)
                  /\ batch' = [batch EXCEPT !.entries =
                       Append(@, [decision |-> execute(held, op),
                                  expect |-> held.revision])]
  BY DEF Plan
<1> DEFINE entry == [decision |-> execute(held, op), expect |-> held.revision]
<1>2. \A i \in DOMAIN batch.entries : batch.entries[i].decision.instance \in Instance
  <2>1. \A i \in DOMAIN batch.entries : batch.entries[i] \in AtomicCommit
    BY <1>0
  <2> QED
    BY <2>1 DEF AtomicCommit, Decision
<1>3. held \in Instance /\ held.revision \in Nat
  BY <1>0, <1>1, <1>2, StoreFacts, InstanceFacts DEF LastPlanned, Planned
<1>4. /\ entry \in AtomicCommit /\ entry.expect \in Nat
      /\ entry.decision.instance.revision = entry.expect + 1
  BY <1>1, <1>3, ExecuteType DEF AtomicCommit
<1> HIDE DEF entry
<1>5. /\ batch'.entries = Append(batch.entries, entry) /\ batch'.next = batch.next
      /\ batch'.candidate = None /\ batch' \in Batch
  <2>1. batch' = [batch EXCEPT !.entries = Append(batch.entries, entry)]
    BY <1>1 DEF entry
  <2> QED
    BY SMTT(30), <1>0, <1>4, <2>1 DEF Batch
<1>6. BatchConsistent'
  <2>1. ASSUME NEW i \in DOMAIN batch'.entries
        PROVE  /\ batch'.entries[i].expect \in Nat
               /\ batch'.entries[i].decision.instance.revision =
                    batch'.entries[i].expect + 1
    <3>1. CASE i = Len(batch.entries) + 1
      BY <1>0, <1>4, <1>5, <3>1
    <3>2. CASE i # Len(batch.entries) + 1
      <4>1. i \in DOMAIN batch.entries /\ batch'.entries[i] = batch.entries[i]
        BY <1>0, <1>4, <1>5, <3>2
      <4> QED
        BY <4>1 DEF InductiveInvariant, BatchConsistent
    <3> QED
      BY <3>1, <3>2
  <2> QED
    BY <2>1, <1>5 DEF InductiveInvariant, BatchConsistent
<1> QED
  BY <1>0, <1>5, <1>6, BatchOnly

(* Beginning a batch keeps it. *)
LEMMA BatchBeginOK ==
  ASSUME InductiveInvariant, BatchBegin
  PROVE  InductiveInvariant'
<1>0. /\ batch \in Batch /\ store \in Store /\ UNCHANGED <<store, calls>>
      /\ batch' = [batch EXCEPT !.candidate = store, !.next = 1]
      /\ IsKernelPath(store)
  BY DEF InductiveInvariant, TypeOK, BatchBegin
<1>1. /\ batch' \in Batch /\ batch'.candidate = store /\ batch'.next = 1
      /\ batch'.entries = batch.entries
  BY <1>0 DEF Batch
<1>2. Advances(store, store) /\ \A s \in Subjects : Keeps(store.events[s], store.events[s])
  BY <1>0, ExtendsReflexive, KeepsReflexive
<1>3. BatchConsistent'
  BY <1>0, <1>1, <1>2 DEF InductiveInvariant, BatchConsistent, Advances, Keeps,
     IsKernelPath
<1> QED
  BY <1>0, <1>1, <1>3, BatchOnly

(* Dropping a batch keeps it. *)
LEMMA NoBatchOK ==
  ASSUME InductiveInvariant, UNCHANGED <<store, calls>>, batch' = NoBatch
  PROVE  InductiveInvariant'
<1>1. NoBatch \in Batch
  BY DEF NoBatch, Batch
<1>2. BatchConsistent'
  BY DEF NoBatch, BatchConsistent
<1> QED
  BY <1>1, <1>2, BatchOnly

(* Revisions that never go back never go back over two steps. *)
LEMMA AdvancesTransitive ==
  ASSUME NEW a \in Store, NEW b \in Store, NEW e \in Store,
         Advances(a, b), Advances(b, e)
  PROVE  Advances(a, e)
<1> SUFFICES ASSUME NEW s \in Subjects, a.instances[s] # None
             PROVE  /\ e.instances[s] # None
                    /\ a.instances[s].revision <= e.instances[s].revision
                    /\ a.instances[s].revision = e.instances[s].revision =>
                         a.instances[s] = e.instances[s]
  BY DEF Advances
<1>1. /\ b.instances[s] # None /\ e.instances[s] # None
      /\ a.instances[s].revision <= b.instances[s].revision
      /\ b.instances[s].revision <= e.instances[s].revision
      /\ a.instances[s].revision = b.instances[s].revision =>
           a.instances[s] = b.instances[s]
      /\ b.instances[s].revision = e.instances[s].revision =>
           b.instances[s] = e.instances[s]
  BY DEF Advances
<1>2. /\ a.instances[s].revision \in Nat /\ b.instances[s].revision \in Nat
      /\ e.instances[s].revision \in Nat
  BY <1>1, StoreFacts, InstanceFacts
<1> QED
  BY <1>1, <1>2

(* Applying an entry to the candidate keeps it. *)
LEMMA BatchEntryOK ==
  ASSUME InductiveInvariant, BatchEntry
  PROVE  InductiveInvariant'
<1> DEFINE old == batch.candidate
           n == batch.next
           entry == batch.entries[n]
           d == entry.decision
           z == d.instance.subject
           res == commit(old, d, entry.expect)
           nu == Committed(old, d)
<1>0. /\ batch \in Batch /\ old # None /\ n <= Len(batch.entries)
      /\ store \in Store /\ UNCHANGED <<store, calls>>
      /\ batch' = IF res.outcome = "ok"
                  THEN [batch EXCEPT !.candidate = res.store, !.next = @ + 1]
                  ELSE NoBatch
  BY DEF InductiveInvariant, TypeOK, BatchEntry, Free
<1>1. CASE res.outcome # "ok"
  BY <1>0, <1>1, NoBatchOK
<1>2. CASE res.outcome = "ok"
  <2>1. /\ old \in Store /\ n \in Nat /\ n >= 1
        /\ batch.entries \in Seq(AtomicCommit) /\ n \in DOMAIN batch.entries
    BY <1>0 DEF Batch, InductiveInvariant, BatchConsistent
  <2>2. entry \in AtomicCommit
    BY <2>1
  <2>3. d \in Decision /\ d.instance \in Instance /\ z \in Subjects
    BY <2>2, InstanceFacts DEF AtomicCommit, Decision
  <2>4. /\ old.records = store.records /\ old.observations = store.observations
        /\ old.record_ids = store.record_ids
        /\ \A s \in Subjects : Keeps(store.events[s], old.events[s])
        /\ Advances(store, old) /\ IsKernelPath(old)
        /\ entry.expect \in Nat /\ d.instance.revision = entry.expect + 1
    BY <1>0, <2>1 DEF InductiveInvariant, BatchConsistent
  <2>5. res.store = nu /\ check(entry.expect, revision_of(old, z))
    BY <1>2, CommitCases
  <2>6. d.instance.revision = old.instances[z].revision + 1
    BY <2>4, <2>5, StoreAssumption DEF check, revision_of
  <2>7. /\ nu \in Store /\ nu.records = old.records
        /\ nu.observations = old.observations /\ nu.record_ids = old.record_ids
    BY <2>1, <2>3, CommittedType
  <2>8. nu.instances = [old.instances EXCEPT ![z] = d.instance]
    BY <2>1, <2>3 DEF Committed, Store
  <2>9. Advances(old, nu)
    <3>1. /\ old \in Store /\ nu \in Store /\ d.instance \in Instance
          /\ nu.instances = [old.instances EXCEPT ![d.instance.subject] = d.instance]
          /\ d.instance.revision = old.instances[d.instance.subject].revision + 1
      BY <2>1, <2>3, <2>6, <2>7, <2>8
    <3> HIDE DEF nu, old, d
    <3> QED
      BY <3>1, WriteAdvances
  <2>10. Advances(store, nu)
    BY <1>0, <2>1, <2>4, <2>7, <2>9, AdvancesTransitive
  <2>11. IsKernelPath(nu)
    BY <2>1, <2>3, <2>4, <2>6, CommittedKeepsPath
  <2>12. ASSUME NEW s \in Subjects PROVE Keeps(store.events[s], nu.events[s])
    <3>1. Keeps(store.events[s], old.events[s]) /\ Keeps(old.events[s], nu.events[s])
      BY <2>1, <2>3, <2>4, CommittedExtends DEF Extends
    <3> QED
      BY <3>1 DEF Keeps
  <2> HIDE DEF nu, res, old, entry
  <2>13. batch' = [batch EXCEPT !.candidate = nu, !.next = n + 1]
    BY <1>0, <1>2, <2>5
  <2>14. /\ batch' \in Batch /\ batch'.candidate = nu /\ batch'.entries = batch.entries
         /\ batch'.next = n + 1
    <3>1. batch \in Batch /\ n + 1 \in Nat /\ nu \in Store \cup {None}
      BY <1>0, <2>1, <2>7
    <3> HIDE DEF n
    <3> QED
      BY <3>1, <2>13 DEF Batch
  <2>15. BatchConsistent'
    <3>1. store' = store
      BY <1>0
    <3>2. Advances(store', batch'.candidate) /\ IsKernelPath(batch'.candidate)
      BY <2>10, <2>11, <2>14, <3>1
    <3> QED
      BY <2>1, <2>4, <2>7, <2>12, <2>14, <3>1, <3>2 DEF InductiveInvariant, BatchConsistent
  <2> QED
    BY <1>0, <2>14, <2>15, BatchOnly
<1> QED
  BY <1>1, <1>2

(* The candidate of a batch is the store and what the batch added. *)
LEMMA SwapExtends ==
  ASSUME InductiveInvariant, batch.candidate # None
  PROVE  /\ store \in Store /\ batch.candidate \in Store
         /\ Extends(store, batch.candidate) /\ Advances(store, batch.candidate)
         /\ IsKernelPath(batch.candidate) /\ IndexIsExact(batch.candidate)
<1>1. store \in Store /\ batch.candidate \in Store
  BY DEF InductiveInvariant, TypeOK, Batch
<1>2. /\ batch.candidate.records = store.records
      /\ batch.candidate.observations = store.observations
      /\ batch.candidate.record_ids = store.record_ids
      /\ \A s \in Subjects : Keeps(store.events[s], batch.candidate.events[s])
      /\ Advances(store, batch.candidate) /\ IsKernelPath(batch.candidate)
  BY DEF InductiveInvariant, BatchConsistent
<1>3. Extends(store, batch.candidate)
  BY <1>2, KeepsReflexive DEF Extends
<1>4. IndexIsExact(batch.candidate)
  <2>0. IndexIsExact(store)
    BY DEF InductiveInvariant
  <2>1. ASSUME NEW s \in Subjects, NEW i \in DOMAIN batch.candidate.records[s]
        PROVE  RecordIndexed(batch.candidate, s, i)
    <3>1. RecordIndexed(store, s, i)
      BY <2>0, <1>2 DEF IndexIsExact
    <3> QED
      BY <3>1, <1>2 DEF RecordIndexed
  <2>2. ASSUME NEW s \in Subjects, NEW i \in DOMAIN batch.candidate.observations[s]
        PROVE  ObservationIndexed(batch.candidate, s, i)
    <3>1. ObservationIndexed(store, s, i)
      BY <2>0, <1>2 DEF IndexIsExact
    <3> QED
      BY <3>1, <1>2 DEF ObservationIndexed
  <2>3. ASSUME NEW r \in RecordIds
        PROVE  NameHeld(batch.candidate, r)
    <3>1. NameHeld(store, r)
      BY <2>0 DEF IndexIsExact
    <3> QED
      BY <3>1, <1>2 DEF NameHeld
  <2> QED
    BY <2>1, <2>2, <2>3 DEF IndexIsExact
<1> QED
  BY <1>1, <1>2, <1>3, <1>4

(* Swapping the candidate in keeps it. *)
LEMMA BatchSwapOK ==
  ASSUME InductiveInvariant, BatchSwap
  PROVE  InductiveInvariant'
<1>0. batch.candidate # None /\ store' = batch.candidate /\ batch' = NoBatch /\ calls' = calls
  BY DEF BatchSwap, Free
<1>1. /\ store \in Store /\ store' \in Store
      /\ Extends(store, store') /\ Advances(store, store')
      /\ IsKernelPath(store') /\ IndexIsExact(store')
  BY <1>0, SwapExtends
<1>2. ASSUME NEW c \in Clients PROVE CallConsistent(store', calls'[c])
  <2>1. calls[c] \in Call /\ CallConsistent(store, calls[c])
    BY DEF InductiveInvariant, TypeOK
  <2> QED
    BY <1>0, <1>1, <2>1, CallMovesOn
<1>3. NoBatch \in Batch
  BY DEF NoBatch, Batch
<1>4. TypeOK'
  BY <1>0, <1>1, <1>3 DEF InductiveInvariant, TypeOK
<1>5. BatchConsistent'
  BY <1>0 DEF NoBatch, BatchConsistent
<1> QED
  BY <1>1, <1>2, <1>4, <1>5 DEF InductiveInvariant

-----------------------------------------------------------------------------

(* A step that changes nothing keeps it. *)
LEMMA StutterOK ==
  ASSUME InductiveInvariant, UNCHANGED vars
  PROVE  InductiveInvariant'
  BY DEF vars, InductiveInvariant, TypeOK, BatchConsistent

(* Every step keeps it. *)
LEMMA NextOK ==
  ASSUME InductiveInvariant, [Next]_vars
  PROVE  InductiveInvariant'
<1>1. ASSUME NEW c \in Clients, NEW q \in Requests, Submit(c, q)
      PROVE  InductiveInvariant'
  BY <1>1, SubmitOK
<1>2. ASSUME NEW c \in Clients, ClientStep(c)
      PROVE  InductiveInvariant'
  BY <1>2, CreateOK, GetOK, HistoryOK, CommitOK, ObserveOK, LeaveOK DEF ClientStep
<1>3. ASSUME NEW s \in Subjects, NEW op \in Operations, Plan(s, op)
      PROVE  InductiveInvariant'
  BY <1>3, PlanOK
<1>4. ASSUME BatchStep
      PROVE  InductiveInvariant'
  BY <1>4, BatchBeginOK, BatchEntryOK, BatchSwapOK DEF BatchStep
<1> QED
  BY <1>1, <1>2, <1>3, <1>4, StutterOK DEF Next

(* The strengthening holds in every reachable state. *)
THEOREM Inductive == Spec => []InductiveInvariant
  BY InitOK, NextOK, PTL DEF Spec

(* Every variable keeps its type: in particular no revision passes the     *)
(* kernel's limit and no record id outside the caller's is ever indexed.   *)
THEOREM TypeCorrect == Spec => []TypeOK
<1>1. InductiveInvariant => TypeOK
  BY DEF InductiveInvariant
<1> QED
  BY <1>1, Inductive, PTL

(* However shells, retries and batches interleave, one record id names one *)
(* entry of one subject, in any store of any size.                         *)
THEOREM RecordIdentity == Spec => []RecordIdsUnique
<1>1. InductiveInvariant => RecordIdsUnique
  <2> SUFFICES ASSUME InductiveInvariant, NEW s \in Subjects, NEW t \in Subjects
               PROVE
      /\ \A i \in DOMAIN store.records[s], j \in DOMAIN store.records[t] :
           store.records[s][i].record_id = store.records[t][j].record_id
             => s = t /\ i = j
      /\ \A i \in DOMAIN store.observations[s], j \in DOMAIN store.observations[t] :
           store.observations[s][i].record_id = store.observations[t][j].record_id
             => s = t /\ i = j
      /\ \A i \in DOMAIN store.records[s], j \in DOMAIN store.observations[t] :
           store.records[s][i].record_id # store.observations[t][j].record_id
    BY DEF RecordIdsUnique
  <2>0. store \in Store
    BY DEF InductiveInvariant, TypeOK
  <2>1. ASSUME NEW i \in DOMAIN store.records[s], NEW j \in DOMAIN store.records[t],
               store.records[s][i].record_id = store.records[t][j].record_id
        PROVE  s = t /\ i = j
    <3>1. RecordIndexed(store, s, i) /\ RecordIndexed(store, t, j)
      BY DEF InductiveInvariant, IndexIsExact
    <3>2. [instance |-> store.records[s][i].result, envelope |-> store.records[s][i]] =
          [instance |-> store.records[t][j].result, envelope |-> store.records[t][j]]
      BY <2>1, <3>1 DEF RecordIndexed
    <3>3. store.records[s][i] = store.records[t][j]
      BY <3>2
    <3> QED
      BY <2>1, <3>1, <3>3 DEF RecordIndexed
  <2>2. ASSUME NEW i \in DOMAIN store.observations[s],
               NEW j \in DOMAIN store.observations[t],
               store.observations[s][i].record_id = store.observations[t][j].record_id
        PROVE  s = t /\ i = j
    <3>1. ObservationIndexed(store, s, i) /\ ObservationIndexed(store, t, j)
      BY DEF InductiveInvariant, IndexIsExact
    <3> QED
      BY <2>2, <3>1 DEF ObservationIndexed
  <2>3. ASSUME NEW i \in DOMAIN store.records[s], NEW j \in DOMAIN store.observations[t],
               store.records[s][i].record_id = store.observations[t][j].record_id
        PROVE  FALSE
    <3> DEFINE e == store.records[s][i]
               d == [instance |-> e.result, envelope |-> e]
    <3>1. RecordIndexed(store, s, i) /\ ObservationIndexed(store, t, j)
      BY DEF InductiveInvariant, IndexIsExact
    <3>2. d = store.observations[t][j]
      BY <2>3, <3>1 DEF RecordIndexed, ObservationIndexed
    <3>3. e \in Envelope /\ e.result \in Instance
      BY <2>0, StoreFacts
    <3>4. d \in RecordedCommit
      BY <3>3 DEF RecordedCommit
    <3>5. store.observations[t] \in Seq(RecordedObservation)
      BY <2>0, StoreFacts
    <3>6. store.observations[t][j] \in RecordedObservation
      BY <3>5
    <3> QED
      BY <3>2, <3>4, <3>6, DocumentsDisjoint
  <2> QED
    BY <2>1, <2>2, <2>3
<1> QED
  BY <1>1, Inductive, PTL

(* Recorded history is a path of the kernel whoever wrote it. *)
THEOREM HistoryPath == Spec => []HistoryIsKernelPath
<1>1. InductiveInvariant => HistoryIsKernelPath
  BY DEF InductiveInvariant, HistoryIsKernelPath
<1> QED
  BY <1>1, Inductive, PTL

(* Nobody is told "ok" for something that is not, or does not stay, in the *)
(* history.                                                                *)
THEOREM OkDurable == Spec => []OkIsDurable
<1>1. InductiveInvariant => OkIsDurable
  BY DEF InductiveInvariant, CallConsistent, OkIsDurable
<1> QED
  BY <1>1, Inductive, PTL

(* No step rewrites history or gives a record id to another document. *)
THEOREM AppendOnly == Spec => HistoryAppendOnly
<1>1. ASSUME InductiveInvariant, [Next]_vars
      PROVE  Extends(store, store')
  <2>0. store \in Store /\ Extends(store, store)
    BY <1>1, ExtendsReflexive DEF InductiveInvariant, TypeOK
  <2>1. CASE UNCHANGED store
    BY <2>0, <2>1
  <2>2. ASSUME NEW c \in Clients, Create(c)
        PROVE  Extends(store, store')
    <3> DEFINE q == calls[c].request
               sealed == Seal(create(q.subject, q.input), q.record_id)
    <3>1. /\ calls[c].pc = "start" /\ q.kind = "create"
          /\ UNCHANGED store \/ store' = commit_recorded(store, sealed, Absent).store
      BY <2>2 DEF Create, At
    <3>2. /\ q \in Requests /\ IndexIsExact(store) /\ IsKernelPath(store)
      BY <1>1, <3>1, AtFacts
    <3>3. sealed \in RecordedCommit
      BY <3>1, <3>2, RequestFacts, CreateType, SealType
    <3> HIDE DEF sealed
    <3>4. Extends(store, commit_recorded(store, sealed, Absent).store)
      BY <2>0, <3>2, <3>3, CommitRecordedStep
    <3> QED
      BY <2>0, <3>1, <3>4
  <2>3. ASSUME NEW c \in Clients, Commit(c)
        PROVE  Extends(store, store')
    <3> DEFINE q == calls[c].request
               sealed == calls[c].commit
    <3>1. /\ calls[c].pc = "commit" /\ q.kind = "execute"
          /\ store' = commit_recorded(store, sealed, q.expected).store
      BY <2>3 DEF Commit, At
    <3>2. /\ q \in Requests /\ IndexIsExact(store) /\ IsKernelPath(store)
          /\ LoadedHolds(store, calls[c]) /\ DecidedFromLoaded(calls[c])
      BY <1>1, <3>1, AtFacts DEF CallConsistent
    <3>3. sealed \in RecordedCommit
      BY <3>1, <3>2, RequestFacts, ExecuteType, SealType DEF LoadedHolds, DecidedFromLoaded
    <3>4. \/ commit_recorded(store, sealed, q.expected).store = store
          \/ /\ commit_recorded(store, sealed, q.expected).store = Recorded(store, sealed)
             /\ CommitValid(sealed)
             /\ store.record_ids[sealed.envelope.record_id] = None
      BY CommitRecordedCases
    <3> QED
      BY <2>0, <3>1, <3>3, <3>4, RecordedExtends
  <2>4. ASSUME NEW c \in Clients, Observe(c)
        PROVE  Extends(store, store')
    <3> DEFINE q == calls[c].request
               o == ObservationOf(q)
    <3>1. /\ calls[c].pc = "start" /\ q.kind = "observe"
          /\ store' = observe(store, o).store
      BY <2>4 DEF Observe, At
    <3>2. /\ q \in Requests /\ IndexIsExact(store) /\ IsKernelPath(store)
      BY <1>1, <3>1, AtFacts
    <3>3. o \in RecordedObservation
      BY <3>1, <3>2, ObservationType
    <3> HIDE DEF o
    <3> QED
      BY <2>0, <3>1, <3>2, <3>3, ObserveStep
  <2>5. CASE BatchSwap
    BY <1>1, <2>5, SwapExtends DEF BatchSwap, Free
  <2> QED
    BY <1>1, <2>1, <2>2, <2>3, <2>4, <2>5
       DEF Next, vars, ClientStep, BatchStep, Submit, Get, History, Leave, Plan,
           BatchBegin, BatchEntry
<1>2. InductiveInvariant /\ [Next]_vars => [Extends(store, store')]_vars
  BY <1>1
<1> QED
  BY <1>2, Inductive, PTL DEF Spec, HistoryAppendOnly

-----------------------------------------------------------------------------
(* What one step may do: no update is lost, no retry is refused, and a     *)
(* batch lands whole.                                                      *)


(* The store after a recorded decision, subject by subject. *)
LEMMA RecordedFacts ==
  ASSUME NEW st \in Store, NEW d \in RecordedCommit, d.envelope.record_id \in RecordIds
  PROVE  LET z == d.instance.subject
             nu == Recorded(st, d)
         IN /\ z \in Subjects /\ d.envelope \in Envelope
            /\ nu.instances = [st.instances EXCEPT ![z] = d.instance]
            /\ nu.observations = st.observations
            /\ \A s \in Subjects : s # z => nu.records[s] = st.records[s]
            /\ nu.records[z] = Append(st.records[z], d.envelope)
  BY DEF Recorded, Store, RecordedCommit, Instance

(* A create that changes the store: nothing was held. *)
LEMMA CreateWrites ==
  ASSUME InductiveInvariant, NEW c \in Clients, Create(c)
  PROVE  LET q == calls[c].request
             d == Seal(create(q.subject, q.input), q.record_id)
         IN \/ UNCHANGED store
            \/ /\ q \in Requests /\ q.subject \in Subjects /\ q.input \in Creations
               /\ d \in RecordedCommit /\ d.envelope.record_id \in RecordIds
               /\ d.instance = create(q.subject, q.input).instance
               /\ d.instance.subject = q.subject /\ d.instance.revision = 1
               /\ d.envelope.command = q.input /\ d.envelope.result = d.instance
               /\ store.instances[q.subject] = None
               /\ store' = Recorded(store, d)
<1> DEFINE q == calls[c].request
           d == Seal(create(q.subject, q.input), q.record_id)
           res == commit_recorded(store, d, Absent)
<1>1. calls[c].pc = "start" /\ q.kind = "create"
  BY DEF Create, At
<1>2. q \in Requests /\ store \in Store
  BY <1>1, AtFacts
<1>3. q.subject \in Subjects /\ q.input \in Creations /\ q.record_id \in RecordId
  BY <1>1, <1>2, RequestFacts
<1>4. /\ d \in RecordedCommit
      /\ d.instance = create(q.subject, q.input).instance
      /\ d.instance.subject = q.subject /\ d.instance.revision = 1
      /\ d.envelope.command = q.input /\ d.envelope.result = d.instance
      /\ d.envelope.record_id = q.record_id
  BY <1>3, CreateType, SealType
<1>5. CASE UNCHANGED store
  BY <1>5
<1>6. CASE q.record_id # Blank /\ store' = res.store
  <2> HIDE DEF d
  <2>1. \/ res.store = store
        \/ /\ res.store = Recorded(store, d)
           /\ check(Absent, revision_of(store, d.instance.subject))
    BY CommitRecordedCases
  <2>2. ASSUME check(Absent, revision_of(store, q.subject))
        PROVE  store.instances[q.subject] = None
    BY <1>2, <1>3, <2>2, StoreFacts, InstanceFacts, StoreAssumption
      DEF check, revision_of
  <2> QED
    BY <1>2, <1>3, <1>4, <1>6, <2>1, <2>2 DEF RecordId, d
<1> QED
  BY <1>5, <1>6 DEF Create

(* An execute that changes the store: the decision was taken on the        *)
(* instance that is held at that moment.                                   *)
LEMMA CommitWrites ==
  ASSUME InductiveInvariant, NEW c \in Clients, Commit(c)
  PROVE  LET q == calls[c].request
             held == store.instances[q.subject]
             d == calls[c].commit
         IN \/ UNCHANGED store
            \/ /\ q \in Requests /\ q.subject \in Subjects /\ q.input \in Operations
               /\ held \in Instance /\ held.subject = q.subject /\ Admits(held, q.input)
               /\ d \in RecordedCommit /\ d.envelope.record_id \in RecordIds
               /\ d = Seal(execute(held, q.input), q.record_id)
               /\ d.instance = execute(held, q.input).instance
               /\ d.instance.subject = q.subject
               /\ d.instance.revision = held.revision + 1
               /\ d.envelope.command = q.input /\ d.envelope.result = d.instance
               /\ d.envelope.record_id = q.record_id
               /\ store' = Recorded(store, d)
<1> DEFINE q == calls[c].request
           loaded == calls[c].instance
           held == store.instances[q.subject]
           d == calls[c].commit
           res == commit_recorded(store, d, q.expected)
<1>1. calls[c].pc = "commit" /\ q.kind = "execute" /\ store' = res.store
  BY DEF Commit, At
<1>2. /\ q \in Requests /\ store \in Store
      /\ LoadedHolds(store, calls[c]) /\ DecidedFromLoaded(calls[c])
  BY <1>1, AtFacts DEF CallConsistent
<1>3. /\ q.subject \in Subjects /\ q.input \in Operations /\ q.expected \in Nat
      /\ q.record_id \in RecordId
  BY <1>1, <1>2, RequestFacts
<1>4. /\ loaded \in Instance /\ loaded.subject = q.subject
      /\ loaded.revision = q.expected /\ Admits(loaded, q.input)
      /\ held # None /\ q.record_id \in RecordIds
      /\ loaded.revision = held.revision => loaded = held
      /\ d = Seal(execute(loaded, q.input), q.record_id)
  BY <1>2 DEF LoadedHolds, DecidedFromLoaded
<1>5. /\ d \in RecordedCommit
      /\ d.instance = execute(loaded, q.input).instance
      /\ d.instance.subject = q.subject
      /\ d.instance.revision = loaded.revision + 1
      /\ d.envelope.command = q.input /\ d.envelope.result = d.instance
      /\ d.envelope.record_id = q.record_id
  BY <1>3, <1>4, ExecuteType, SealType
<1> HIDE DEF d, loaded
<1>6. \/ res.store = store
      \/ /\ res.store = Recorded(store, d)
         /\ check(q.expected, revision_of(store, d.instance.subject))
  BY CommitRecordedCases
<1>7. ASSUME check(q.expected, revision_of(store, q.subject))
      PROVE  held = loaded
  BY <1>3, <1>4, <1>7, StoreAssumption DEF check, revision_of
<1> QED
  BY <1>1, <1>2, <1>3, <1>4, <1>5, <1>6, <1>7 DEF d

(* An observe that changes the store. *)
LEMMA ObserveWrites ==
  ASSUME InductiveInvariant, NEW c \in Clients, Observe(c)
  PROVE  LET o == ObservationOf(calls[c].request)
         IN \/ UNCHANGED store
            \/ /\ o \in RecordedObservation /\ ObservationValid(o)
               /\ store' = Observed(store, o)
<1> DEFINE q == calls[c].request
           o == ObservationOf(q)
<1>1. calls[c].pc = "start" /\ q.kind = "observe" /\ store' = observe(store, o).store
  BY DEF Observe, At
<1>2. o \in RecordedObservation
  BY <1>1, AtFacts, ObservationType
<1> HIDE DEF o
<1>3. \/ observe(store, o).store = store
      \/ observe(store, o).store = Observed(store, o) /\ ObservationValid(o)
  BY ObserveCases
<1> QED
  BY <1>1, <1>2, <1>3 DEF o

(* Every step leaves the store alone, or is one of these three writes, or  *)
(* the end of a batch.                                                     *)
LEMMA StoreSteps ==
  ASSUME InductiveInvariant, [Next]_vars
  PROVE  \/ UNCHANGED store
         \/ \E c \in Clients : Create(c) \/ Commit(c) \/ Observe(c)
         \/ BatchSwap
  BY DEF Next, vars, ClientStep, BatchStep, Submit, Get, History, Leave, Plan,
     BatchBegin, BatchEntry

-----------------------------------------------------------------------------
(* No step overwrites an instance with a decision taken on another one:    *)
(* the check of the expected revision and the load it was decided on agree *)
(* however long ago the shell loaded.                                      *)
THEOREM UpdatesKept == Spec => NoLostUpdate
<1>1. ASSUME InductiveInvariant, [Next]_vars, Free, NEW s \in Subjects,
             store'.instances[s] # store.instances[s]
      PROVE  IF store.instances[s] = None
             THEN \E input \in Creations :
                    store'.instances[s] = create(s, input).instance
             ELSE \E op \in Operations :
                    /\ Admits(store.instances[s], op)
                    /\ store'.instances[s] = execute(store.instances[s], op).instance
  <2>1. store \in Store
    BY <1>1 DEF InductiveInvariant, TypeOK
  <2>2. ASSUME NEW c \in Clients, Create(c)
        PROVE  /\ store.instances[s] = None
               /\ \E input \in Creations : store'.instances[s] = create(s, input).instance
    <3> DEFINE q == calls[c].request
               d == Seal(create(q.subject, q.input), q.record_id)
    <3>1. /\ q.subject \in Subjects /\ q.input \in Creations
          /\ d \in RecordedCommit /\ d.envelope.record_id \in RecordIds
          /\ d.instance = create(q.subject, q.input).instance
          /\ d.instance.subject = q.subject
          /\ store.instances[q.subject] = None
          /\ store' = Recorded(store, d)
      BY <1>1, <2>2, CreateWrites
    <3> HIDE DEF d
    <3>2. store'.instances = [store.instances EXCEPT ![q.subject] = d.instance]
      BY <2>1, <3>1, RecordedFacts
    <3>3. s = q.subject /\ store'.instances[s] = d.instance
      BY <1>1, <2>1, <3>1, <3>2 DEF Store
    <3> QED
      BY <3>1, <3>3
  <2>3. ASSUME NEW c \in Clients, Commit(c)
        PROVE  /\ store.instances[s] # None
               /\ \E op \in Operations :
                    /\ Admits(store.instances[s], op)
                    /\ store'.instances[s] = execute(store.instances[s], op).instance
    <3> DEFINE q == calls[c].request
               held == store.instances[q.subject]
               d == calls[c].commit
    <3>1. /\ q.subject \in Subjects /\ q.input \in Operations
          /\ held \in Instance /\ Admits(held, q.input)
          /\ d \in RecordedCommit /\ d.envelope.record_id \in RecordIds
          /\ d.instance = execute(held, q.input).instance
          /\ d.instance.subject = q.subject
          /\ store' = Recorded(store, d)
      BY <1>1, <2>3, CommitWrites
    <3> HIDE DEF d, held, q
    <3>2. store'.instances = [store.instances EXCEPT ![q.subject] = d.instance]
      <4>1. d \in RecordedCommit /\ d.envelope.record_id \in RecordIds
        BY <3>1
      <4>2. Recorded(store, d).instances =
              [store.instances EXCEPT ![d.instance.subject] = d.instance]
        BY <2>1, <4>1, RecordedFacts
      <4> QED
        BY <3>1, <4>2
    <3>3. s = q.subject /\ store'.instances[s] = d.instance
      BY <1>1, <2>1, <3>1, <3>2 DEF Store
    <3> QED
      BY <3>1, <3>3, InstanceFacts DEF held
  <2>4. ASSUME NEW c \in Clients, Observe(c)
        PROVE  FALSE
    <3> DEFINE o == ObservationOf(calls[c].request)
    <3>1. UNCHANGED store \/ store' = Observed(store, o)
      BY <1>1, <2>4, ObserveWrites
    <3> HIDE DEF o
    <3>2. Observed(store, o).instances = store.instances
      BY <2>1 DEF Observed, Store
    <3> QED
      BY <1>1, <3>1, <3>2
  <2>5. CASE BatchSwap
    BY <1>1, <2>5 DEF BatchSwap
  <2> QED
    BY <1>1, <2>2, <2>3, <2>4, <2>5, StoreSteps
<1>2. InductiveInvariant /\ [Next]_vars =>
        [\A s \in Subjects :
           store'.instances[s] # store.instances[s] /\ Free =>
             IF store.instances[s] = None
             THEN \E input \in Creations :
                    store'.instances[s] = create(s, input).instance
             ELSE \E op \in Operations :
                    /\ Admits(store.instances[s], op)
                    /\ store'.instances[s] = execute(store.instances[s], op).instance]_vars
  BY <1>1
<1> QED
  BY <1>2, Inductive, PTL DEF Spec, NoLostUpdate

-----------------------------------------------------------------------------
(* RetryHolds is inductive: the histories, whatever is written, ... *)
LEMMA HistoriesHold ==
  ASSUME InductiveInvariant, RetryHolds, [Next]_vars
  PROVE  /\ \A s \in Subjects : \A i \in DOMAIN store'.records[s] :
              CreatedFromNothing(store', s, i)
         /\ \A s \in Subjects : \A i \in DOMAIN store'.observations[s] :
              store'.observations[s][i].revision > 0
<1>1. /\ store \in Store
      /\ \A s \in Subjects : \A i \in DOMAIN store.records[s] :
           CreatedFromNothing(store, s, i)
      /\ \A s \in Subjects : \A i \in DOMAIN store.observations[s] :
           store.observations[s][i].revision > 0
  BY DEF InductiveInvariant, TypeOK, RetryHolds
<1>2. CASE UNCHANGED store
  BY <1>1, <1>2
<1>3. ASSUME NEW d \in RecordedCommit, d.envelope.record_id \in RecordIds,
             store' = Recorded(store, d),
             d.envelope.result.revision = 1 =>
               d.envelope = Seal(create(d.instance.subject, d.envelope.command),
                                 d.envelope.record_id).envelope
      PROVE  /\ \A s \in Subjects : \A i \in DOMAIN store'.records[s] :
                  CreatedFromNothing(store', s, i)
             /\ store'.observations = store.observations
  <2> DEFINE z == d.instance.subject
  <2>1. /\ z \in Subjects /\ d.envelope \in Envelope
        /\ store'.observations = store.observations
        /\ \A s \in Subjects : s # z => store'.records[s] = store.records[s]
        /\ store'.records[z] = Append(store.records[z], d.envelope)
    BY <1>1, <1>3, RecordedFacts
  <2>2. store.records[z] \in Seq(Envelope)
    BY <1>1, <2>1, StoreFacts
  <2>3. /\ DOMAIN store'.records[z] = DOMAIN store.records[z] \cup {Len(store.records[z]) + 1}
        /\ \A i \in DOMAIN store.records[z] : store'.records[z][i] = store.records[z][i]
        /\ store'.records[z][Len(store.records[z]) + 1] = d.envelope
    <3> DEFINE old == store.records[z]
               new == store'.records[z]
    <3>1. old \in Seq(Envelope) /\ d.envelope \in Envelope /\ new = Append(old, d.envelope)
      BY <2>1, <2>2
    <3> HIDE DEF old, new
    <3>2. /\ DOMAIN new = DOMAIN old \cup {Len(old) + 1}
          /\ \A i \in DOMAIN old : new[i] = old[i]
          /\ new[Len(old) + 1] = d.envelope
      BY <3>1, AppendFacts
    <3> QED
      BY <3>2 DEF old, new
  <2>4. ASSUME NEW i \in DOMAIN store'.records[z]
        PROVE  CreatedFromNothing(store', z, i)
    <3>1. CASE i \in DOMAIN store.records[z]
      <4>1. store'.records[z][i] = store.records[z][i] /\ CreatedFromNothing(store, z, i)
        BY <1>1, <2>1, <2>3, <3>1
      <4> QED
        BY <4>1 DEF CreatedFromNothing
    <3>2. CASE i = Len(store.records[z]) + 1
      BY <1>3, <2>3, <3>2 DEF CreatedFromNothing
    <3> QED
      BY <2>3, <3>1, <3>2
  <2>5. ASSUME NEW s \in Subjects, s # z, NEW i \in DOMAIN store'.records[s]
        PROVE  CreatedFromNothing(store', s, i)
    <3>1. store'.records[s] = store.records[s] /\ CreatedFromNothing(store, s, i)
      BY <1>1, <2>1, <2>5
    <3> QED
      BY <3>1 DEF CreatedFromNothing
  <2> QED
    BY <2>1, <2>4, <2>5
<1>4. ASSUME NEW c \in Clients, Create(c), store' # store
      PROVE  /\ \A s \in Subjects : \A i \in DOMAIN store'.records[s] :
                  CreatedFromNothing(store', s, i)
             /\ store'.observations = store.observations
  <2> DEFINE q == calls[c].request
             d == Seal(create(q.subject, q.input), q.record_id)
  <2>1. /\ d \in RecordedCommit /\ d.envelope.record_id \in RecordIds
        /\ d.instance.subject = q.subject /\ d.envelope.command = q.input
        /\ store' = Recorded(store, d)
    BY <1>4, CreateWrites
  <2>2. d.envelope.record_id = q.record_id
    BY DEF Seal
  <2>3. d.envelope = Seal(create(d.instance.subject, d.envelope.command),
                          d.envelope.record_id).envelope
    BY <2>1, <2>2
  <2> HIDE DEF d
  <2> QED
    BY <1>3, <2>1, <2>3
<1>5. ASSUME NEW c \in Clients, Commit(c), store' # store
      PROVE  /\ \A s \in Subjects : \A i \in DOMAIN store'.records[s] :
                  CreatedFromNothing(store', s, i)
             /\ store'.observations = store.observations
  <2> DEFINE held == store.instances[calls[c].request.subject]
             d == calls[c].commit
  <2>1. /\ d \in RecordedCommit /\ d.envelope.record_id \in RecordIds
        /\ held \in Instance /\ d.instance.revision = held.revision + 1
        /\ d.envelope.result = d.instance
        /\ store' = Recorded(store, d)
    BY <1>5, CommitWrites
  <2> HIDE DEF d, held
  <2>2. d.envelope.result.revision # 1
    BY <2>1, InstanceFacts
  <2> QED
    BY <1>3, <2>1, <2>2
<1>6. ASSUME NEW c \in Clients, Observe(c), store' # store
      PROVE  /\ store'.records = store.records
             /\ \A s \in Subjects : \A i \in DOMAIN store'.observations[s] :
                  store'.observations[s][i].revision > 0
  <2> DEFINE o == ObservationOf(calls[c].request)
             z == o.subject
  <2>1. o \in RecordedObservation /\ o.revision > 0 /\ store' = Observed(store, o)
    BY <1>6, ObserveWrites DEF ObservationValid
  <2> HIDE DEF o
  <2>2. /\ z \in Subjects /\ store'.records = store.records
        /\ \A s \in Subjects : s # z => store'.observations[s] = store.observations[s]
        /\ store'.observations[z] = Append(store.observations[z], o)
        /\ store.observations[z] \in Seq(RecordedObservation)
    BY <1>1, <2>1 DEF Observed, Store, RecordedObservation
  <2>3. /\ DOMAIN store'.observations[z] =
             DOMAIN store.observations[z] \cup {Len(store.observations[z]) + 1}
        /\ \A i \in DOMAIN store.observations[z] :
             store'.observations[z][i] = store.observations[z][i]
        /\ store'.observations[z][Len(store.observations[z]) + 1] = o
    <3> DEFINE old == store.observations[z]
               new == store'.observations[z]
    <3>1. /\ old \in Seq(RecordedObservation) /\ o \in RecordedObservation
          /\ new = Append(old, o)
      BY <2>1, <2>2
    <3> HIDE DEF old, new
    <3>2. /\ DOMAIN new = DOMAIN old \cup {Len(old) + 1}
          /\ \A i \in DOMAIN old : new[i] = old[i]
          /\ new[Len(old) + 1] = o
      BY <3>1, AppendFacts
    <3> QED
      BY <3>2 DEF old, new
  <2>4. ASSUME NEW i \in DOMAIN store'.observations[z]
        PROVE  store'.observations[z][i].revision > 0
    <3>1. CASE i \in DOMAIN store.observations[z]
      BY <1>1, <2>2, <2>3, <3>1
    <3>2. CASE i = Len(store.observations[z]) + 1
      BY <2>1, <2>3, <3>2
    <3> QED
      BY <2>3, <3>1, <3>2
  <2>5. ASSUME NEW s \in Subjects, s # z
        PROVE  \A i \in DOMAIN store'.observations[s] : store'.observations[s][i].revision > 0
    BY <1>1, <2>2, <2>5
  <2> QED
    BY <2>2, <2>4, <2>5
<1>7. CASE BatchSwap
  <2>1. store'.records = store.records /\ store'.observations = store.observations
    BY <1>7 DEF BatchSwap, Free, InductiveInvariant, BatchConsistent
  <2> QED
    BY <1>1, <2>1 DEF CreatedFromNothing
<1> QED
  BY <1>1, <1>2, <1>4, <1>5, <1>6, <1>7, StoreSteps DEF CreatedFromNothing

(* A history that did not move. *)
LEMMA SharedSame ==
  ASSUME NEW st, NEW nu, NEW call, LoadedIsShared(st, call),
         nu.records[call.request.subject] = st.records[call.request.subject]
  PROVE  LoadedIsShared(nu, call)
  BY DEF LoadedIsShared

(* ... and what the shells hold, whoever writes meanwhile. *)
LEMMA LoadedHold ==
  ASSUME InductiveInvariant, RetryHolds, [Next]_vars, NEW b \in Clients,
         calls[b].pc \in {"match", "commit"}
  PROVE  LoadedIsShared(store', calls[b])
<1> DEFINE call == calls[b]
           y == call.request.subject
<1>1. /\ store \in Store /\ call \in Call /\ call.request \in Requests
      /\ LoadedHolds(store, call) /\ LoadedIsShared(store, call)
  BY AtFacts DEF RetryHolds, CallConsistent
<1>2. /\ y \in Subjects /\ call.instance \in Instance
      /\ store.instances[y] # None
      /\ call.instance.revision = store.instances[y].revision =>
           call.instance = store.instances[y]
  BY <1>1, RequestFacts DEF LoadedHolds
<1>3. call.instance.revision \in Nat /\ store.instances[y].revision \in Nat
  BY <1>1, <1>2, StoreFacts, InstanceFacts
<1> HIDE DEF call
<1>4. CASE store'.records[y] = store.records[y]
  BY <1>1, <1>4, SharedSame DEF call
<1>5. ASSUME NEW c \in Clients, Commit(c), store' # store
      PROVE  LoadedIsShared(store', call)
  <2> DEFINE q == calls[c].request
             held == store.instances[q.subject]
             d == calls[c].commit
  <2>1. /\ d \in RecordedCommit /\ d.envelope.record_id \in RecordIds
        /\ d = Seal(execute(held, q.input), q.record_id)
        /\ d.instance.subject = q.subject /\ d.instance.revision = held.revision + 1
        /\ d.envelope.command = q.input /\ d.envelope.result = d.instance
        /\ d.envelope.record_id = q.record_id
        /\ store' = Recorded(store, d)
    BY <1>5, CommitWrites
  <2>2. d.envelope = Seal(execute(held, d.envelope.command), d.envelope.record_id).envelope
    BY <2>1
  <2> HIDE DEF d
  <2>3. /\ q.subject \in Subjects /\ d.envelope \in Envelope
        /\ q.subject # y => store'.records[y] = store.records[y]
        /\ store'.records[q.subject] = Append(store.records[q.subject], d.envelope)
    BY ZenonT(60), <1>1, <1>2, <2>1, RecordedFacts
  <2>4. CASE q.subject # y
    BY <1>4, <2>3, <2>4 DEF call
  <2>5. CASE q.subject = y
    <3>1. store.records[y] \in Seq(Envelope)
      BY <1>1, <1>2, StoreFacts
    <3>2. /\ DOMAIN store'.records[y] = DOMAIN store.records[y] \cup {Len(store.records[y]) + 1}
          /\ \A i \in DOMAIN store.records[y] : store'.records[y][i] = store.records[y][i]
          /\ store'.records[y][Len(store.records[y]) + 1] = d.envelope
      <4> DEFINE old == store.records[y]
                 new == store'.records[y]
      <4>1. old \in Seq(Envelope) /\ d.envelope \in Envelope /\ new = Append(old, d.envelope)
        BY <2>3, <2>5, <3>1
      <4> HIDE DEF old, new
      <4>2. /\ DOMAIN new = DOMAIN old \cup {Len(old) + 1}
            /\ \A i \in DOMAIN old : new[i] = old[i]
            /\ new[Len(old) + 1] = d.envelope
        BY <4>1, AppendFacts
      <4> QED
        BY <4>2 DEF old, new
    <3>3. d.envelope.result.revision = call.instance.revision + 1 =>
            d.envelope = Seal(execute(call.instance, d.envelope.command),
                              d.envelope.record_id).envelope
      BY <1>2, <1>3, <2>1, <2>2, <2>5
    <3> QED
      BY <1>1, <3>2, <3>3 DEF LoadedIsShared
  <2> QED
    BY <2>4, <2>5
<1>6. ASSUME NEW c \in Clients, Create(c), store' # store
      PROVE  store'.records[y] = store.records[y]
  <2> DEFINE q == calls[c].request
             d == Seal(create(q.subject, q.input), q.record_id)
  <2>1. /\ d \in RecordedCommit /\ d.envelope.record_id \in RecordIds
        /\ d.instance.subject = q.subject /\ store.instances[q.subject] = None
        /\ store' = Recorded(store, d)
    BY <1>6, CreateWrites
  <2> HIDE DEF d
  <2> QED
    BY <1>1, <1>2, <2>1, RecordedFacts
<1>7. ASSUME NEW c \in Clients, Observe(c)
      PROVE  store'.records = store.records
  <2> DEFINE o == ObservationOf(calls[c].request)
  <2>1. UNCHANGED store \/ store' = Observed(store, o)
    BY <1>7, ObserveWrites
  <2> HIDE DEF o
  <2> QED
    BY <1>1, <2>1 DEF Observed, Store
<1>8. CASE BatchSwap
  BY <1>4, <1>8 DEF BatchSwap, Free, InductiveInvariant, BatchConsistent
<1> QED
  BY <1>4, <1>5, <1>6, <1>7, <1>8, StoreSteps DEF call

(* The state at the start. *)
LEMMA RetryInit == Init => RetryHolds
  BY DEF Init, EmptyStore, Idle, RetryHolds

(* A shell that has just loaded: no record is past the instance held. *)
LEMMA FreshlyLoaded ==
  ASSUME InductiveInvariant, NEW call, call.request.subject \in Subjects,
         call.instance = store.instances[call.request.subject], call.instance # None
  PROVE  LoadedIsShared(store, call)
<1> DEFINE y == call.request.subject
<1>1. store \in Store
  BY DEF InductiveInvariant, TypeOK
<1> SUFFICES ASSUME NEW i \in DOMAIN store.records[y]
             PROVE  store.records[y][i].result.revision # call.instance.revision + 1
  BY DEF LoadedIsShared
<1>2. NotPast(store.records[y][i].result, store.instances[y])
  BY DEF InductiveInvariant, IsKernelPath, OnKernelPath
<1>3. store.records[y][i].result.revision \in Nat /\ call.instance.revision \in Nat
  BY <1>1, StoreFacts, InstanceFacts
<1> QED
  BY <1>2, <1>3 DEF NotPast

(* Every step keeps what a retry relies on. *)
LEMMA RetryKept ==
  ASSUME InductiveInvariant, RetryHolds, [Next]_vars
  PROVE  RetryHolds'
<1>1. ASSUME NEW b \in Clients, calls'[b].pc \in {"match", "commit"}
      PROVE  LoadedIsShared(store', calls'[b])
  <2>1. calls \in [Clients -> Call]
    BY DEF InductiveInvariant, TypeOK
  <2>2. CASE /\ calls[b].pc \in {"match", "commit"}
             /\ calls'[b].request = calls[b].request
             /\ calls'[b].instance = calls[b].instance
    BY <2>2, LoadedHold DEF LoadedIsShared
  <2>3. CASE /\ Get(b) /\ calls[b].request = calls'[b].request
             /\ calls'[b].instance = store.instances[calls[b].request.subject]
             /\ calls'[b].instance # None
    <3>1. calls[b].request.subject \in Subjects
      BY <2>3, AtFacts, RequestFacts DEF Get, At
    <3>2. store' = store
      BY <2>3 DEF Get
    <3> QED
      BY <2>3, <3>1, <3>2, FreshlyLoaded
  <2>4. CASE UNCHANGED calls
    BY <1>1, <2>2, <2>4
  <2>5. ASSUME NEW c \in Clients, c # b,
               \/ \E q \in Requests : Submit(c, q)
               \/ ClientStep(c)
        PROVE  calls'[b] = calls[b]
    BY <2>1, <2>5 DEF Submit, ClientStep, Create, Get, History, Commit,
      Observe, Leave, Respond
  <2>6. ASSUME NEW q \in Requests, Submit(b, q)
        PROVE  FALSE
    BY <1>1, <2>1, <2>6 DEF Submit, Idle
  <2>7. CASE Leave(b)
    BY <1>1, <2>1, <2>7 DEF Leave, Idle
  <2>8. ASSUME NEW answer, NEW document, Respond(b, answer, document)
        PROVE  FALSE
    BY <1>1, <2>1, <2>8 DEF Respond, Call
  <2>9. CASE Create(b) \/ Commit(b) \/ Observe(b)
    BY <2>8, <2>9 DEF Create, Commit, Observe
  <2>10. CASE Get(b)
    <3>1. store.instances[calls[b].request.subject] # None
      BY <2>8, <2>10 DEF Get
    <3>2. calls' = [calls EXCEPT ![b].pc = "match",
                      ![b].instance = store.instances[calls[b].request.subject]]
      BY <2>10, <3>1 DEF Get
    <3>3. /\ calls'[b].request = calls[b].request
          /\ calls'[b].instance = store.instances[calls[b].request.subject]
      BY <2>1, <3>2 DEF Call
    <3> QED
      BY <2>3, <2>10, <3>1, <3>3
  <2>11. CASE History(b)
    <3>1. \E document : calls' = [calls EXCEPT ![b].pc = "commit", ![b].commit = document]
      BY <2>8, <2>11 DEF History
    <3>2. calls[b].pc = "match"
      BY <2>11 DEF History, At
    <3>3. /\ calls'[b].request = calls[b].request
          /\ calls'[b].instance = calls[b].instance
      BY <2>1, <3>1 DEF Call
    <3> QED
      BY <2>2, <3>2, <3>3
  <2>12. CASE \E s \in Subjects, op \in Operations : Plan(s, op)
    BY <2>4, <2>12 DEF Plan
  <2>13. CASE BatchStep
    BY <2>4, <2>13 DEF BatchStep, BatchBegin, BatchEntry, BatchSwap
  <2>14. ASSUME NEW c \in Clients, c # b,
                \/ \E q \in Requests : Submit(c, q)
                \/ ClientStep(c)
         PROVE  LoadedIsShared(store', calls'[b])
    BY <1>1, <2>2, <2>5, <2>14
  <2> QED
    BY <2>4, <2>6, <2>7, <2>9, <2>10, <2>11, <2>12, <2>13, <2>14
      DEF Next, ClientStep, vars
<1> QED
  BY <1>1, HistoriesHold DEF RetryHolds

(* Beside the inductive invariant, RetryHolds is true of every behaviour:  *)
(* what is recorded on a revision was decided on the instance every shell  *)
(* loads at that revision.                                                 *)
THEOREM RetryInductive == Spec => [](InductiveInvariant /\ RetryHolds)
  BY InitOK, NextOK, RetryInit, RetryKept, PTL DEF Spec

(* commit_recorded of the document that an entry of the history came from. *)
LEMMA RecordedAgain ==
  ASSUME NEW st \in Store, IndexIsExact(st), NEW s \in Subjects,
         NEW i \in DOMAIN st.records[s], NEW d \in RecordedCommit,
         d.envelope = st.records[s][i], d.envelope.result = d.instance, NEW expect
  PROVE  commit_recorded(st, d, expect).outcome = "ok"
<1> DEFINE e == st.records[s][i]
           r == d.envelope.record_id
<1>1. RecordIndexed(st, s, i)
  BY DEF IndexIsExact
<1>2. r \in RecordIds /\ st.record_ids[r] = [instance |-> e.result, envelope |-> e]
  BY <1>1 DEF RecordIndexed
<1>3. d = [instance |-> e.result, envelope |-> e]
  BY DEF RecordedCommit
<1>4. CommitValid(d)
  BY <1>2, StoreAssumption DEF CommitValid
<1>5. st.record_ids[r] = d /\ d # None
  BY <1>2, <1>3, StoreAssumption DEF Document
<1> QED
  BY <1>4, <1>5 DEF commit_recorded, Answer, SameOrConflict, Remembered

(* The same for observe. *)
LEMMA ObservedAgain ==
  ASSUME NEW st \in Store, IndexIsExact(st), NEW s \in Subjects,
         NEW i \in DOMAIN st.observations[s], NEW o \in RecordedObservation,
         o = st.observations[s][i], o.revision > 0
  PROVE  observe(st, o).outcome = "ok"
<1>1. ObservationIndexed(st, s, i)
  BY DEF IndexIsExact
<1>2. o.record_id \in RecordIds /\ st.record_ids[o.record_id] = o
  BY <1>1 DEF ObservationIndexed
<1>3. ObservationValid(o) /\ o # None
  BY <1>2, StoreAssumption DEF ObservationValid, Document
<1> QED
  BY <1>2, <1>3 DEF observe, Answer, SameOrConflict, Remembered

(* The answers of the five steps that end a call. *)
LEMMA CreateAgain ==
  ASSUME InductiveInvariant, RetryHolds, NEW c \in Clients, Create(c),
         Durable(calls[c].request)
  PROVE  calls'[c].answer = "ok"
<1> DEFINE q == calls[c].request
           s == q.subject
           d == Seal(create(s, q.input), q.record_id)
<1>1. calls[c].pc = "start" /\ q.kind = "create"
  BY DEF Create, At
<1>2. /\ q \in Requests /\ store \in Store /\ IndexIsExact(store)
      /\ calls \in [Clients -> Call]
  BY <1>1, AtFacts DEF InductiveInvariant, TypeOK
<1>3. s \in Subjects /\ q.input \in Creations /\ q.record_id \in RecordId
  BY <1>1, <1>2, RequestFacts
<1>4. PICK i \in DOMAIN store.records[s] :
        /\ store.records[s][i].record_id = q.record_id
        /\ store.records[s][i].command = q.input
        /\ store.records[s][i].result.revision = 1
  BY <1>1 DEF Durable
<1>5. store.records[s][i] = d.envelope
  BY <1>3, <1>4 DEF RetryHolds, CreatedFromNothing
<1>6. d \in RecordedCommit /\ d.envelope.result = d.instance
  BY <1>3, CreateType, SealType
<1>7. q.record_id # Blank
  <2>1. RecordIndexed(store, s, i)
    BY <1>2, <1>3 DEF IndexIsExact
  <2> QED
    BY <1>4, <2>1, StoreAssumption DEF RecordIndexed
<1> HIDE DEF d
<1>8. commit_recorded(store, d, Absent).outcome = "ok"
  BY <1>2, <1>3, <1>5, <1>6, RecordedAgain
<1>9. Respond(c, "ok", d)
  BY <1>7, <1>8 DEF Create, d
<1> QED
  BY <1>2, <1>9 DEF Respond, Call

(* A retry that loads its subject is not refused there. *)
LEMMA GetAgain ==
  ASSUME InductiveInvariant, NEW c \in Clients, Get(c), Durable(calls[c].request)
  PROVE  calls'[c].pc # "done"
<1> DEFINE q == calls[c].request
           s == q.subject
<1>1. calls[c].pc = "start" /\ q.kind = "execute"
  BY DEF Get, At
<1>2. q \in Requests /\ store \in Store /\ calls \in [Clients -> Call]
  BY <1>1, AtFacts DEF InductiveInvariant, TypeOK
<1>3. s \in Subjects
  BY <1>2, RequestFacts
<1>4. PICK i \in DOMAIN store.records[s] : TRUE
  BY <1>1 DEF Durable
<1>5. store.instances[s] # None
  BY <1>3, <1>4 DEF InductiveInvariant, IsKernelPath, OnKernelPath, NotPast
<1> QED
  BY <1>2, <1>5 DEF Get, Call

(* A retry that finds its decision in the history is answered. *)
LEMMA HistoryAgain ==
  ASSUME InductiveInvariant, NEW c \in Clients, History(c), Durable(calls[c].request)
  PROVE  calls'[c].answer = "ok"
<1> DEFINE q == calls[c].request
           s == q.subject
           found == HeldRecord(store, s, q.record_id)
           place == CHOOSE k \in found : \A j \in found : k <= j
<1>1. calls[c].pc = "match" /\ q.kind = "execute"
  BY DEF History, At
<1>2. /\ q \in Requests /\ store \in Store /\ IndexIsExact(store)
      /\ calls \in [Clients -> Call]
  BY <1>1, AtFacts DEF InductiveInvariant, TypeOK
<1>3. s \in Subjects
  BY <1>2, RequestFacts
<1>4. PICK i \in DOMAIN store.records[s] :
        /\ store.records[s][i].record_id = q.record_id
        /\ store.records[s][i].command = q.input
        /\ store.records[s][i].result.revision = q.expected + 1
  BY <1>1 DEF Durable
<1>5. RecordIndexed(store, s, i)
  BY <1>2, <1>3 DEF IndexIsExact
<1>6. found = {i}
  BY <1>4, <1>5 DEF HeldRecord, RecordIndexed
<1>7. i \in Nat
  BY <1>2, <1>3, StoreFacts
<1>8. place = i
  BY <1>6, <1>7
<1>9. MatchesRequest(store.records[s][place], q)
  BY <1>4, <1>5, <1>8 DEF MatchesRequest, RecordIndexed
<1>10. found # {}
  BY <1>6
<1>11. \E document : Respond(c, "ok", document)
  BY <1>9, <1>10 DEF History
<1> QED
  BY <1>2, <1>11 DEF Respond, Call

(* A retry that commits again is answered by the store. *)
LEMMA CommitAgain ==
  ASSUME InductiveInvariant, RetryHolds, NEW c \in Clients, Commit(c),
         Durable(calls[c].request)
  PROVE  calls'[c].answer = "ok"
<1> DEFINE q == calls[c].request
           s == q.subject
           loaded == calls[c].instance
           d == calls[c].commit
<1>1. calls[c].pc = "commit" /\ q.kind = "execute"
  BY DEF Commit, At
<1>2. /\ q \in Requests /\ store \in Store /\ IndexIsExact(store)
      /\ calls \in [Clients -> Call]
      /\ LoadedHolds(store, calls[c]) /\ DecidedFromLoaded(calls[c])
      /\ LoadedIsShared(store, calls[c])
  BY <1>1, AtFacts DEF InductiveInvariant, TypeOK, CallConsistent, RetryHolds
<1>3. /\ s \in Subjects /\ q.input \in Operations /\ q.record_id \in RecordId
  BY <1>1, <1>2, RequestFacts
<1>4. PICK i \in DOMAIN store.records[s] :
        /\ store.records[s][i].record_id = q.record_id
        /\ store.records[s][i].command = q.input
        /\ store.records[s][i].result.revision = q.expected + 1
  BY <1>1 DEF Durable
<1>5. /\ loaded \in Instance /\ loaded.revision = q.expected /\ Admits(loaded, q.input)
      /\ d = Seal(execute(loaded, q.input), q.record_id)
  BY <1>2 DEF LoadedHolds, DecidedFromLoaded
<1>6. store.records[s][i] = d.envelope
  BY <1>2, <1>4, <1>5 DEF LoadedIsShared
<1>7. d \in RecordedCommit /\ d.envelope.result = d.instance
  BY <1>3, <1>5, ExecuteType, SealType
<1> HIDE DEF d
<1>8. commit_recorded(store, d, q.expected).outcome = "ok"
  BY <1>2, <1>3, <1>6, <1>7, RecordedAgain
<1>9. Respond(c, "ok", d)
  BY <1>8 DEF Commit, d
<1> QED
  BY <1>2, <1>9 DEF Respond, Call

(* A retry that observes again is answered by the store. *)
LEMMA ObserveAgain ==
  ASSUME InductiveInvariant, RetryHolds, NEW c \in Clients, Observe(c),
         Durable(calls[c].request)
  PROVE  calls'[c].answer = "ok"
<1> DEFINE q == calls[c].request
           s == q.subject
           o == ObservationOf(q)
<1>1. calls[c].pc = "start" /\ q.kind = "observe"
  BY DEF Observe, At
<1>2. /\ q \in Requests /\ store \in Store /\ IndexIsExact(store)
      /\ calls \in [Clients -> Call]
  BY <1>1, AtFacts DEF InductiveInvariant, TypeOK
<1>3. s \in Subjects /\ o \in RecordedObservation
  BY <1>1, <1>2, RequestFacts, ObservationType
<1>4. PICK i \in DOMAIN store.observations[s] : store.observations[s][i] = o
  BY <1>1 DEF Durable
<1>5. o.revision > 0
  BY <1>3, <1>4 DEF RetryHolds
<1> HIDE DEF o
<1>6. observe(store, o).outcome = "ok"
  BY <1>2, <1>3, <1>4, <1>5, ObservedAgain
<1>7. Respond(c, "ok", None)
  BY <1>6 DEF Observe, o
<1> QED
  BY <1>2, <1>7 DEF Respond, Call

(* Once a request is in the history, whichever shell sent it and whatever  *)
(* has been written since, no answer to it is a refusal: the lookups of    *)
(* StoredRuntime::execute, commit_recorded and observe all find it.        *)
THEOREM RetriesAnswered == Spec => RetryNeverRefused
<1>1. ASSUME InductiveInvariant, RetryHolds, [Next]_vars, NEW c \in Clients,
             calls[c].pc # "done", calls'[c].pc = "done", Durable(calls[c].request)
      PROVE  calls'[c].answer = "ok"
  <2>1. calls \in [Clients -> Call]
    BY <1>1 DEF InductiveInvariant, TypeOK
  <2>2. calls'[c] # calls[c]
    BY <1>1
  <2>3. ASSUME NEW b \in Clients, b # c,
               \/ \E q \in Requests : Submit(b, q)
               \/ ClientStep(b)
        PROVE  calls'[c] = calls[c]
    BY <2>1, <2>3 DEF Submit, ClientStep, Create, Get, History, Commit,
      Observe, Leave, Respond
  <2>4. ASSUME NEW q \in Requests, Submit(c, q)
        PROVE  FALSE
    BY <1>1, <2>1, <2>4 DEF Submit, Idle
  <2>5. ~Leave(c)
    BY <1>1, <2>1 DEF Leave, Idle
  <2>6. ClientStep(c)
    BY <1>1, <2>2, <2>3, <2>4
       DEF Next, vars, Plan, BatchStep, BatchBegin, BatchEntry, BatchSwap
  <2> QED
    BY <1>1, <2>5, <2>6, CreateAgain, GetAgain, HistoryAgain, CommitAgain,
      ObserveAgain
       DEF ClientStep
<1>2. InductiveInvariant /\ RetryHolds /\ [Next]_vars =>
        [\A c \in Clients :
           calls[c].pc # "done" /\ calls'[c].pc = "done" /\ Durable(calls[c].request)
             => calls'[c].answer = "ok"]_vars
  BY <1>1
<1> QED
  BY <1>2, RetryInductive, PTL DEF Spec, RetryNeverRefused

-----------------------------------------------------------------------------
(* An entry of a batch that a store holds is held by every store that      *)
(* continues it, and by the store its commit leaves.                       *)
LEMMA AppliedMovesOn ==
  ASSUME NEW st \in Store, NEW nu \in Store, Extends(st, nu), Advances(st, nu),
         NEW d \in Decision, Applied(st, d)
  PROVE  Applied(nu, d)
<1> DEFINE s == d.instance.subject
<1>1. d.instance \in Instance /\ s \in Subjects /\ d.instance.revision \in Nat
  BY InstanceFacts DEF Decision
<1>2. /\ st.instances[s] # None /\ d.instance.revision <= st.instances[s].revision
      /\ \A k \in DOMAIN d.events :
           \E n \in DOMAIN st.events[s] : st.events[s][n] = d.events[k]
  BY DEF Applied
<1>3. /\ nu.instances[s] # None
      /\ st.instances[s].revision <= nu.instances[s].revision
  BY <1>1, <1>2 DEF Advances
<1>4. st.instances[s].revision \in Nat /\ nu.instances[s].revision \in Nat
  BY <1>1, <1>2, <1>3, StoreFacts, InstanceFacts
<1>5. Keeps(st.events[s], nu.events[s])
  BY <1>1 DEF Extends
<1>6. d.instance.revision <= nu.instances[s].revision
  BY <1>1, <1>2, <1>3, <1>4
<1>7. \A k \in DOMAIN d.events :
        \E n \in DOMAIN nu.events[s] : nu.events[s][n] = d.events[k]
  BY <1>2, <1>5 DEF Keeps
<1> QED
  BY <1>3, <1>6, <1>7 DEF Applied

(* A committed decision has been applied. *)
LEMMA AppliedNow ==
  ASSUME NEW st \in Store, NEW d \in Decision
  PROVE  Applied(Committed(st, d), d)
<1> DEFINE s == d.instance.subject
           nu == Committed(st, d)
           old == st.events[s]
<1>1. /\ d.instance \in Instance /\ s \in Subjects /\ d.events \in Seq(Event)
      /\ d.instance.revision \in Nat /\ d.instance # None
  BY InstanceFacts DEF Decision
<1>2. nu.instances[s] = d.instance /\ nu.events[s] = old \o d.events /\ old \in Seq(Event)
  BY <1>1 DEF Committed, Store
<1> HIDE DEF nu, old
<1>3. ASSUME NEW k \in DOMAIN d.events
      PROVE  \E n \in DOMAIN nu.events[s] : nu.events[s][n] = d.events[k]
  <2>1. Len(old) + k \in DOMAIN (old \o d.events) /\ (old \o d.events)[Len(old) + k] = d.events[k]
    BY <1>1, <1>2
  <2> QED
    BY <1>2, <2>1
<1>4. nu.instances[s] # None /\ d.instance.revision <= nu.instances[s].revision
  BY <1>1, <1>2
<1> QED
  BY <1>3, <1>4 DEF Applied, nu

(* The entries of a plan are decisions. *)
LEMMA EntryFacts ==
  ASSUME InductiveInvariant, NEW i \in DOMAIN batch.entries
  PROVE  /\ i \in Nat /\ i >= 1 /\ i <= Len(batch.entries)
         /\ batch.entries[i].decision \in Decision
         /\ batch.next \in Nat /\ batch.next >= 1
         /\ batch.entries[i].expect \in Nat
         /\ batch.entries[i].decision.instance.revision = batch.entries[i].expect + 1
<1>1. batch.entries \in Seq(AtomicCommit) /\ batch.next \in Nat
  BY DEF InductiveInvariant, TypeOK, Batch
<1>2. batch.entries[i] \in AtomicCommit /\ i \in 1 .. Len(batch.entries)
  BY <1>1
<1> QED
  BY <1>1, <1>2 DEF AtomicCommit, InductiveInvariant, BatchConsistent

(* AppliedHolds is inductive. *)
LEMMA AppliedKept ==
  ASSUME InductiveInvariant, AppliedHolds, [Next]_vars
  PROVE  AppliedHolds'
<1>1. CASE UNCHANGED batch
  BY <1>1 DEF AppliedHolds
<1>2. CASE batch'.candidate = None
  BY <1>2 DEF AppliedHolds
<1>3. CASE BatchBegin
  <2>1. batch \in Batch
    BY DEF InductiveInvariant, TypeOK
  <2>2. batch'.next = 1 /\ batch'.entries = batch.entries
    BY <1>3, <2>1 DEF BatchBegin, Batch
  <2> QED
    BY <2>2, EntryFacts DEF AppliedHolds
<1>4. CASE BatchEntry
  <2> DEFINE old == batch.candidate
             n == batch.next
             entry == batch.entries[n]
             d == entry.decision
             z == d.instance.subject
             res == commit(old, d, entry.expect)
             nu == Committed(old, d)
  <2>1. /\ batch \in Batch /\ old # None /\ n <= Len(batch.entries)
        /\ batch' = IF res.outcome = "ok"
                    THEN [batch EXCEPT !.candidate = res.store, !.next = @ + 1]
                    ELSE NoBatch
    BY <1>4 DEF InductiveInvariant, TypeOK, BatchEntry, Free
  <2>2. CASE res.outcome # "ok"
    BY <1>2, <2>1, <2>2 DEF NoBatch
  <2>3. CASE res.outcome = "ok"
    <3>1. /\ old \in Store /\ n \in Nat /\ n >= 1
          /\ batch.entries \in Seq(AtomicCommit) /\ n \in DOMAIN batch.entries
      BY <2>1 DEF Batch, InductiveInvariant, BatchConsistent
    <3>2. /\ d \in Decision /\ entry.expect \in Nat
          /\ d.instance.revision = entry.expect + 1
      BY <3>1, EntryFacts
    <3>3. res.store = nu /\ check(entry.expect, revision_of(old, z))
      BY <2>3, CommitCases
    <3>4. d.instance \in Instance /\ z \in Subjects
      BY <3>2, InstanceFacts DEF Decision
    <3>5. d.instance.revision = old.instances[z].revision + 1
      BY <3>2, <3>3, StoreAssumption DEF check, revision_of
    <3>6. nu \in Store /\ Extends(old, nu)
      BY <3>1, <3>2, CommittedType, CommittedExtends
    <3>7. nu.instances = [old.instances EXCEPT ![z] = d.instance]
      BY <3>1, <3>4 DEF Committed, Store
    <3>8. Advances(old, nu)
      <4>1. /\ old \in Store /\ nu \in Store /\ d.instance \in Instance
            /\ nu.instances = [old.instances EXCEPT ![d.instance.subject] = d.instance]
            /\ d.instance.revision = old.instances[d.instance.subject].revision + 1
        BY <3>1, <3>4, <3>5, <3>6, <3>7
      <4> HIDE DEF nu, old, d
      <4> QED
        BY <4>1, WriteAdvances
    <3>9. Applied(nu, d)
      BY <3>1, <3>2, AppliedNow
    <3>10. \A i \in DOMAIN batch.entries :
             i < n => Applied(old, batch.entries[i].decision)
      BY <2>1 DEF AppliedHolds
    <3> HIDE DEF nu, old, res
    <3>11. /\ batch'.candidate = nu /\ batch'.entries = batch.entries
           /\ batch'.next = n + 1
      BY <2>1, <2>3, <3>3 DEF Batch
    <3>12. ASSUME NEW i \in DOMAIN batch.entries, i < n + 1
           PROVE  Applied(nu, batch.entries[i].decision)
      <4>1. CASE i = n
        BY <3>9, <4>1
      <4>2. CASE i # n
        <5>1. i < n /\ batch.entries[i].decision \in Decision
          BY <3>1, <3>12, <4>2, EntryFacts
        <5> QED
          BY <3>1, <3>6, <3>8, <3>10, <5>1, AppliedMovesOn
      <4> QED
        BY <4>1, <4>2
    <3> QED
      BY <3>11, <3>12 DEF AppliedHolds
  <2> QED
    BY <2>2, <2>3
<1>5. CASE BatchSwap
  BY <1>2, <1>5 DEF BatchSwap, NoBatch
<1>6. ASSUME NEW s \in Subjects, NEW op \in Operations, Plan(s, op)
      PROVE  batch'.candidate = None
  <2>1. batch \in Batch
    BY DEF InductiveInvariant, TypeOK
  <2> QED
    BY <1>6, <2>1 DEF Plan, Free, Batch
<1> QED
  BY <1>1, <1>2, <1>3, <1>4, <1>5, <1>6
     DEF Next, vars, ClientStep, BatchStep, Submit, Create, Get, History, Commit, Observe, Leave

(* commit_batch swaps its candidate in when every entry is in it, and      *)
(* touches the store at no other moment.                                   *)
THEOREM BatchesLandWhole == Spec => BatchAllOrNothing
<1>1. Init => AppliedHolds
  BY DEF Init, NoBatch, AppliedHolds
<1>2. ASSUME InductiveInvariant, AppliedHolds, [Next]_vars, ~Free, store' # store,
             NEW i \in DOMAIN batch.entries
      PROVE  LET d == batch.entries[i].decision
                 s == d.instance.subject
             IN /\ \A k \in DOMAIN d.events :
                     \E n \in DOMAIN store'.events[s] : store'.events[s][n] = d.events[k]
                /\ d.instance.revision <= store'.instances[s].revision
  <2>1. BatchSwap
    BY <1>2, StoreSteps DEF Create, Commit, Observe
  <2>2. store' = batch.candidate /\ batch.candidate # None /\ batch.next > Len(batch.entries)
    BY <2>1 DEF BatchSwap, Free
  <2>3. i < batch.next
    <3>1. i \in Nat /\ batch.next \in Nat /\ i <= Len(batch.entries)
      BY <1>2, EntryFacts
    <3>2. Len(batch.entries) \in Nat
      BY <1>2 DEF InductiveInvariant, TypeOK, Batch
    <3> QED
      BY <2>2, <3>1, <3>2
  <2> QED
    BY <1>2, <2>2, <2>3 DEF AppliedHolds, Applied
<1>3. InductiveInvariant /\ AppliedHolds /\ [Next]_vars =>
        [~Free /\ store' # store =>
           \A i \in DOMAIN batch.entries :
             LET d == batch.entries[i].decision
                 s == d.instance.subject
             IN /\ \A k \in DOMAIN d.events :
                     \E n \in DOMAIN store'.events[s] : store'.events[s][n] = d.events[k]
                /\ d.instance.revision <= store'.instances[s].revision]_vars
  BY <1>2
<1>4. Spec => [](InductiveInvariant /\ AppliedHolds)
  BY <1>1, InitOK, NextOK, AppliedKept, PTL DEF Spec
<1> QED
  BY <1>3, <1>4, PTL DEF Spec, BatchAllOrNothing

=============================================================================
