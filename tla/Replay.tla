------------------------------- MODULE Replay -------------------------------
(***************************************************************************)
(* Rebuilding an instance (crates/entity-core/src/replay.rs): replay, from *)
(* the decision records, recomputes every decision under the definition    *)
(* its record carries; rehydrate, from the events alone and for kernel/1   *)
(* only, holds every event to what some declared operation would have      *)
(* written.                                                                *)
(***************************************************************************)
EXTENDS Decisions

(* What a recorded creation was decided on: its arguments, or the fields   *)
(* where kernel/1 takes nothing else.                                      *)
CreateInput_Fields(definition, command) == command[2]

CreateInput(definition, command) ==
  IF has_service_semantics(definition.semantics) THEN command[3] ELSE command[2]

(* One record, over the instance the records before it rebuild. *)
RecomputeLoaded(prepared, before, actions, loaded) ==
  IF loaded = NeedsFulfillment THEN complete(prepared, before, actions) ELSE loaded

RecomputeExecute(before, actions, preload) ==
  IF IsErr(preload) \/ IsRefused(preload) THEN preload
  ELSE RecomputeLoaded(preload[2][2], before, actions,
                       select_with(preload[2][2], before))

Recompute(record, before) ==
  LET definition == record.definition[1]
      command == record.command IN
  IF record.definition = <<>> THEN Err("Validation")
  ELSE IF ~validate_definition(definition) THEN Err("Validation")
  ELSE IF (command[1] = "Create") # (before = <<>>) THEN Err("Validation")
  ELSE into_decision(
    IF command[1] = "Create"
      THEN decide_create_as(definition, record.id,
                            CreateInput(definition, command), "Recorded")
      ELSE RecomputeExecute(before[1], command[4],
             decide_before_load_as(definition, record.id, command[2], command[3],
                                   "Recorded")))

(* The instance a record leaves, if deciding it again records the same. *)
Reproduced(decision, record) ==
  IF IsErr(decision) THEN decision
  ELSE IF RecordOf(decision) # record THEN Err("Validation")
  ELSE Ok(record.result)

RECURSIVE ReplayFrom(_, _)
ReplayFrom(records, before) ==
  LET further(reproduced) ==
        Unless(reproduced, ReplayFrom(Tail(records), <<reproduced[2]>>)) IN
  IF records = <<>> THEN
    IF before = <<>> THEN Err("Validation") ELSE Ok(before[1])
  ELSE further(Reproduced(Recompute(Head(records), before), Head(records)))

replay(records) == ReplayFrom(records, <<>>)

-----------------------------------------------------------------------------

declares(operation, from, to) ==
  \E t \in Elem(operation.transitions) : from \in Elem(t.from) /\ t.to = to

Types(emits) == [i \in DOMAIN emits |-> emits[i].event_type]

permits(definition, from, to) ==
  \E n \in DOMAIN definition.operations : declares(definition.operations[n], from, to)

emits_on(definition, from, to, event_type) ==
  \E n \in DOMAIN definition.operations :
    /\ declares(definition.operations[n], from, to)
    /\ event_type \in Elem(Types(definition.operations[n].emits))

clears_on(definition, from, to, event_type, field) ==
  \E n \in DOMAIN definition.operations :
    LET operation == definition.operations[n] IN
    /\ declares(operation, from, to)
    /\ event_type \in Elem(Types(operation.emits))
    /\ field \in DOMAIN operation.set
    /\ SetAssignment(operation.set[field])[1] = "cleared"

apply_event_changes(fields, removed, changed) ==
  [f \in (DOMAIN fields \ removed) \cup DOMAIN changed |->
     IF f \in DOMAIN changed THEN changed[f] ELSE fields[f]]

(* operations_that_would_have_produced: the operations whose emission,     *)
(* arguments, preconditions and writes are the ones the group records.     *)
WritesAre(assigned, before, event) ==
  /\ ~Fails(assigned)
  /\ Cleared(assigned) = event.removed
  /\ changed_fields([before EXCEPT !.new_fields = Assign(before.old_fields, assigned)])
       = event.changed

WouldHaveWritten(operation, context, event) ==
  /\ check_preconditions(operation, context) = "none"
  /\ WritesAre(AssignedValues(operation.set, context), context, event)

WouldHaveProduced(definition, name, before, group, from) ==
  LET operation == definition.operations[name]
      event == group[1] IN
  /\ declares(operation, from, event.to_state)
  /\ operation.emits # <<>>
  /\ Types(operation.emits) = Types(group)
  /\ validate_object(operation.arguments, event.args)
  /\ WouldHaveWritten(operation,
       TemplateContext(definition, <<event.id>>, event.args,
         <<operation.arguments>>, before.fields, before.fields, <<from>>,
         event.to_state), event)

(* payload_disagrees: the templates of a writer, against the payloads the  *)
(* group carries.                                                          *)
PayloadsAgree(emits, group, context) ==
  \A i \in DOMAIN group :
    resolve_template(emits[i].payload, context) = Ok(group[i].payload)

(* What every event of a group must say of itself. *)
EventBelongs(definition, event, id) ==
  /\ event.entity = definition.entity /\ event.version = definition.version
  /\ event.id = id
  /\ event.to_state \in States(definition)
  /\ \A field \in event.removed :
       /\ IsSome(event.from_state)
       /\ clears_on(definition, event.from_state[1], event.to_state,
                    event.event_type, field)

SameDecision(event, first) ==
  \A part \in {"from_state", "to_state", "args", "changed", "removed"} :
    event[part] = first[part]

(* The templates of the possible writers of a group. *)
Writers(definition, before, group) ==
  LET event == group[1]
      emit == definition.create.emit IN
  IF event.from_state = <<>> THEN
    IF /\ before.revision = 0
       /\ event.to_state = definition.lifecycle.initial
       /\ IsSome(emit) /\ emit[1].event_type = event.event_type
       /\ Len(group) = 1
       /\ event.changed = event.args
      THEN {emit} ELSE {}
  ELSE IF /\ event.from_state[1] = before.lifecycle_state
          /\ permits(definition, event.from_state[1], event.to_state)
          /\ \A i \in DOMAIN group :
               emits_on(definition, event.from_state[1], event.to_state,
                        group[i].event_type)
    THEN {definition.operations[n].emits :
            n \in {m \in DOMAIN definition.operations :
                     WouldHaveProduced(definition, m, before, group,
                                       event.from_state[1])}}
  ELSE {}

(* The revision of a group is the next one. *)
Follows_Later(event, before) == event.revision > before.revision

Follows(event, before) ==
  before.revision + 1 <= I64Max /\ event.revision = before.revision + 1

(* One revision's events, over the instance the events before fold to. *)
Fold(definition, before, group, fields) ==
  LET event == group[1]
      create == event.from_state = <<>>
      context(args, old) == TemplateContext(definition, <<event.id>>, args, <<>>,
                              old, fields, event.from_state, event.to_state) IN
  IF /\ \A i \in DOMAIN group :
          /\ EventBelongs(definition, group[i], before.id)
          /\ SameDecision(group[i], event)
     /\ Follows(event, before)
     /\ event.removed \cap DOMAIN event.changed = {}
     /\ validate_object(definition.schema, fields)
     /\ check_invariants(definition, context(EmptyMap, EmptyMap)) = "none"
     /\ \E emits \in Writers(definition, before, group) :
          PayloadsAgree(emits, group,
            context(IF create THEN EmptyMap ELSE event.args,
                    IF create THEN EmptyMap ELSE before.fields))
    THEN Ok(Instance(definition, before.id, event.to_state, event.revision, fields))
  ELSE Err("Validation")

FoldGroup(definition, before, group) ==
  Fold(definition, before, group,
       apply_event_changes(before.fields, group[1].removed, group[1].changed))

GroupLength(events) ==
  CHOOSE n \in DOMAIN events :
    /\ \A i \in 1 .. n : events[i].revision = events[1].revision
    /\ n < Len(events) => events[n + 1].revision # events[1].revision

RECURSIVE FoldFrom(_, _, _)
FoldFrom(definition, before, events) ==
  LET rest == SubSeq(events, GroupLength(events) + 1, Len(events))
      further(folded) == Unless(folded, FoldFrom(definition, folded[2], rest)) IN
  IF events = <<>> THEN Ok(before)
  ELSE further(FoldGroup(definition, before,
                         SubSeq(events, 1, GroupLength(events))))

rehydrate(definition, events) ==
  IF has_service_semantics(definition.semantics) \/ events = <<>>
    THEN Err("Validation")
  ELSE IF IsSome(events[1].from_state) THEN Err("Validation")
  ELSE FoldFrom(definition,
         Instance(definition, events[1].id, definition.lifecycle.initial, 0, EmptyMap),
         events)
=============================================================================
