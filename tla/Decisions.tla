----------------------------- MODULE Decisions ------------------------------
(***************************************************************************)
(* Deciding a command (crates/entity-core/src/runtime.rs): create, create  *)
(* with a derived identity, execute, and the path in which the caller      *)
(* prepares an operation before the subject is loaded and may have to      *)
(* fulfil fields before it completes.                                      *)
(*                                                                         *)
(* An evaluation is Ok(Accepted(record)), Ok(Refused(...)) or Err(error).  *)
(* A Decision is its record: the instance is record.result and the events  *)
(* are record.events.                                                      *)
(***************************************************************************)
EXTENDS Definitions

(* CoreError: what a command that decides nothing answers.  The template   *)
(* errors are the ones a registered definition should never meet, but for  *)
(* a reference whose optional value is absent, and for the address of a    *)
(* creation that is still to be derived.                                   *)
TemplateFaults == {"UnknownTemplate", "NotAnAmount", "NotAnAssignment",
                   "PayloadNotObject"}

CoreErrors ==
  TemplateFaults \cup
  {"MissingReference", "PreAddress", "Validation", "EntityNotRegistered",
   "OperationNotFound", "EntityMismatch", "SubjectMismatch", "UnknownState",
   "InvalidTransition", "UnspecifiedMoveSource", "OutcomeUnobservable",
   "NoOutcomeSelected", "PreconditionFailed", "PreconditionUnobservable",
   "InvariantViolation", "InvariantUnobservable", "IdentityMismatch",
   "CreationIdentityUnavailable", "FulfillmentRequired",
   "FulfillmentKeysMismatch", "RequiredFieldRemoval", "RevisionExhausted",
   "IncrementOverflow", "Refused"}

(* EntityInstance *)
Instance(definition, id, state, revision, fields) ==
  [entity |-> definition.entity, version |-> definition.version, id |-> id,
   lifecycle_state |-> state, revision |-> revision, fields |-> fields]

Accepted(record) == Ok(<<"accepted", record>>)
Refused(outcome) == Ok(<<"refused", outcome.name, outcome.refuses[1]>>)
IsAccepted(evaluation) == ~IsErr(evaluation) /\ evaluation[2][1] = "accepted"
IsRefused(evaluation) == ~IsErr(evaluation) /\ evaluation[2][1] = "refused"
RecordOf(evaluation) == evaluation[2][2]

(* Evaluation::into_decision *)
into_decision(evaluation) ==
  IF IsRefused(evaluation) THEN Err("Refused") ELSE evaluation

ErrorOf(results) == CHOOSE e \in Errors(results) : TRUE
Fails(results) == Errors(results) # {}

(* The rest of a decision, unless it has failed: with a result, or with    *)
(* the error a check found.                                                *)
Unless(result, rest) == IF IsErr(result) THEN result ELSE rest
UnlessError(error, rest) == IF error # "none" THEN Err(error) ELSE rest
OrElse(error, next) == IF error # "none" THEN error ELSE next

-----------------------------------------------------------------------------

(* argument_presence and insert_present_arguments *)
RECURSIVE argument_presence(_, _)
argument_presence(members, path) ==
  CASE Head(path) \notin DOMAIN members -> <<>>
    [] Tail(path) = <<>> -> <<members[Head(path)]>>
    [] Is("obj", members[Head(path)]) ->
         argument_presence(members[Head(path)][2], Tail(path))
    [] OTHER -> <<>>

insert_present_arguments(target, conditional, arguments) ==
  [n \in {c \in DOMAIN conditional :
            IsSome(argument_presence(arguments, conditional[c]))} |->
     argument_presence(arguments, conditional[n])[1]] @@ target

(* changed_fields: every field whose token is not the one it had. *)
changed_fields_ByValue(context) ==
  LET new == context.new_fields
      old == context.old_fields IN
  [n \in {f \in DOMAIN new :
            f \notin DOMAIN old \/ ~values_equal(old[f], new[f])} |-> new[n]]

changed_fields(context) ==
  LET new == context.new_fields
      old == context.old_fields IN
  [n \in {f \in DOMAIN new : f \notin DOMAIN old \/ old[f] # new[f]} |-> new[n]]

(* materialize_event *)
EventWith(event, context, revision, args, removed, payload) ==
  LET conditional == DOMAIN event.payload_if_present # {} IN
  IF IsErr(payload) THEN payload
  ELSE IF conditional /\ ~Is("obj", payload[2]) THEN Err("PayloadNotObject")
  ELSE IF context.id = <<>> THEN Err("PreAddress")
  ELSE Ok([entity |-> context.definition.entity,
           version |-> context.definition.version,
           id |-> context.id[1], revision |-> revision,
           event_type |-> event.event_type, from_state |-> context.from_state,
           to_state |-> context.to_state, changed |-> changed_fields(context),
           removed |-> removed, args |-> args,
           payload |-> IF conditional
                         THEN Object(insert_present_arguments(payload[2][2],
                                event.payload_if_present, context.args))
                         ELSE payload[2]])

materialize_event(event, context, revision, args, removed) ==
  EventWith(event, context, revision, args, removed,
            resolve_template(event.payload, context))

Materialized(emits, context, revision, args, removed) ==
  [i \in DOMAIN emits |->
     materialize_event(emits[i], context, revision, args, removed)]

(* materialize_response: a recomputation takes the response as recorded    *)
(* and does not check it again.                                            *)
ResponseAs(schema, check, semantics, response) ==
  IF check = "Checked" => validate_object_under(schema, response, semantics)
    THEN Ok(<<response>>) ELSE Err("Validation")

ResponseWith(parts, conditional, schema, check, context) ==
  IF Fails(parts) THEN ErrorOf(parts)
  ELSE ResponseAs(schema, check, context.definition.semantics,
         insert_present_arguments([n \in DOMAIN parts |-> parts[n][2]],
                                  conditional, context.args))

materialize_response(responds, conditional, schema, check, context) ==
  ResponseWith([n \in DOMAIN responds |-> resolve_template(responds[n], context)],
               conditional, schema, check, context)

-----------------------------------------------------------------------------

(* check_preconditions and check_invariants: the first rule that does not  *)
(* hold, or cannot be observed, refuses the command.  The answer is the    *)
(* error, or "none".                                                       *)
RuleError(truth, false, unknown) ==
  CASE truth = "true"    -> "none"
    [] truth = "false"   -> false
    [] truth = "unknown" -> unknown
    [] OTHER             -> truth

RECURSIVE FirstRuleError(_, _, _, _)
FirstRuleError(rules, context, false, unknown) ==
  IF rules = <<>> THEN "none"
  ELSE OrElse(RuleError(evaluate_condition(Head(rules).condition, context, EmptyMap),
                        false, unknown),
              FirstRuleError(Tail(rules), context, false, unknown))

check_preconditions(operation, context) ==
  FirstRuleError(operation.preconditions, context,
                 "PreconditionFailed", "PreconditionUnobservable")

check_invariants(definition, context) ==
  FirstRuleError(definition.invariants, context,
                 "InvariantViolation", "InvariantUnobservable")

(* derive_creation_identity, as an option, and check_identity_mirror: the  *)
(* storage address is the one the identity field derives.                  *)
derive_creation_identity(definition, fields) ==
  IF definition.identity = <<>>
       \/ definition.identity[1] \notin DOMAIN definition.schema.fields
       \/ definition.identity[1] \notin DOMAIN fields
    THEN <<>>
  ELSE address(definition.schema.fields[definition.identity[1]].kind,
               fields[definition.identity[1]])

check_identity_mirror(definition, instance) ==
  IsSome(definition.identity) =>
    derive_creation_identity(definition, instance.fields) = <<instance.id>>

(* What every decision checks last of the instance it would leave. *)
AfterError_Unmirrored(definition, next, context) ==
  check_invariants(definition, context)

AfterError(definition, next, context) ==
  IF ~check_identity_mirror(definition, next) THEN "IdentityMismatch"
  ELSE check_invariants(definition, context)

(* normalize_arguments: defaults, then the schema. *)
ValidatedAs(schema, object, semantics) ==
  IF validate_object_under(schema, object, semantics) THEN Ok(object)
  ELSE Err("Validation")

Normalized(schema, input, semantics) ==
  ValidatedAs(schema, apply_defaults(schema, input), semantics)

normalize_arguments(definition, operation, input) ==
  IF operation \notin DOMAIN definition.operations THEN Err("OperationNotFound")
  ELSE Normalized(definition.operations[operation].arguments, input,
                  definition.semantics)

(* ensure_entity_matches and ensure_state_known *)
ensure_entity_matches(definition, instance) ==
  definition.entity = instance.entity /\ definition.version = instance.version

ensure_state_known(definition, instance) ==
  instance.lifecycle_state \in States(definition)

-----------------------------------------------------------------------------

(* select_outcome: the first branch guarded by this state, or by none,     *)
(* whose condition holds; one that cannot be observed ends the selection.  *)
SelectOr(outcome, state, truth, next) ==
  IF outcome.wrong_state \/ outcome.in_state \notin {<<>>, <<state>>} THEN next
  ELSE CASE truth = "true"    -> Ok(outcome)
         [] truth = "false"   -> next
         [] truth = "unknown" -> Err("OutcomeUnobservable")
         [] OTHER             -> Err(truth)

RECURSIVE select_outcome(_, _, _)
select_outcome(outcomes, state, context) ==
  IF outcomes = <<>> THEN Err("NoOutcomeSelected")
  ELSE SelectOr(Head(outcomes), state,
         IF Head(outcomes).when = <<>> THEN "true"
         ELSE evaluate_condition(Head(outcomes).when[1], context, EmptyMap),
         select_outcome(Tail(outcomes), state, context))

(* admit_state: a move must start where the instance is; in a state no     *)
(* branch moves from, the wrong-state branch answers.                      *)
admit_state(definition, operation, outcome, state) ==
  LET wrong == {o \in Elem(operation.outcomes) : o.wrong_state} IN
  IF move_sources(outcome) = <<>> \/ state \in Elem(move_sources(outcome)[1])
    THEN Ok(outcome)
  ELSE IF state \notin wrong_states(definition, operation)
    THEN Err("UnspecifiedMoveSource")
  ELSE IF wrong = {} THEN Err("InvalidTransition")
  ELSE Ok(CHOOSE o \in wrong : TRUE)

(* Branch: what the rest of a decision takes from the selected outcome, or *)
(* from the operation itself when it declares none.                        *)
ImplicitBranch(operation, to) ==
  [name |-> <<>>, to_state |-> to, set |-> operation.set,
   set_if_present |-> EmptyMap, fulfills |-> EmptyMap, emits |-> operation.emits,
   responds |-> <<>>, responds_if_present |-> EmptyMap, effect |-> <<>>]

OutcomeBranch(outcome, from) ==
  [name |-> <<outcome.name>>,
   to_state |-> IF outcome.effect[1] = "moves" THEN outcome.effect[2] ELSE from,
   set |-> outcome.set, set_if_present |-> outcome.set_if_present,
   fulfills |-> outcome.fulfills, emits |-> outcome.emits,
   responds |-> <<outcome.responds>>,
   responds_if_present |-> outcome.responds_if_present,
   effect |-> <<CASE outcome.effect[1] = "moves"   -> "Moved"
                  [] outcome.effect[1] = "updates" -> "Updated"
                  [] outcome.effect[1] = "creates" -> "Created"
                  [] OTHER                         -> "Unchanged">>]

HasOutcomes(definition, outcomes) ==
  has_service_semantics(definition.semantics) /\ outcomes # <<>>

Transition(operation, state) ==
  {t \in Elem(operation.transitions) : state \in Elem(t.from)}

(* The branch of an operation: a branch, a refusal or an error. *)
Branch(branch) == Ok(<<"branch", branch>>)

ImplicitSelection(operation, moves) ==
  IF moves = {} THEN Err("InvalidTransition")
  ELSE Branch(ImplicitBranch(operation, (CHOOSE t \in moves : TRUE).to))

BranchOf(outcome, state) ==
  IF IsErr(outcome) THEN outcome
  ELSE IF IsSome(outcome[2].refuses) THEN Refused(outcome[2])
  ELSE Branch(OutcomeBranch(outcome[2], state))

Admitted(definition, operation, state, selected) ==
  IF IsErr(selected) THEN selected
  ELSE admit_state(definition, operation, selected[2], state)

SelectedOutcome(definition, operation, instance, args) ==
  LET state == instance.lifecycle_state IN
  Admitted(definition, operation, state,
    select_outcome(operation.outcomes, state,
      TemplateContext(definition, <<instance.id>>, args, <<operation.arguments>>,
        instance.fields, instance.fields, <<state>>, state)))

SelectedBranch(definition, operation, instance, args) ==
  IF HasOutcomes(definition, operation.outcomes)
    THEN BranchOf(SelectedOutcome(definition, operation, instance, args),
                  instance.lifecycle_state)
    ELSE ImplicitSelection(operation,
                           Transition(operation, instance.lifecycle_state))

-----------------------------------------------------------------------------

(* incremented_value: the sum of what the instance holds and the amount,   *)
(* within the range its declaration and its semantics can read back.       *)
IntegerSum(held, by, semantics) ==
  LET fits(whole) == IF IntegerToken(whole, semantics)
                       THEN Ok(<<whole>>) ELSE Err("IncrementOverflow") IN
  IF as_integer(held) = <<>> THEN Err("Validation")
  ELSE IF as_integer(by) = <<>> THEN Err("NotAnAmount")
  ELSE fits(Whole(as_integer(held)[1] + as_integer(by)[1]))

NumberSum(sum, service) ==
  IF sum = <<>> \/ (service /\ of_number(sum[1]) = <<>>)
    THEN Err("IncrementOverflow") ELSE Ok(sum)

incremented_value(field, amount, context) ==
  LET held == context.old_fields[field]
      declared == context.definition.schema.fields
      by(resolved) ==
        IF IsErr(resolved) THEN resolved
        ELSE IF ~Is("num", resolved[2]) THEN Err("NotAnAmount")
        ELSE IF field \in DOMAIN declared /\ declared[field].kind = "integer"
          THEN IntegerSum(held, resolved[2], context.definition.semantics)
        ELSE NumberSum(add(held, resolved[2]), Service(context)) IN
  IF field \notin DOMAIN context.old_fields THEN Err("Validation")
  ELSE IF ~Is("num", held) THEN Err("Validation")
  ELSE by(resolve_template(amount, context))

(* assigned_value: Ok(None) clears the field. *)
assigned_value(field, value, context) ==
  LET some(resolved) == IF IsErr(resolved) THEN resolved ELSE Ok(<<resolved[2]>>)
      assign(assignment) ==
        CASE assignment[1] = "template"  -> some(resolve_template(value, context))
          [] assignment[1] = "increment" ->
               incremented_value(field, assignment[2], context)
          [] assignment[1] = "cleared" /\ assignment[2] = Bool(TRUE) -> Ok(<<>>)
          [] OTHER -> Err("NotAnAssignment") IN
  assign(SetAssignment(value))

AssignedValues(set, context) ==
  [f \in DOMAIN set |-> assigned_value(f, set[f], context)]

Cleared(assigned) == {f \in DOMAIN assigned : assigned[f][2] = <<>>}

Assign(fields, assigned) ==
  [f \in (DOMAIN fields \cup DOMAIN assigned) \ Cleared(assigned) |->
     IF f \in DOMAIN assigned THEN assigned[f][2][1] ELSE fields[f]]

-----------------------------------------------------------------------------

(* Fulfilments: for each field an outcome leaves to an external fulfiller, *)
(* <<"preserve">>, <<"remove">> or <<"set", value>>.  FulfillmentError is  *)
(* the error a decision answers, or "none"; supplied is an option.         *)
FulfillmentError(definition, branch, supplied) ==
  LET required == DOMAIN branch.fulfills
      actions == supplied[1]
      wrong(f) ==
        /\ actions[f][1] = "set"
        /\ ~validate_value(definition.schema.fields[f], actions[f][2],
                           definition.semantics)
      lost(f) == actions[f][1] = "remove" /\ branch.fulfills[f] = "required" IN
  IF supplied = <<>> THEN IF required = {} THEN "none" ELSE "FulfillmentRequired"
  ELSE IF DOMAIN actions # required THEN "FulfillmentKeysMismatch"
  ELSE IF \E f \in required : wrong(f) THEN "Validation"
  ELSE IF \E f \in required : lost(f) THEN "RequiredFieldRemoval"
  ELSE "none"

(* The actions as assignments: what is preserved is not assigned. *)
Fulfilled(branch, supplied) ==
  IF supplied = <<>> THEN EmptyMap
  ELSE [f \in {g \in DOMAIN supplied[1] : supplied[1][g][1] # "preserve"} |->
          Ok(IF supplied[1][f][1] = "set" THEN <<supplied[1][f][2]>> ELSE <<>>)]

(* What a decision would record, if nothing it has still to materialize    *)
(* fails: the checks of the instance it leaves, its events, its response.  *)
Settle(record, broken, events, response) ==
  IF broken # "none" THEN Err(broken)
  ELSE IF Fails(events) THEN ErrorOf(events)
  ELSE IF IsErr(response) THEN response
  ELSE Accepted([record EXCEPT !.events = [i \in DOMAIN events |-> events[i][2]],
                               !.response = response[2]])

BranchRecord(after, instance, name, branch, supplied, removed) ==
  [definition |-> <<after.definition>>,
   command |-> <<"Execute", name, after.args,
                 IF IsSome(supplied) THEN supplied[1] ELSE EmptyMap>>,
   id |-> instance.id, revision |-> instance.revision + 1,
   from_state |-> after.from_state, to_state |-> branch.to_state,
   result |-> Instance(after.definition, instance.id, branch.to_state,
                       instance.revision + 1, after.new_fields),
   changed |-> changed_fields(after), removed |-> removed, events |-> <<>>,
   outcome |-> branch.name, effect |-> branch.effect, response |-> <<>>]

FinishBranch(after, operation, branch, check, record) ==
  IF ~validate_object_under(after.definition.schema, after.new_fields,
                            after.definition.semantics)
    THEN Err("Validation")
  ELSE IF record.revision > I64Max THEN Err("RevisionExhausted")
  ELSE Settle(record, AfterError(after.definition, record.result, after),
              Materialized(branch.emits, after, record.revision, after.args,
                           record.removed),
              IF branch.responds = <<>> THEN Ok(<<>>)
              ELSE materialize_response(branch.responds[1],
                     branch.responds_if_present, operation.response, check, after))

(* The fields as the branch and the fulfilments assign them. *)
AssignBranch(before, assigned, fulfilled, branch) ==
  [before EXCEPT !.new_fields =
     Assign(insert_present_arguments(Assign(before.old_fields, assigned),
                                     branch.set_if_present, before.args), fulfilled)]

(* decide_with_fulfillments, once a branch is selected and the arguments   *)
(* are normalized: before is the context in which nothing is assigned yet. *)
DecideAssigned(before, instance, name, branch, supplied, check, assigned, after) ==
  IF Fails(assigned) THEN ErrorOf(assigned)
  ELSE UnlessError(FulfillmentError(before.definition, branch, supplied),
         FinishBranch(after, before.definition.operations[name], branch, check,
           BranchRecord(after, instance, name, branch, supplied,
             Cleared(assigned) \cup Cleared(Fulfilled(branch, supplied)))))

AssignAndDecide(before, instance, name, branch, supplied, check, assigned) ==
  DecideAssigned(before, instance, name, branch, supplied, check, assigned,
    AssignBranch(before, assigned, Fulfilled(branch, supplied), branch))

DecideBranch(before, instance, name, branch, supplied, check) ==
  UnlessError(check_preconditions(before.definition.operations[name], before),
    AssignAndDecide(before, instance, name, branch, supplied, check,
                    AssignedValues(branch.set, before)))

DecideSelected(definition, instance, name, args, selected, supplied, check) ==
  IF IsErr(selected) \/ IsRefused(selected) THEN selected
  ELSE DecideBranch(
         TemplateContext(definition, <<instance.id>>, args,
           <<definition.operations[name].arguments>>, instance.fields,
           instance.fields, <<instance.lifecycle_state>>, selected[2][2].to_state),
         instance, name, selected[2][2], supplied, check)

DecideNormalized(definition, instance, name, args, supplied, check) ==
  Unless(args,
    DecideSelected(definition, instance, name, args[2],
      SelectedBranch(definition, definition.operations[name], instance, args[2]),
      supplied, check))

decide_with_fulfillments(definition, instance, name, input, supplied, check) ==
  IF ~ensure_entity_matches(definition, instance) THEN Err("EntityMismatch")
  ELSE IF ~ensure_state_known(definition, instance) THEN Err("UnknownState")
  ELSE DecideNormalized(definition, instance, name,
         normalize_arguments(definition, name, input), supplied, check)

decide(definition, instance, name, input) ==
  decide_with_fulfillments(definition, instance, name, input, <<>>, "Checked")

-----------------------------------------------------------------------------

(* What a creation would record; context has read its fields. *)
CreateRecord(context, id, fields, arguments) ==
  [definition |-> <<context.definition>>,
   command |-> <<"Create", fields, arguments>>,
   id |-> id, revision |-> 1, from_state |-> <<>>, to_state |-> context.to_state,
   result |-> Instance(context.definition, id, context.to_state, 1,
                       context.new_fields),
   changed |-> context.new_fields, removed |-> {}, events |-> <<>>,
   outcome |-> <<>>, effect |-> <<>>, response |-> <<>>]

FinishCreate(context, record, emits, args, response) ==
  Settle(record, AfterError(context.definition, record.result, context),
         Materialized(emits, context, 1, args, {}), response)

CreateContext(definition, id, args, arguments_schema, fields) ==
  TemplateContext(definition, id, args, arguments_schema, EmptyMap, fields, <<>>,
                  definition.lifecycle.initial)

(* service_create: the fields are what the selected outcome sets. *)
CreatedBy(outcome, context, check) ==
  FinishCreate(context,
    [CreateRecord(context, context.id[1], context.new_fields, context.args)
       EXCEPT !.outcome = <<outcome.name>>,
              !.effect = <<IF outcome.effect[1] = "creates"
                             THEN "Created" ELSE "Unchanged">>],
    outcome.emits, context.args,
    materialize_response(outcome.responds, outcome.responds_if_present,
                         context.definition.create.response, check, context))

(* The identity a creation was given, or the one its fields derive. *)
Identified(context) ==
  IF IsSome(context.id) THEN context
  ELSE [context EXCEPT !.id = derive_creation_identity(context.definition,
                                                       context.new_fields)]

CreateIdentified(outcome, context, check) ==
  IF context.id = <<>> THEN Err("CreationIdentityUnavailable")
  ELSE CreatedBy(outcome, context, check)

CreateWith(outcome, before, fields, check) ==
  IF ~validate_object_under(before.definition.schema, fields,
                            before.definition.semantics)
    THEN Err("Validation")
  ELSE CreateIdentified(outcome,
         Identified([before EXCEPT !.new_fields = fields]), check)

CreateFrom(outcome, before, set, check) ==
  IF Fails(set) THEN ErrorOf(set)
  ELSE CreateWith(outcome, before,
         apply_defaults(before.definition.schema,
           insert_present_arguments([f \in DOMAIN set |-> set[f][2]],
                                    outcome.set_if_present, before.args)), check)

CreateSelected(before, selected, check) ==
  IF IsErr(selected) THEN selected
  ELSE IF IsSome(selected[2].refuses) THEN Refused(selected[2])
  ELSE CreateFrom(selected[2], before,
         [f \in DOMAIN selected[2].set |->
            resolve_template(selected[2].set[f], before)], check)

CreateBefore(before, check) ==
  CreateSelected(before,
    select_outcome(before.definition.create.outcomes, before.to_state, before), check)

CreateNormalized(definition, supplied_id, args, check) ==
  Unless(args, CreateBefore(CreateContext(definition, supplied_id, args[2],
                              <<definition.create.arguments>>, EmptyMap), check))

service_create(definition, supplied_id, input, check) ==
  CreateNormalized(definition, supplied_id,
    Normalized(definition.create.arguments, input, definition.semantics), check)

(* The creation of a definition that declares no outcome: the input is the *)
(* fields.                                                                 *)
CreateOfFields(definition, id, fields, context) ==
  FinishCreate(context,
    CreateRecord(context, id, fields,
      IF has_service_semantics(definition.semantics) THEN fields ELSE EmptyMap),
    definition.create.emit, fields, Ok(<<>>))

FieldsNormalized(definition, id, fields) ==
  Unless(fields, CreateOfFields(definition, id, fields[2],
           CreateContext(definition, <<id>>, EmptyMap, <<>>, fields[2])))

FieldsCreate(definition, id, input) ==
  FieldsNormalized(definition, id,
                   Normalized(definition.schema, input, definition.semantics))

decide_create_as(definition, id, input, check) ==
  IF Blank(id) THEN Err("Validation")
  ELSE IF HasOutcomes(definition, definition.create.outcomes)
    THEN service_create(definition, <<id>>, input, check)
  ELSE FieldsCreate(definition, id, input)

decide_create(definition, id, input) ==
  decide_create_as(definition, id, input, "Checked")

CreateDerivedFrom(definition, id, fields) ==
  IF id = <<>> THEN Err("CreationIdentityUnavailable")
  ELSE IF Blank(id[1]) THEN Err("Validation")
  ELSE FieldsCreate(definition, id[1], fields)

DeriveAndCreate(definition, fields) ==
  Unless(fields, CreateDerivedFrom(definition,
           derive_creation_identity(definition, fields[2]), fields[2]))

decide_create_derived(definition, input) ==
  IF HasOutcomes(definition, definition.create.outcomes)
    THEN service_create(definition, <<>>, input, "Checked")
  ELSE DeriveAndCreate(definition,
         Normalized(definition.schema, input, definition.semantics))

-----------------------------------------------------------------------------

(* PreparedOperation: a command whose subject is still to be loaded. *)
Prepared(definition, id, operation, arguments, check) ==
  [definition |-> definition, expected_id |-> id, operation |-> operation,
   arguments |-> arguments, check |-> check]

Load(prepared) == Ok(<<"load", prepared>>)

(* PreloadSelection: the first branch the arguments alone can settle.      *)
PreloadAnswer(outcome, truth, next, load) ==
  IF outcome.wrong_state THEN next
  ELSE IF IsSome(outcome.in_state) \/ truth = "needs" THEN load
  ELSE CASE truth = "false"   -> next
         [] truth = "unknown" -> Err("OutcomeUnobservable")
         [] truth = "true"    ->
              IF IsSome(outcome.refuses) THEN Refused(outcome) ELSE load
         [] OTHER -> Err(truth)

RECURSIVE PreloadSelection(_, _, _)
PreloadSelection(outcomes, context, load) ==
  IF outcomes = <<>> THEN Err("NoOutcomeSelected")
  ELSE PreloadAnswer(Head(outcomes),
         IF Head(outcomes).when = <<>> THEN "true"
         ELSE evaluate_condition_before_load(Head(outcomes).when[1], context, EmptyMap),
         PreloadSelection(Tail(outcomes), context, load), load)

PreloadNormalized(definition, id, name, args, load) ==
  LET operation == definition.operations[name] IN
  IF ~HasOutcomes(definition, operation.outcomes) THEN load
  ELSE PreloadSelection(operation.outcomes,
         TemplateContext(definition, <<id>>, args, <<operation.arguments>>, EmptyMap,
                         EmptyMap, <<>>, definition.lifecycle.initial), load)

PreloadWith(definition, id, name, args, check) ==
  Unless(args, PreloadNormalized(definition, id, name, args[2],
           Load(Prepared(definition, id, name, args[2], check))))

decide_before_load_as(definition, id, name, input, check) ==
  IF Blank(id) THEN Err("Validation")
  ELSE PreloadWith(definition, id, name,
                   normalize_arguments(definition, name, input), check)

(* select_with: the decision over the loaded subject, or the fields that   *)
(* must be fulfilled before it can be made.                                *)
NeedsFulfillment == Ok(<<"needs_fulfillment">>)

OrNeeds(decided) ==
  IF decided = Err("FulfillmentRequired") THEN NeedsFulfillment ELSE decided

select_with(prepared, instance) ==
  IF ~ensure_entity_matches(prepared.definition, instance) THEN Err("EntityMismatch")
  ELSE IF instance.id # prepared.expected_id THEN Err("SubjectMismatch")
  ELSE IF ~ensure_state_known(prepared.definition, instance) THEN Err("UnknownState")
  ELSE OrNeeds(decide_with_fulfillments(prepared.definition, instance,
         prepared.operation, prepared.arguments, <<>>, prepared.check))

OrRequired(selected) ==
  IF selected = NeedsFulfillment THEN Err("FulfillmentRequired") ELSE selected

continue_with(prepared, instance) == OrRequired(select_with(prepared, instance))

(* PreparedOutcome::complete *)
complete(prepared, instance, actions) ==
  decide_with_fulfillments(prepared.definition, instance, prepared.operation,
                           prepared.arguments, <<actions>>, prepared.check)

(* Decision::legacy_import: an instance some earlier system kept. *)
legacy_import(instance, events) ==
  [definition |-> <<>>, command |-> <<"LegacyImport">>,
   id |-> instance.id, revision |-> instance.revision, from_state |-> <<>>,
   to_state |-> instance.lifecycle_state, result |-> instance,
   changed |-> instance.fields, removed |-> {}, events |-> events,
   outcome |-> <<>>, effect |-> <<>>, response |-> <<>>]
=============================================================================
