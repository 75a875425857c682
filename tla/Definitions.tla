---------------------------- MODULE Definitions -----------------------------
(***************************************************************************)
(* Entity definitions (crates/entity-core/src/definition.rs,               *)
(* validation.rs): what a definition declares, and what registration       *)
(* refuses.  A refusal reports every defect; the model keeps whether there *)
(* is one.                                                                 *)
(***************************************************************************)
EXTENDS Conditions

CONSTANT MaxConditionDepth   \* MAX_CONDITION_DEPTH

(* EventDefinition, RuleDefinition and TransitionDefinition. *)
EventOf(event_type, payload) ==
  [event_type |-> event_type, payload |-> payload, payload_if_present |-> EmptyMap]
RuleOf(condition) == [name |-> <<>>, condition |-> condition, message |-> <<>>]
TransitionOf(from, to) == [from |-> from, to |-> to]

(* OutcomeDefinition.  An effect is <<"none">>, <<"creates">>,             *)
(* <<"updates">> or <<"moves", to, from>>.                                 *)
OutcomeOf(name) ==
  [name |-> name, when |-> <<>>, in_state |-> <<>>, wrong_state |-> FALSE,
   effect |-> <<"none">>, set |-> EmptyMap, fulfills |-> EmptyMap,
   set_if_present |-> EmptyMap, emits |-> <<>>, responds |-> EmptyMap,
   responds_if_present |-> EmptyMap, refuses |-> <<>>]

is_default_branch(outcome) ==
  outcome.when = <<>> /\ outcome.in_state = <<>> /\ ~outcome.wrong_state

(* What an outcome carries besides its refusal and its name. *)
Mutates(outcome) ==
  \/ outcome.effect # <<"none">>
  \/ outcome.emits # <<>>
  \/ \E carried \in {outcome.set, outcome.fulfills, outcome.set_if_present,
                     outcome.responds, outcome.responds_if_present} :
       DOMAIN carried # {}

is_observable(outcome) == Mutates(outcome) \/ IsSome(outcome.refuses)

move_sources(outcome) ==
  IF outcome.effect[1] = "moves" THEN <<outcome.effect[3]>> ELSE <<>>

(* OperationDefinition, CreateDefinition and EntityDefinition. *)
OperationOf(arguments, transitions) ==
  [arguments |-> arguments, transitions |-> transitions, preconditions |-> <<>>,
   set |-> EmptyMap, emits |-> <<>>, response |-> SchemaOf(EmptyMap),
   outcomes |-> <<>>]

CreateOf(emit) ==
  [emit |-> emit, arguments |-> SchemaOf(EmptyMap),
   response |-> SchemaOf(EmptyMap), outcomes |-> <<>>]

EntityOf(entity, semantics, fields, states) ==
  [entity |-> entity, version |-> 1, schema |-> SchemaOf(fields),
   lifecycle |-> [initial |-> states[1], states |-> states],
   invariants |-> <<>>, create |-> CreateOf(<<>>), operations |-> EmptyMap,
   projections |-> EmptyMap, semantics |-> semantics, identity |-> <<>>,
   relations |-> EmptyMap, scales |-> EmptyMap]

States(definition) ==
  {definition.lifecycle.states[i] : i \in DOMAIN definition.lifecycle.states}

Elem(sequence) == {sequence[i] : i \in DOMAIN sequence}

(* SetAssignment::of: an object written only with assignment keywords is   *)
(* an assignment, with both it is a conflict, and any other value is a     *)
(* template.                                                               *)
SetAssignment(value) ==
  IF ~Is("obj", value) \/ DOMAIN value[2] = {}
       \/ ~(DOMAIN value[2] \subseteq {"increment", "cleared"})
    THEN <<"template", value>>
  ELSE IF Cardinality(DOMAIN value[2]) > 1 THEN <<"conflicting", value>>
  ELSE LET keyword == CHOOSE k \in DOMAIN value[2] : TRUE IN
       <<keyword, value[2][keyword]>>

(* Condition::depth *)
RECURSIVE Depth(_)
Depth(condition) ==
  LET below == CASE condition[1] \in {"all", "any"} ->
                      {Depth(c) : c \in Elem(condition[2])}
                 [] condition[1] = "not" -> {Depth(condition[2])}
                 [] condition[1] \in {"for_all", "for_any"} -> {Depth(condition[4])}
                 [] OTHER -> {} IN
  IF below = {} THEN 1 ELSE 1 + CHOOSE d \in below : \A e \in below : e <= d

-----------------------------------------------------------------------------

(* Scope: where an expression stands, and so what it may read. *)
ScopeOf(kind, definition, args) ==
  [kind |-> kind, fields |-> definition.schema, args |-> args,
   binders |-> EmptyMap, semantics |-> definition.semantics]

ScopeService(scope) == has_service_semantics(scope.semantics)

(* Scope::allows *)
allows_Any(scope, root) == TRUE

allows(scope, root) ==
  CASE root \in {"id", "entity", "version"} -> TRUE
    [] root = "fields" -> scope.kind \notin {"CreateSelector", "CreateSet"}
    [] root = "state" ->
         scope.kind \notin {"Precondition", "OutcomeSelector", "CreateSelector"}
    [] root = "to_state" ->
         scope.kind \notin {"Invariant", "OutcomeSelector", "CreateSelector"}
    [] root = "from_state" ->
         scope.kind \in {"Precondition", "OperationTemplate", "OutcomeSelector"}
    [] root = "args" ->
         scope.kind \in {"Precondition", "OperationTemplate", "OutcomeSelector",
                         "CreateSelector", "CreateSet", "CreateOutcomeTemplate"}
    [] root = "old_fields" -> scope.kind \in {"Precondition", "OperationTemplate"}
    [] OTHER -> FALSE

(* walk_field_path: a path that could resolve.  What the runtime's walk    *)
(* reads is what this admits; a projection key reads object members only.  *)
RECURSIVE walk_field_path(_, _, _, _)
walk_field_path(field, path, reader, service) ==
  LET segment == Head(path)
      rest == Tail(path)
      further(next) == rest = <<>> \/ walk_field_path(next, rest, reader, service)
  IN
  CASE service /\ field.kind = "array" ->
         IF segment = "count" THEN rest = <<>>
         ELSE /\ is_ordinal(segment)
              /\ IsSome(field.items) => further(field.items[1])
    [] service /\ field.kind = "map" -> segment = "count" /\ rest = <<>>
    [] service /\ field.kind = "string" /\ segment = "count" ->
         reader = "Kernel" /\ rest = <<>>
    [] field.kind = "json" -> TRUE
    [] field.kind = "object" ->
         IF segment \in DOMAIN field.properties
           THEN further(field.properties[segment])
           ELSE field.additional_properties
    [] service /\ field.kind = "union" ->
         \/ <<segment>> = field.tag /\ rest = <<>>
         \/ <<segment>> # field.tag /\ segment = content_key(field)
    [] OTHER -> FALSE

validate_reference_path(schema, path, reader, service) ==
  IF Head(path) \in DOMAIN schema.fields
    THEN \/ Tail(path) = <<>>
         \/ walk_field_path(schema.fields[Head(path)], Tail(path), reader, service)
    ELSE schema.additional_fields

validate_reference(ref, scope, reader) ==
  LET root == ref[2]
      path == ref[3]
      schema == IF root = "args" THEN scope.args ELSE <<scope.fields>> IN
  CASE root \in DOMAIN scope.binders ->
         \/ scope.binders[root] = <<>> \/ path = <<>>
         \/ walk_field_path(scope.binders[root][1], path, "Kernel",
                            ScopeService(scope))
    [] path = <<>> -> allows(scope, root)
    [] OTHER ->
         /\ root \in {"fields", "old_fields", "args"}
         /\ allows(scope, root)
         /\ IsSome(schema)
         /\ validate_reference_path(schema[1], path, reader, ScopeService(scope))

(* walk_references with validate_reference: every reference in a value. *)
RECURSIVE validate_operand(_, _)
validate_operand(value, scope) ==
  CASE Is("ref", value) -> validate_reference(value, scope, "Kernel")
    [] value[1] \in {"arr", "obj"} ->
         \A k \in DOMAIN value[2] : validate_operand(value[2][k], scope)
    [] OTHER -> TRUE

validate_template(value, scope) == validate_operand(value, scope)

-----------------------------------------------------------------------------

(* An operand of before or after: a reference, or an instant that parses. *)
validate_instant_operand(value, scope) ==
  /\ validate_operand(value, scope)
  /\ Is("ref", value) \/ (Is("str", value) /\ IsSome(parse(value[2])))

(* unobservable_literals: a service literal must be observable. *)
RECURSIVE observable_literals(_)
observable_literals(value) ==
  CASE Is("num", value) -> IsSome(of_literal(value))
    [] value[1] \in {"arr", "obj"} ->
         \A k \in DOMAIN value[2] : observable_literals(value[2][k])
    [] OTHER -> TRUE

RECURSIVE observable_condition_literals(_)
observable_condition_literals(condition) ==
  CASE condition[1] \in {"all", "any"} ->
         \A c \in Elem(condition[2]) : observable_condition_literals(c)
    [] condition[1] = "not" -> observable_condition_literals(condition[2])
    [] condition[1] \in {"for_all", "for_any"} ->
         observable_condition_literals(condition[4])
    [] condition[1] \in {"exists", "before", "after", "starts_with", "ends_with"} ->
         TRUE
    [] OTHER ->
         \A i \in DOMAIN Operands(condition) :
           observable_literals(Operands(condition)[i])

(* validate_condition_body and validate_quantifier *)
RECURSIVE validate_condition_body(_, _)
validate_quantifier(condition, scope) ==
  LET element == collection_element(condition[2], scope.fields, scope.args,
                                    scope.binders) IN
  /\ ~Blank(condition[3])
  /\ validate_operand(condition[2], scope)
  /\ ~IsErr(element)
  /\ validate_condition_body(condition[4],
       [scope EXCEPT !.binders = (condition[3] :> element[2]) @@ @])

validate_condition_body(condition, scope) ==
  LET op == condition[1] IN
  /\ op \in {"compare", "truthy", "for_all", "for_any"} => ScopeService(scope)
  /\ CASE op \in {"all", "any"} ->
            /\ condition[2] # <<>>
            /\ \A c \in Elem(condition[2]) : validate_condition_body(c, scope)
       [] op = "not" -> validate_condition_body(condition[2], scope)
       [] op \in {"for_all", "for_any"} -> validate_quantifier(condition, scope)
       [] op \in {"before", "after"} ->
            \A i \in 1 .. 2 : validate_instant_operand(condition[2][i], scope)
       [] OTHER ->
            \A i \in DOMAIN Operands(condition) :
              LET operand == Operands(condition)[i] IN
              /\ op = "compare" => operand[1] \notin {"arr", "obj"}
              /\ validate_operand(operand, scope)
              /\ op \in {"starts_with", "ends_with"} =>
                   operand[1] \in {"str", "ref", "escaped"}

validate_condition_definition(condition, scope) ==
  /\ Depth(condition) <= MaxConditionDepth
  /\ ScopeService(scope) => observable_condition_literals(condition)
  /\ validate_condition_body(condition, scope)

validate_rule_definition(rule, scope) ==
  /\ IsSome(rule.name) => ~Blank(rule.name[1])
  /\ IsSome(rule.message) => ~Blank(rule.message[1])
  /\ validate_condition_definition(rule.condition, scope)

-----------------------------------------------------------------------------

(* present_numeric_kind: the declared kind of a reference that is always   *)
(* present: every member of its path is required, or an argument with a    *)
(* default.                                                                *)
RECURSIVE NumericKindAt(_, _, _, _)
NumericKindAt(members, path, defaults_fill, service) ==
  IF Head(path) \notin DOMAIN members THEN <<>>
  ELSE
    LET declared == members[Head(path)]
        rest == Tail(path) IN
    CASE ~(declared.required \/ (defaults_fill /\ IsSome(declared.default))) -> <<>>
      [] rest = <<>> -> <<declared.kind>>
      [] rest = <<"count">> /\ service
           /\ declared.kind \in {"array", "map", "string"} -> <<"integer">>
      [] declared.kind = "object" ->
           NumericKindAt(declared.properties, rest, defaults_fill, service)
      [] OTHER -> <<>>

present_numeric_kind(ref, scope) ==
  LET root == ref[2]
      path == ref[3] IN
  CASE root = "version" /\ path = <<>> -> <<"integer">>
    [] path = <<>> -> <<>>
    [] root = "args" /\ IsSome(scope.args) ->
         NumericKindAt(scope.args[1].fields, path, TRUE, ScopeService(scope))
    [] root \in {"fields", "old_fields"} ->
         NumericKindAt(scope.fields.fields, path, FALSE, ScopeService(scope))
    [] OTHER -> <<>>

validate_increment_amount(amount, kind, scope) ==
  CASE Is("num", amount) ->
         CASE kind = "integer" -> IntegerToken(amount, scope.semantics)
           [] OTHER -> ScopeService(scope) => IsSome(of_number(amount))
    [] Is("ref", amount) ->
         /\ validate_template(amount, scope)
         /\ LET found == present_numeric_kind(amount, scope) IN
            /\ IsSome(found)
            /\ found[1] \in IF kind = "integer" THEN {"integer"}
                            ELSE {"integer", "number"}
    [] OTHER -> FALSE

(* validate_clear: only a declared optional field, with `true`, and never  *)
(* in a creation.  An undeclared field of a closed schema is refused where *)
(* the set itself is checked.                                              *)
validate_clear(definition, field, flag, scope) ==
  /\ scope.kind # "CreateSet"
  /\ IF field \in DOMAIN definition.schema.fields
       THEN ~definition.schema.fields[field].required
       ELSE ~definition.schema.additional_fields
  /\ flag = Bool(TRUE)

(* An increment: a required integer or number field of the schema. *)
validate_increment(definition, field, amount, scope) ==
  /\ scope.kind # "CreateSet"
  /\ IF field \in DOMAIN definition.schema.fields
       THEN LET declared == definition.schema.fields[field] IN
            /\ declared.kind \in {"integer", "number"}
            /\ declared.required
            /\ validate_increment_amount(amount, declared.kind, scope)
       ELSE ~definition.schema.additional_fields

validate_set_entry(definition, field, value, scope) ==
  LET assignment == SetAssignment(value) IN
  CASE assignment[1] = "template"  -> validate_template(value, scope)
    [] assignment[1] = "increment" ->
         validate_increment(definition, field, assignment[2], scope)
    [] assignment[1] = "cleared"   ->
         validate_clear(definition, field, assignment[2], scope)
    [] OTHER -> FALSE

(* Every assignment names a field the schema admits. *)
validate_set(definition, set, scope) ==
  \A field \in DOMAIN set :
    /\ definition.schema.additional_fields
         \/ field \in DOMAIN definition.schema.fields
    /\ validate_set_entry(definition, field, set[field], scope)

-----------------------------------------------------------------------------

(* present_argument_leaf: a declared optional leaf without a default, below *)
(* required closed objects without one.                                     *)
RECURSIVE LeafAt(_, _)
LeafAt(fields, path) ==
  IF Head(path) \notin DOMAIN fields THEN <<>>
  ELSE
    LET field == fields[Head(path)] IN
    IF IsSome(field.default) THEN <<>>
    ELSE IF Tail(path) = <<>> THEN IF field.required THEN <<>> ELSE <<field>>
    ELSE IF ~field.required \/ field.kind # "object"
              \/ field.additional_properties THEN <<>>
    ELSE LeafAt(field.properties, Tail(path))

present_argument_leaf(schema, path) ==
  IF path = <<>> \/ schema.additional_fields THEN <<>>
  ELSE LeafAt(schema.fields, path)

(* validate_conditional_target: the destination is declared exactly as the *)
(* argument that fills it.                                                 *)
validate_conditional_target(fields, name, leaf) ==
  /\ name \in DOMAIN fields
  /\ ~fields[name].required
  /\ fields[name].default = <<>>
  /\ leaf = <<fields[name]>>

validate_conditional_event(event, arguments, semantics) ==
  DOMAIN event.payload_if_present # {} =>
    /\ has_conditional_presence(semantics)
    /\ Is("obj", event.payload)
    /\ \A name \in DOMAIN event.payload_if_present :
         /\ IsSome(present_argument_leaf(arguments, event.payload_if_present[name]))
         /\ ~Blank(name)
         /\ name \notin DOMAIN event.payload[2]

validate_event_definition(event, scope) ==
  ~Blank(event.event_type) /\ validate_template(event.payload, scope)

(* validate_conditional_outcome: a conditional member never shares its     *)
(* destination with an ordinary one.                                       *)
ConditionalMembers(conditional, ordinary, fields, arguments) ==
  \A name \in DOMAIN conditional :
    /\ name \notin DOMAIN ordinary
    /\ validate_conditional_target(fields, name,
         present_argument_leaf(arguments, conditional[name]))

validate_conditional_outcome(definition, outcome, arguments, response) ==
  /\ DOMAIN outcome.set_if_present # {} \/ DOMAIN outcome.responds_if_present # {}
       => has_conditional_presence(definition.semantics)
  /\ ConditionalMembers(outcome.set_if_present, outcome.set,
                        definition.schema.fields, arguments)
  /\ ConditionalMembers(outcome.responds_if_present, outcome.responds,
                        response.fields, arguments)
  /\ \A event \in Elem(outcome.emits) :
       validate_conditional_event(event, arguments, definition.semantics)

(* validate_fulfillment_outcome: a field an external fulfiller writes is   *)
(* declared, is not the identity, and nothing else in the outcome writes   *)
(* it; it may be removed only when it is optional.                         *)
validate_fulfillment_outcome(definition, outcome) ==
  DOMAIN outcome.fulfills # {} =>
    /\ has_operation_fulfillment(definition.semantics)
    /\ \A field \in DOMAIN outcome.fulfills :
         /\ field \in DOMAIN definition.schema.fields
         /\ definition.identity # <<field>>
         /\ field \notin DOMAIN outcome.set
         /\ field \notin DOMAIN outcome.set_if_present
         /\ outcome.fulfills[field] =
              IF definition.schema.fields[field].required
                THEN "required" ELSE "optional"

(* validate_outcome_expressions, for an operation and for a creation, whose *)
(* assignments stand in a scope of their own.                               *)
validate_outcome_expressions(definition, outcome, selector, set, template, response) ==
  /\ IsSome(outcome.when) => validate_condition_definition(outcome.when[1], selector)
  /\ validate_set(definition, outcome.set, set)
  /\ \A event \in Elem(outcome.emits) : validate_event_definition(event, template)
  /\ \A name \in DOMAIN outcome.responds :
       /\ name \in DOMAIN response.fields \/ response.additional_fields
       /\ validate_template(outcome.responds[name], template)
  /\ outcome.refuses = <<>> =>
       \A name \in DOMAIN response.fields :
         response.fields[name].required => name \in DOMAIN outcome.responds

-----------------------------------------------------------------------------

(* move_sources and wrong_states of an operation: the states some outcome  *)
(* moves from, and the states none does.                                   *)
OperationSources(operation) ==
  UNION {Elem(outcome.effect[3]) :
           outcome \in {o \in Elem(operation.outcomes) : o.effect[1] = "moves"}}

wrong_states(definition, operation) ==
  States(definition) \ OperationSources(operation)

(* validate_outcomes: names, the one default branch, the wrong-state       *)
(* branch, the effects and the states they name.                           *)
LastSelecting(outcomes) ==
  LET selecting == {i \in DOMAIN outcomes : ~outcomes[i].wrong_state} IN
  IF selecting = {} THEN 1
  ELSE CHOOSE i \in selecting : \A j \in selecting : j <= i

OutcomeShape(definition, outcome, onCreate) ==
  /\ ~Blank(outcome.name)
  /\ outcome.wrong_state =>
       ~onCreate /\ outcome.when = <<>> /\ outcome.in_state = <<>>
  /\ outcome.effect[1] \in IF onCreate THEN {"none", "creates"}
                           ELSE {"none", "moves", "updates"}
  /\ Elem(outcome.in_state) \subseteq States(definition)
  /\ outcome.effect[1] = "moves" =>
       /\ outcome.effect[2] \in States(definition)
       /\ Elem(outcome.effect[3]) \subseteq States(definition)
       /\ Elem(outcome.in_state) \subseteq Elem(outcome.effect[3])
  /\ IsSome(outcome.refuses) => ~Mutates(outcome)
  /\ is_observable(outcome) \/ outcome.wrong_state

validate_outcomes(definition, outcomes, onCreate) ==
  LET wrong == {i \in DOMAIN outcomes : outcomes[i].wrong_state} IN
  /\ \A i \in DOMAIN outcomes :
       /\ OutcomeShape(definition, outcomes[i], onCreate)
       /\ \A j \in 1 .. i - 1 : outcomes[j].name # outcomes[i].name
       /\ is_default_branch(outcomes[i]) => i = LastSelecting(outcomes)
  /\ Cardinality(wrong) <= 1
  /\ wrong # {} =>
       /\ \A i \in DOMAIN outcomes : outcomes[i].in_state = <<>>
       /\ wrong_states(definition, [outcomes |-> outcomes]) # {}

-----------------------------------------------------------------------------

validate_schema_definition(schema, semantics) ==
  \A name \in DOMAIN schema.fields :
    validate_field_definition(schema.fields[name], semantics)

validate_scales(definition) ==
  \A name \in DOMAIN definition.scales :
    ~Blank(name) /\ definition.scales[name] # <<>>

RECURSIVE carries_json(_)
carries_json(field) ==
  CASE field.kind = "json" -> TRUE
    [] field.kind = "object" ->
         \/ field.additional_properties
         \/ \E n \in DOMAIN field.properties : carries_json(field.properties[n])
    [] field.kind \in {"array", "map"} ->
         IsSome(field.items) /\ carries_json(field.items[1])
    [] field.kind = "union" ->
         \E n \in DOMAIN field.variants : carries_json(field.variants[n])
    [] OTHER -> FALSE

validate_identity(definition) ==
  IsSome(definition.identity) =>
    /\ definition.identity[1] \in DOMAIN definition.schema.fields
    /\ definition.schema.fields[definition.identity[1]].required
    /\ ~carries_json(definition.schema.fields[definition.identity[1]])

(* validate_relations: the half of a references relation the declaring     *)
(* definition can answer.                                                  *)
validate_relations(definition) ==
  \A name \in DOMAIN definition.relations :
    LET relation == definition.relations[name]
        fields == definition.schema.fields IN
    relation.kind = "references" =>
      /\ relation.via \in DOMAIN fields
      /\ relation.cardinality = "many" =>
           fields[relation.via].kind = "array" /\ fields[relation.via].required

(* The lifecycle: states, each named once, and an initial one of them. *)
validate_lifecycle(definition) ==
  /\ ~Blank(definition.entity)
  /\ definition.version # 0
  /\ definition.lifecycle.states # <<>>
  /\ \A state \in States(definition) : ~Blank(state)
  /\ Cardinality(States(definition)) = Len(definition.lifecycle.states)
  /\ definition.lifecycle.initial \in States(definition)

(* What a kernel/1 definition may not declare. *)
validate_semantics_keys(definition) ==
  has_service_semantics(definition.semantics) \/
    /\ definition.identity = <<>>
    /\ DOMAIN definition.relations = {} /\ DOMAIN definition.scales = {}
    /\ is_empty(definition.create.arguments)
    /\ is_empty(definition.create.response)
    /\ definition.create.outcomes = <<>>
    /\ \A name \in DOMAIN definition.operations :
         /\ is_empty(definition.operations[name].response)
         /\ definition.operations[name].outcomes = <<>>

validate_projections(definition) ==
  \A name \in DOMAIN definition.projections :
    LET projection == definition.projections[name] IN
    /\ validate_reference(projection.key, ScopeOf("Invariant", definition, <<>>),
                          "Projection")
    /\ Elem(projection.in_state) \subseteq States(definition)

validate_create_emit(definition) ==
  LET emit == definition.create.emit IN
  IsSome(emit) =>
    /\ validate_event_definition(emit[1], ScopeOf("CreateTemplate", definition, <<>>))
    /\ validate_conditional_event(emit[1], SchemaOf(EmptyMap), definition.semantics)

(* The service creation: its arguments, response and outcomes. *)
validate_service_create(definition) ==
  LET create == definition.create
      scope(kind) == ScopeOf(kind, definition, <<create.arguments>>) IN
  has_service_semantics(definition.semantics) =>
    /\ validate_schema_definition(create.arguments, definition.semantics)
    /\ validate_schema_definition(create.response, definition.semantics)
    /\ validate_outcomes(definition, create.outcomes, TRUE)
    /\ \A outcome \in Elem(create.outcomes) :
         /\ DOMAIN outcome.fulfills = {}
         /\ validate_outcome_expressions(definition, outcome,
              scope("CreateSelector"), scope("CreateSet"),
              scope("CreateOutcomeTemplate"), create.response)
         /\ validate_conditional_outcome(definition, outcome,
              create.arguments, create.response)

(* The transitions of an operation: declared states, and from each state   *)
(* at most one way.                                                        *)
validate_transitions(definition, operation) ==
  LET service == has_service_semantics(definition.semantics)
      Sources(i) == operation.transitions[i].from IN
  /\ operation.transitions = <<>> => service /\ operation.outcomes # <<>>
  /\ \A i \in DOMAIN operation.transitions :
       /\ Sources(i) # <<>>
       /\ Elem(Sources(i)) \subseteq States(definition)
       /\ Cardinality(Elem(Sources(i))) = Len(Sources(i))
       /\ \A j \in 1 .. i - 1 : Elem(Sources(i)) \cap Elem(Sources(j)) = {}
       /\ operation.transitions[i].to \in States(definition)

validate_operation(definition, name) ==
  LET operation == definition.operations[name]
      service == has_service_semantics(definition.semantics)
      scope(kind) == ScopeOf(kind, definition, <<operation.arguments>>) IN
  /\ ~Blank(name)
  /\ validate_schema_definition(operation.arguments, definition.semantics)
  /\ service =>
       /\ validate_schema_definition(operation.response, definition.semantics)
       /\ validate_outcomes(definition, operation.outcomes, FALSE)
  /\ validate_transitions(definition, operation)
  /\ \A rule \in Elem(operation.preconditions) :
       validate_rule_definition(rule, scope("Precondition"))
  /\ validate_set(definition, operation.set, scope("OperationTemplate"))
  /\ \A event \in Elem(operation.emits) :
       /\ validate_event_definition(event, scope("OperationTemplate"))
       /\ validate_conditional_event(event, operation.arguments,
                                     definition.semantics)
  /\ \A outcome \in Elem(operation.outcomes) :
       /\ validate_outcome_expressions(definition, outcome,
            scope("OutcomeSelector"), scope("OperationTemplate"),
            scope("OperationTemplate"), operation.response)
       /\ validate_conditional_outcome(definition, outcome,
            operation.arguments, operation.response)
       /\ validate_fulfillment_outcome(definition, outcome)

validate_definition(definition) ==
  /\ validate_lifecycle(definition)
  /\ validate_semantics_keys(definition)
  /\ validate_schema_definition(definition.schema, definition.semantics)
  /\ validate_scales(definition)
  /\ validate_identity(definition)
  /\ validate_relations(definition)
  /\ \A rule \in Elem(definition.invariants) :
       validate_rule_definition(rule, ScopeOf("Invariant", definition, <<>>))
  /\ validate_projections(definition)
  /\ validate_create_emit(definition)
  /\ validate_service_create(definition)
  /\ \A name \in DOMAIN definition.operations : validate_operation(definition, name)
=============================================================================
