----------------------------- MODULE Conditions -----------------------------
(***************************************************************************)
(* References, templates and conditions (crates/entity-core/src/           *)
(* runtime.rs): how a reference reads the arguments, the fields or a bound *)
(* element along its declaration, how a template is resolved, and how a    *)
(* condition is evaluated, with the subject loaded and before.             *)
(*                                                                         *)
(* A template is a value in which <<"ref", root, path>> stands for a       *)
(* string that begins with one dollar and <<"escaped", text>> for one that *)
(* begins with two.  A condition is a tuple whose head is its operator.    *)
(* Bindings is a function from the names quantifiers have bound.           *)
(***************************************************************************)
EXTENDS Schemas

LOCAL SX == INSTANCE SequencesExt

Ref(root, path) == <<"ref", root, path>>
Escaped(text) == <<"escaped", text>>

(* A segment that is an element index: no sign and no leading zero. *)
is_ordinal(segment) == segment \in {ToString(i) : i \in 0 .. 9}
Ordinal(segment) == CHOOSE i \in 0 .. 9 : ToString(i) = segment

-----------------------------------------------------------------------------

(* collection_address: count of a map or an array, or an array's element.  *)
(* The answer is the value addressed and its declaration.                  *)
collection_address(value, field, segment) ==
  LET array == field = <<>> \/ field[1].kind \in {"array", "json"} IN
  CASE Is("obj", value) /\ IsSome(field) /\ field[1].kind = "map"
         /\ segment = "count" ->
         <<Whole(Cardinality(DOMAIN value[2])), <<>>>>
    [] Is("arr", value) /\ array /\ segment = "count" ->
         <<Whole(Len(value[2])), <<>>>>
    [] Is("arr", value) /\ array /\ is_ordinal(segment)
         /\ Ordinal(segment) < Len(value[2]) ->
         <<value[2][Ordinal(segment) + 1],
           IF IsSome(field) THEN field[1].items ELSE <<>>>>
    [] OTHER -> <<>>

(* selected_variant: the declaration under a union's content key is the    *)
(* one its label selects.                                                  *)
selected_variant(field, members, segment) ==
  LET tag == IF IsSome(field.tag) THEN field.tag[1] ELSE "kind" IN
  IF /\ segment = content_key(field)
     /\ tag \in DOMAIN members
     /\ Is("str", members[tag])
     /\ members[tag][2] \in DOMAIN field.variants
    THEN <<field.variants[members[tag][2]]>> ELSE <<>>

MemberDeclaration(field, members, segment) ==
  CASE field = <<>> -> <<>>
    [] field[1].kind = "object" ->
         IF segment \in DOMAIN field[1].properties
           THEN <<field[1].properties[segment]>> ELSE <<>>
    [] field[1].kind = "union" -> selected_variant(field[1], members, segment)
    [] OTHER -> <<>>

(* walk: the value at a path, or None.  A declaration, while one is known, *)
(* decides what a segment means: a text has only a count, and the keys of  *)
(* a map are not addressed, unless a quantifier bound the map.             *)
(* Step answers the value one segment on, its declaration and whether the  *)
(* kind of a text is still checked, or None.                               *)
Step(value, segment, last, field, checked, service, addressed) ==
  IF service /\ checked /\ IsSome(field) /\ field[1].kind = "string" THEN
    IF Is("str", value) /\ last /\ segment = "count"
      THEN <<Whole(Len(value[2])), <<>>, checked>> ELSE <<>>
  ELSE IF service /\ IsSome(addressed) THEN
    <<addressed[1], addressed[2], checked>>
  ELSE IF service /\ IsSome(field) /\ field[1].kind \in {"map", "array"} THEN <<>>
  ELSE IF ~Is("obj", value) \/ segment \notin DOMAIN value[2] THEN <<>>
  ELSE <<value[2][segment], MemberDeclaration(field, value[2], segment),
         checked /\ ~(IsSome(field) /\ field[1].kind = "union")>>

RECURSIVE walk(_, _, _, _, _, _)
walk(value, path, declared, checked, service, start) ==
  LET from(field) ==
        Step(value, Head(path), Tail(path) = <<>>, field, checked, service,
             collection_address(value, field, Head(path)))
      further(step) ==
        IF step = <<>> THEN <<>>
        ELSE IF Tail(path) = <<>> THEN <<step[1]>>
        ELSE walk(step[1], Tail(path), step[2], step[3], service, start) IN
  further(from(IF IsSome(declared) /\ (start = "root" \/ declared[1].kind # "map")
                 THEN declared ELSE <<>>))

(* lookup: a path below $args, $fields or $old_fields. *)
lookup(root, path, schema, service) ==
  LET first == Head(path)
      declared == IsSome(schema) /\ first \in DOMAIN schema[1].fields IN
  CASE first \notin DOMAIN root -> <<>>
    [] Tail(path) = <<>>        -> <<root[first]>>
    [] OTHER -> walk(root[first], Tail(path),
                     IF declared THEN <<schema[1].fields[first]>> ELSE <<>>,
                     declared, service, "root")

(* TemplateContext: everything an expression may read.  id is None while   *)
(* the storage address is still to be derived from the fields.             *)
TemplateContext(definition, id, args, arguments_schema, old, new, from, to) ==
  [definition |-> definition, id |-> id, args |-> args,
   arguments_schema |-> arguments_schema, old_fields |-> old,
   new_fields |-> new, from_state |-> from, to_state |-> to]

Service(context) == has_service_semantics(context.definition.semantics)

BelowRoot(ref, context) ==
  lookup(CASE ref[2] = "args"       -> context.args
           [] ref[2] = "fields"     -> context.new_fields
           [] ref[2] = "old_fields" -> context.old_fields,
         ref[3],
         IF ref[2] = "args" THEN context.arguments_schema
         ELSE <<context.definition.schema>>,
         Service(context))

(* resolve_expression_optional: a bound name shadows every root. *)
resolve_expression_optional(ref, context, bindings) ==
  LET root == ref[2]
      path == ref[3] IN
  CASE root \in DOMAIN bindings ->
         LET b == bindings[root] IN
         Ok(IF path = <<>> THEN <<b.value>>
            ELSE walk(b.value, path, b.declared, IsSome(b.declared),
                      Service(context), "binder"))
    [] path # <<>> /\ root \in {"args", "fields", "old_fields"} ->
         Ok(BelowRoot(ref, context))
    [] path # <<>> -> Err("UnknownTemplate")
    [] root = "id" ->
         IF IsSome(context.id) THEN Ok(<<String(context.id[1])>>)
         ELSE Err("PreAddress")
    [] root = "entity" -> Ok(<<String(context.definition.entity)>>)
    [] root = "version" -> Ok(<<Whole(context.definition.version)>>)
    [] root = "from_state" ->
         Ok(IF IsSome(context.from_state)
              THEN <<String(context.from_state[1])>> ELSE <<>>)
    [] root \in {"to_state", "state"} -> Ok(<<String(context.to_state)>>)
    [] root = "args" -> Ok(<<Object(context.args)>>)
    [] root = "fields" -> Ok(<<Object(context.new_fields)>>)
    [] root = "old_fields" -> Ok(<<Object(context.old_fields)>>)
    [] OTHER -> Err("UnknownTemplate")

(* The errors of resolving the parts of an array or an object. *)
Errors(results) == {results[k] : k \in {j \in DOMAIN results : IsErr(results[j])}}

(* An array or an object put together again, or the error of a part. *)
Composite(kind, parts) ==
  IF Errors(parts) # {} THEN CHOOSE e \in Errors(parts) : TRUE
  ELSE Ok(<<kind, [k \in DOMAIN parts |-> parts[k][2]]>>)

Resolved(found) ==
  IF IsErr(found) THEN found
  ELSE IF found[2] = <<>> THEN Err("MissingReference")
  ELSE Ok(found[2][1])

(* resolve_template: every reference must resolve. *)
RECURSIVE resolve_template(_, _)
resolve_template(value, context) ==
  CASE Is("escaped", value) -> Ok(String("$" \o value[2]))
    [] Is("ref", value) ->
         Resolved(resolve_expression_optional(value, context, EmptyMap))
    [] value[1] \in {"arr", "obj"} ->
         Composite(value[1], [k \in DOMAIN value[2] |->
                                resolve_template(value[2][k], context)])
    [] OTHER -> Ok(value)

(* resolve_operand: a reference that resolves to nothing, or to null, is   *)
(* unobserved, and so is every composite that holds one.                   *)
Unobserved(found) ==
  IF ~IsErr(found) /\ found[2] = <<Null>> THEN Ok(<<>>) ELSE found

ObservedComposite(kind, parts) ==
  IF Errors(parts) # {} THEN CHOOSE e \in Errors(parts) : TRUE
  ELSE IF \E k \in DOMAIN parts : parts[k][2] = <<>> THEN Ok(<<>>)
  ELSE Ok(<< <<kind, [k \in DOMAIN parts |-> parts[k][2][1]]>> >>)

RECURSIVE resolve_operand(_, _, _)
resolve_operand(value, context, bindings) ==
  CASE Is("escaped", value) -> Ok(<<String("$" \o value[2])>>)
    [] Is("ref", value) ->
         Unobserved(resolve_expression_optional(value, context, bindings))
    [] value[1] \in {"arr", "obj"} ->
         ObservedComposite(value[1],
           [k \in DOMAIN value[2] |->
              resolve_operand(value[2][k], context, bindings)])
    [] OTHER -> Ok(<<value>>)

-----------------------------------------------------------------------------

(* element_of, field_at, collection_element: the declaration of the        *)
(* elements a quantifier walks; None where nothing declares them, Err when *)
(* the reference is no collection.  binder maps the bound names to the     *)
(* declarations of their elements.                                         *)
element_of(field) ==
  CASE field = <<>> -> Ok(<<>>)
    [] field[1].kind \in {"array", "map"} -> Ok(field[1].items)
    [] OTHER -> Err("NotCollection")

RECURSIVE field_at(_, _)
field_at(field, path) ==
  LET further(next) ==
        IF Tail(path) = <<>> THEN Ok(<<next>>) ELSE field_at(next, Tail(path)) IN
  CASE field.kind \in {"json", "union"} -> Ok(<<>>)
    [] field.kind = "object" /\ Head(path) \in DOMAIN field.properties ->
         further(field.properties[Head(path)])
    [] field.kind = "object" /\ field.additional_properties -> Ok(<<>>)
    [] field.kind = "array" /\ is_ordinal(Head(path)) ->
         IF IsSome(field.items) THEN further(field.items[1]) ELSE Ok(<<>>)
    [] OTHER -> Err("NotCollection")

Then_element_of(found) == IF IsErr(found) THEN found ELSE element_of(found[2])

collection_element(over, fields, args, binder) ==
  IF ~Is("ref", over) THEN Err("NotCollection")
  ELSE
    LET root == over[2]
        path == over[3]
        schema == IF root = "args" THEN args ELSE <<fields>> IN
    CASE root \in DOMAIN binder ->
           IF binder[root] = <<>> \/ path = <<>> THEN Ok(<<>>)
           ELSE Then_element_of(field_at(binder[root][1], path))
      [] root \notin {"fields", "old_fields", "args"} \/ path = <<>>
           \/ schema = <<>> -> Err("NotCollection")
      [] Head(path) \notin DOMAIN schema[1].fields ->
           IF schema[1].additional_fields THEN Ok(<<>>) ELSE Err("NotCollection")
      [] Tail(path) = <<>> -> element_of(<<schema[1].fields[Head(path)]>>)
      [] OTHER ->
           Then_element_of(field_at(schema[1].fields[Head(path)], Tail(path)))

element_declaration(over, context, bindings) ==
  LET known(found) == IF IsErr(found) THEN <<>> ELSE found[2] IN
  known(collection_element(over, context.definition.schema,
                           context.arguments_schema,
                           [n \in DOMAIN bindings |-> bindings[n].declared]))

-----------------------------------------------------------------------------

(* scale_compare: the order of two texts on the declared scales; None when *)
(* no scale holds both, or when two scales disagree.                       *)
scale_compare(scales, left, right) ==
  LET position(s, text) == CHOOSE i \in DOMAIN s : s[i] = text /\
                             \A j \in 1 .. i - 1 : s[j] # text
      holding == {n \in DOMAIN scales :
                    \A text \in {left, right} :
                      \E i \in DOMAIN scales[n] : scales[n][i] = text}
      single(orders) == IF Cardinality(orders) = 1 THEN orders ELSE {} IN
  single({Order(position(scales[n], left), position(scales[n], right)) :
            n \in holding})

(* equal_under: the semantics of the definition decides what is equal. *)
equal_under(context, left, left_written, right, right_written) ==
  IF Service(context)
    THEN observed_values_equal(left, left_written, right, right_written)
    ELSE values_equal(left, right)

StartsWith(text, prefix) ==
  Len(prefix) <= Len(text) /\ SubSeq(text, 1, Len(prefix)) = prefix
EndsWith(text, suffix) ==
  /\ Len(suffix) <= Len(text)
  /\ SubSeq(text, Len(text) - Len(suffix) + 1, Len(text)) = suffix
HasInfix(text, infix) ==
  \E i \in 0 .. Len(text) - Len(infix) :
    SubSeq(text, i + 1, i + Len(infix)) = infix

(* evaluate_compare, over two observed operands: anything the two cannot   *)
(* be ordered or equated by is unknown, and scalars of two kinds are just  *)
(* not equal.                                                              *)
evaluate_compare(context, left, op, right, left_written, right_written) ==
  LET ordering == op \in {"lt", "lte", "gt", "gte"}
      ordered(l, r) ==
        IF IsSome(l) /\ IsSome(r)
          THEN Truth(accepts(op, Order(l[1], r[1]))) ELSE "unknown"
      scaled(order) ==
        IF order = {} THEN "unknown" ELSE Truth(\A o \in order : accepts(op, o)) IN
  CASE Is("num", left) /\ Is("num", right) ->
         ordered(observe(left, <<left_written>>), observe(right, <<right_written>>))
    [] Is("str", left) /\ Is("str", right) /\ ordering ->
         scaled(scale_compare(context.definition.scales, left[2], right[2]))
    [] left[1] = right[1] /\ left[1] \in {"str", "bool"} /\ ~ordering ->
         Truth(accepts(op, IF left = right THEN "eq" ELSE "lt"))
    [] ~is_scalar(left) \/ ~is_scalar(right) \/ ordering -> "unknown"
    [] OTHER -> Truth(op = "ne")

truthy(value) ==
  CASE Is("bool", value) -> Truth(value[2])
    [] Is("num", value)  ->
         LET nonzero(observed) ==
               IF observed = <<>> THEN "unknown" ELSE Truth(observed[1] # 0)
         IN nonzero(of_number(value))
    [] Is("str", value)  -> Truth(value[2] \notin {"", "false"})
    [] OTHER -> "unknown"

(* compare_instants: unknown unless both are instants the kernel reads. *)
compare_instants(op, left, right) ==
  LET ordered(l, r) ==
        IF l = <<>> \/ r = <<>> THEN "unknown"
        ELSE Truth(IF op = "before" THEN l[1] < r[1] ELSE l[1] > r[1])
  IN ordered(instant(left), instant(right))

(* compare_numbers: the exact order, under every semantics; values that    *)
(* are no numbers are just not in it.                                      *)
compare_numbers(op, left, right) ==
  Truth(Is("num", left) /\ Is("num", right) /\ accepts(op, compare(left, right)))

ElementEqual(context, array, written, needle, needle_written) ==
  \E i \in DOMAIN array[2] :
    equal_under(context, array[2][i], written_element(<<written>>, i),
                needle, <<needle_written>>)

contains(context, left, right, left_written, right_written) ==
  CASE Is("arr", left) ->
         ElementEqual(context, left, left_written, right, right_written)
    [] Is("str", left) /\ Is("str", right) -> HasInfix(left[2], right[2])
    [] Is("obj", left) /\ Is("str", right) -> right[2] \in DOMAIN left[2]
    [] OTHER -> FALSE

(* The operators over two observed operands; lw and rw are the operands as *)
(* the condition writes them.                                              *)
EvaluatePair(context, op, left, right, lw, rw) ==
  CASE op \in {"eq", "ne"} ->
         Truth((op = "eq") <=> equal_under(context, left, <<lw>>, right, <<rw>>))
    [] op \in {"gt", "gte", "lt", "lte"} -> compare_numbers(op, left, right)
    [] op \in {"before", "after"} -> compare_instants(op, left, right)
    [] op = "in" ->
         Truth(Is("arr", right) /\ ElementEqual(context, right, rw, left, lw))
    [] op = "contains" -> Truth(contains(context, left, right, lw, rw))
    [] op = "starts_with" ->
         Truth(Is("str", left) /\ Is("str", right) /\ StartsWith(left[2], right[2]))
    [] op = "ends_with" ->
         Truth(Is("str", left) /\ Is("str", right) /\ EndsWith(left[2], right[2]))

(* The operands of a condition that has no conditions below it. *)
Operands(condition) ==
  CASE condition[1] = "literal" -> <<>>
    [] condition[1] \in {"exists", "truthy"} -> <<condition[2]>>
    [] condition[1] = "compare" -> <<condition[2], condition[4]>>
    [] OTHER -> condition[2]

EvaluateRead(condition, context, written, read) ==
  LET op == condition[1]
      failed == {i \in DOMAIN read : IsErr(read[i])} IN
  CASE op = "literal" -> Truth(condition[2])
    [] failed # {} -> read[CHOOSE i \in failed : \A j \in failed : i <= j][2]
    [] op = "exists" -> Truth(IsSome(read[1][2]))
    [] \E i \in DOMAIN read : read[i][2] = <<>> -> "unknown"
    [] op = "truthy" -> truthy(read[1][2][1])
    [] op = "compare" ->
         evaluate_compare(context, read[1][2][1], condition[3], read[2][2][1],
                          written[1], written[2])
    [] OTHER ->
         EvaluatePair(context, op, read[1][2][1], read[2][2][1],
                      written[1], written[2])

EvaluateLeaf(condition, context, bindings) ==
  EvaluateRead(condition, context, Operands(condition),
    [i \in DOMAIN Operands(condition) |->
       resolve_operand(Operands(condition)[i], context, bindings)])

(* The elements of a collection a quantifier walks, in order; None when    *)
(* the value is no collection.                                             *)
Elements(value) ==
  CASE Is("arr", value) -> <<value[2]>>
    [] Is("obj", value) ->
         LET keys == SX!SetToSeq(DOMAIN value[2]) IN
         <<[i \in DOMAIN keys |-> value[2][keys[i]]]>>
    [] OTHER -> <<>>

(* An error, or the elements a resolved operand offers, if it is observed. *)
Walked(over) ==
  IF IsErr(over) \/ over[2] = <<>> THEN over ELSE Ok(Elements(over[2][1]))

Bind(bindings, name, value, declared) ==
  (name :> [value |-> value, declared |-> declared]) @@ bindings

(* quantify stops at the first element that settles the answer, so an      *)
(* error a later element would meet is not met.                            *)
Settled(op, truths) ==
  LET settling == IF op = "for_all" THEN "false" ELSE "true"
      upto(stops) ==
        IF stops = {} THEN truths
        ELSE SubSeq(truths, 1, CHOOSE i \in stops : \A j \in stops : i <= j) IN
  upto({i \in DOMAIN truths : truths[i] \in {settling} \cup TruthErrors})

Combined(op, truths) ==
  IF op \in {"all", "for_all"} THEN TruthAnd(truths) ELSE TruthOr(truths)

RECURSIVE evaluate_condition(_, _, _)
evaluate_condition(condition, context, bindings) ==
  LET op == condition[1] IN
  CASE op \in {"all", "any"} ->
         Combined(op, [i \in DOMAIN condition[2] |->
                         evaluate_condition(condition[2][i], context, bindings)])
    [] op = "not" -> TruthNot(evaluate_condition(condition[2], context, bindings))
    [] op \in {"for_all", "for_any"} ->
         LET truths(elements, declared) ==
               [i \in DOMAIN elements |->
                  evaluate_condition(condition[4], context,
                    Bind(bindings, condition[3], elements[i], declared))]
             quantify(walked) ==
               IF IsErr(walked) THEN walked[2]
               ELSE IF walked[2] = <<>> THEN "unknown"
               ELSE Combined(op, Settled(op, truths(walked[2][1],
                      element_declaration(condition[2], context, bindings)))) IN
         quantify(Walked(resolve_operand(condition[2], context, bindings)))
    [] OTHER -> EvaluateLeaf(condition, context, bindings)

-----------------------------------------------------------------------------

(* value_needs_subject: it reads the fields or the state of the subject,   *)
(* and no quantifier has bound that name.                                  *)
value_needs_subject_State(value, bindings) ==
  Is("ref", value) /\ value[2] \notin DOMAIN bindings /\ value[2] = "from_state"

RECURSIVE value_needs_subject(_, _)
value_needs_subject(value, bindings) ==
  CASE Is("ref", value) ->
         /\ value[2] \notin DOMAIN bindings
         /\ value[2] \in {"fields", "old_fields", "from_state"}
    [] value[1] \in {"arr", "obj"} ->
         \E k \in DOMAIN value[2] : value_needs_subject(value[2][k], bindings)
    [] OTHER -> FALSE

condition_needs_subject(condition, bindings) ==
  \E i \in DOMAIN Operands(condition) :
    value_needs_subject(Operands(condition)[i], bindings)

(* evaluate_condition_before_load: what can be settled from the arguments  *)
(* alone; "needs" otherwise.                                               *)
RECURSIVE evaluate_condition_before_load(_, _, _)
evaluate_condition_before_load(condition, context, bindings) ==
  LET op == condition[1]
      below(child, inner) == evaluate_condition_before_load(child, context, inner)
  IN
  CASE op \in {"all", "any"} ->
         Combined(op, [i \in DOMAIN condition[2] |-> below(condition[2][i], bindings)])
    [] op = "not" -> TruthNot(below(condition[2], bindings))
    [] op \in {"for_all", "for_any"} ->
         LET truths(elements, declared) ==
               [i \in DOMAIN elements |->
                  below(condition[4],
                        Bind(bindings, condition[3], elements[i], declared))]
             quantify(walked) ==
               IF IsErr(walked) THEN walked[2]
               ELSE IF walked[2] = <<>> THEN "unknown"
               ELSE Combined(op, truths(walked[2][1],
                      element_declaration(condition[2], context, bindings))) IN
         IF value_needs_subject(condition[2], bindings) THEN "needs"
         ELSE quantify(Walked(resolve_operand(condition[2], context, bindings)))
    [] condition_needs_subject(condition, bindings) -> "needs"
    [] OTHER -> evaluate_condition(condition, context, bindings)
=============================================================================
