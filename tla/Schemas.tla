------------------------------ MODULE Schemas -------------------------------
(***************************************************************************)
(* Schemas (crates/entity-core/src/definition.rs, validation.rs): what a   *)
(* field declares, the defaults a document is given, and whether a value   *)
(* satisfies its declaration under a semantics.  A validation reports a    *)
(* list of findings; what a command can tell apart is whether it is empty. *)
(***************************************************************************)
EXTENDS Values

CONSTANT KeyKinds   \* text |-> the map key kinds, timestamp apart, it spells

(* Semantics: kernel/1 and the service versions, each adding to the last. *)
Semantics == {"kernel/1", "service/1", "service/2", "service/3"}
has_service_semantics(semantics) == semantics # "kernel/1"
has_conditional_presence(semantics) == semantics \in {"service/2", "service/3"}
has_operation_fulfillment(semantics) == semantics = "service/3"

(* FieldKind *)
FieldKinds == {"string", "integer", "number", "boolean", "enum", "array",
               "object", "json", "ref", "map", "union", "binary64"}
is_service_only(kind) == kind \in {"map", "union", "binary64"}
is_numeric(kind) == kind \in {"integer", "number", "binary64"}

(* FieldDefinition, with every key but the kind left out. *)
FieldOf(kind) ==
  [kind |-> kind, required |-> FALSE, default |-> <<>>,
   min_length |-> <<>>, max_length |-> <<>>, alphabet |-> <<>>,
   min |-> <<>>, max |-> <<>>, values |-> {}, items |-> <<>>,
   properties |-> EmptyMap, additional_properties |-> FALSE,
   entity |-> <<>>, inverse |-> <<>>, acyclic |-> <<>>,
   key |-> <<>>, tag |-> <<>>, variants |-> EmptyMap]

(* ObjectSchema *)
SchemaOf(fields) == [fields |-> fields, additional_fields |-> FALSE]
is_empty(schema) == DOMAIN schema.fields = {} /\ ~schema.additional_fields

Blank(text) == text \in {"", " "}

Chars(text) == {SubSeq(text, i, i) : i \in 1 .. Len(text)}

-----------------------------------------------------------------------------

(* apply_member_defaults and apply_nested_defaults: an absent field takes  *)
(* its default, and then the members of objects and of the objects in      *)
(* arrays take theirs.  Maps and unions are left as they are.              *)
RECURSIVE apply_member_defaults(_, _), apply_nested_defaults(_, _)
apply_member_defaults(fields, object) ==
  LET given == {n \in DOMAIN fields : IsSome(fields[n].default)}
      held(n) == IF n \in DOMAIN object THEN object[n] ELSE fields[n].default[1]
  IN [n \in DOMAIN object \cup given |->
        IF n \in DOMAIN fields THEN apply_nested_defaults(fields[n], held(n))
        ELSE object[n]]

apply_nested_defaults(field, value) ==
  CASE field.kind = "object" /\ Is("obj", value) ->
         Object(apply_member_defaults(field.properties, value[2]))
    [] field.kind = "array" /\ IsSome(field.items) /\ Is("arr", value) ->
         Array([i \in DOMAIN value[2] |->
                  apply_nested_defaults(field.items[1], value[2][i])])
    [] OTHER -> value

apply_defaults(schema, object) == apply_member_defaults(schema.fields, object)

-----------------------------------------------------------------------------

validate_string(field, text) ==
  /\ IsSome(field.min_length) => Len(text) >= field.min_length[1]
  /\ IsSome(field.max_length) => Len(text) <= field.max_length[1]
  /\ IsSome(field.alphabet) => Chars(text) \subseteq Chars(field.alphabet[1])

(* validate_number: the service compares what it observes with the bound   *)
(* as a literal; kernel/1 compares the tokens exactly.                     *)
Observes(observed, op, limit) ==
  IsSome(limit) /\ accepts(op, Order(observed[1], limit[1]))

validate_number(field, number, semantics) ==
  LET observed_within(observed) ==
        /\ IsSome(observed)
        /\ \A bound \in {<<field.min, "gte">>, <<field.max, "lte">>} :
             IsSome(bound[1]) =>
               Observes(observed, bound[2], of_literal(bound[1][1])) IN
  IF has_service_semantics(semantics)
    THEN observed_within(of_number(number))
  ELSE
    /\ IsSome(field.min) => compare(number, field.min[1]) # "lt"
    /\ IsSome(field.max) => compare(number, field.max[1]) # "gt"

(* The integer range: signed 64 bits in the service, and everything that   *)
(* 64 bits can hold, signed or not, in kernel/1.                           *)
IntegerToken(value, semantics) ==
  /\ Is("num", value)
  /\ \/ IsSome(as_i64(value))
     \/ ~has_service_semantics(semantics) /\ IsSome(as_u64(value))

validate_map_key(key, text) ==
  CASE key = "string"    -> TRUE
    [] key = "timestamp" -> IsSome(parse(text))
    [] OTHER             -> text \in DOMAIN KeyKinds /\ key \in KeyKinds[text]

content_key(field) ==
  IF field.tag = <<"value">> THEN "content" ELSE "value"

RECURSIVE validate_value(_, _, _), validate_members(_, _, _, _)
validate_members(fields, additional, object, semantics) ==
  /\ \A n \in DOMAIN fields :
       IF n \in DOMAIN object THEN validate_value(fields[n], object[n], semantics)
       ELSE ~fields[n].required
  /\ additional \/ DOMAIN object \subseteq DOMAIN fields

validate_map(field, members, semantics) ==
  \A k \in DOMAIN members :
    /\ validate_map_key(IF IsSome(field.key) THEN field.key[1] ELSE "string", k)
    /\ IsSome(field.items) =>
         validate_value(field.items[1], members[k], semantics)

(* validate_union: the label under the tag selects a variant, whose        *)
(* payload is under the content key and may be absent unless required; no  *)
(* third member is admitted.                                               *)
validate_union(field, members, semantics) ==
  LET tag == IF IsSome(field.tag) THEN field.tag[1] ELSE "kind"
      content == content_key(field) IN
  /\ tag \in DOMAIN members
  /\ Is("str", members[tag])
  /\ members[tag][2] \in DOMAIN field.variants
  /\ DOMAIN members \subseteq {tag, content}
  /\ LET variant == field.variants[members[tag][2]] IN
     IF content \in DOMAIN members
       THEN validate_value(variant, members[content], semantics)
       ELSE ~variant.required

validate_value(field, value, semantics) ==
  CASE field.kind = "string"  -> Is("str", value) /\ validate_string(field, value[2])
    [] field.kind = "integer" ->
         IntegerToken(value, semantics) /\ validate_number(field, value, semantics)
    [] field.kind \in {"number", "binary64"} ->
         Is("num", value) /\ validate_number(field, value, semantics)
    [] field.kind = "map"     ->
         Is("obj", value) /\ validate_map(field, value[2], semantics)
    [] field.kind = "union"   ->
         Is("obj", value) /\ validate_union(field, value[2], semantics)
    [] field.kind = "boolean" -> Is("bool", value)
    [] field.kind = "enum"    -> Is("str", value) /\ value[2] \in field.values
    [] field.kind = "array"   ->
         /\ Is("arr", value)
         /\ IsSome(field.items) =>
              \A i \in DOMAIN value[2] :
                validate_value(field.items[1], value[2][i], semantics)
    [] field.kind = "object"  ->
         /\ Is("obj", value)
         /\ validate_members(field.properties, field.additional_properties,
                             value[2], semantics)
    [] field.kind = "json"    -> TRUE
    [] field.kind = "ref"     -> Is("str", value) /\ ~Blank(value[2])

(* validate_object_under: no finding against the schema. *)
validate_object_under(schema, object, semantics) ==
  validate_members(schema.fields, schema.additional_fields, object, semantics)

(* validate_object: the kernel/1 reading, whatever the definition's own. *)
validate_object(schema, object) ==
  validate_object_under(schema, object, "kernel/1")

-----------------------------------------------------------------------------

(* validate_constraint_applicability: a constraint is declared only on a   *)
(* kind that checks it.                                                    *)
validate_constraint_applicability(field) ==
  /\ IsSome(field.min_length) \/ IsSome(field.max_length) \/ IsSome(field.alphabet)
       => field.kind = "string"
  /\ IsSome(field.min) \/ IsSome(field.max) => is_numeric(field.kind)
  /\ field.values # {} => field.kind = "enum"
  /\ IsSome(field.items) => field.kind \in {"array", "map"}
  /\ DOMAIN field.properties # {} \/ field.additional_properties
       => field.kind = "object"
  /\ IsSome(field.entity) \/ IsSome(field.inverse) \/ IsSome(field.acyclic)
       => field.kind = "ref"
  /\ IsSome(field.key) => field.kind = "map"
  /\ IsSome(field.tag) \/ DOMAIN field.variants # {} => field.kind = "union"

(* validate_alphabet: some character, and none written twice. *)
validate_alphabet(alphabet) ==
  alphabet # "" /\ Cardinality(Chars(alphabet)) = Len(alphabet)

(* What each kind must declare. *)
KindIsWhole(field) ==
  CASE field.kind = "enum"  -> field.values # {}
    [] field.kind = "array" -> IsSome(field.items)
    [] field.kind = "ref"   ->
         /\ IsSome(field.entity) /\ ~Blank(field.entity[1])
         /\ IsSome(field.inverse) => ~Blank(field.inverse[1])
    [] field.kind = "map"   -> IsSome(field.key) /\ IsSome(field.items)
    [] field.kind = "union" ->
         IsSome(field.tag) /\ ~Blank(field.tag[1]) /\ DOMAIN field.variants # {}
    [] OTHER -> TRUE

(* A bound that cannot be observed would refuse every value. *)
BoundsObservable(field, semantics) ==
  has_service_semantics(semantics) /\ is_numeric(field.kind) =>
    /\ IsSome(field.min) => IsSome(of_literal(field.min[1]))
    /\ IsSome(field.max) => IsSome(of_literal(field.max[1]))

(* validate_field_definition, at every depth; a default must satisfy the   *)
(* declaration it belongs to, nested defaults applied.                     *)
RECURSIVE validate_field_definition(_, _)
validate_field_definition(field, semantics) ==
  /\ validate_constraint_applicability(field)
  /\ is_service_only(field.kind) \/ IsSome(field.alphabet)
       => has_service_semantics(semantics)
  /\ IsSome(field.min_length) /\ IsSome(field.max_length)
       => field.min_length[1] <= field.max_length[1]
  /\ IsSome(field.alphabet) => validate_alphabet(field.alphabet[1])
  /\ IsSome(field.min) /\ IsSome(field.max)
       => compare(field.min[1], field.max[1]) # "gt"
  /\ BoundsObservable(field, semantics)
  /\ KindIsWhole(field)
  /\ IsSome(field.items) => validate_field_definition(field.items[1], semantics)
  /\ \A n \in DOMAIN field.properties :
       validate_field_definition(field.properties[n], semantics)
  /\ \A n \in DOMAIN field.variants :
       validate_field_definition(field.variants[n], semantics)
  /\ IsSome(field.default) =>
       validate_value(field, apply_nested_defaults(field, field.default[1]),
                      semantics)
=============================================================================
