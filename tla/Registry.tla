------------------------------ MODULE Registry ------------------------------
(***************************************************************************)
(* The registry (crates/entity-core/src/registry.rs): validated            *)
(* definitions keyed by entity and version, and validate_all, the check of *)
(* the whole set: every relation reaches a registered target, is carried   *)
(* by a field of the right shape, and shares neither its carrier nor, when *)
(* it owns, its target with another.  Here a registry is the set of its    *)
(* definitions.                                                            *)
(***************************************************************************)
EXTENDS Definitions

Key(definition) == <<definition.entity, definition.version>>

(* Registry::get, as the set of at most one definition. *)
get(registry, entity, version) ==
  {d \in registry : Key(d) = <<entity, version>>}

(* Registry::latest: the highest version of an entity. *)
latest(registry, entity) ==
  {d \in registry : /\ d.entity = entity
                    /\ \A e \in registry : e.entity = entity =>
                                             e.version <= d.version}

(* ValidatedDefinition::new: the only way into a registry. *)
Validated(definitions) == {d \in definitions : validate_definition(d)}

(* Registry::register refuses a key that is taken. *)
CanRegister(registry, definition) ==
  get(registry, definition.entity, definition.version) = {}

-----------------------------------------------------------------------------

(* relation_targets: the entities the ref fields of a schema name, at any  *)
(* depth of items and properties.                                          *)
RECURSIVE collect_field_targets(_)
collect_field_targets(field) ==
  (IF field.kind = "ref" THEN Elem(field.entity) ELSE {})
    \cup UNION {collect_field_targets(items) : items \in Elem(field.items)}
    \cup UNION {collect_field_targets(field.properties[n]) :
                  n \in DOMAIN field.properties}

collect_targets(schema) ==
  UNION {collect_field_targets(schema.fields[n]) : n \in DOMAIN schema.fields}

relation_targets(definition) ==
  collect_targets(definition.schema)
    \cup UNION {collect_targets(definition.operations[n].arguments) :
                  n \in DOMAIN definition.operations}

(* same_carried_kind: one kind, and for arrays one kind of element. *)
RECURSIVE same_carried_kind(_, _)
same_carried_kind(carrier, identity) ==
  /\ carrier.kind = identity.kind
  /\ carrier.kind = "array" =>
       /\ IsSome(carrier.items) /\ IsSome(identity.items)
       /\ same_carried_kind(carrier.items[1], identity.items[1])

IdentityField(definition) ==
  {definition.schema.fields[n] :
     n \in Elem(definition.identity) \cap DOMAIN definition.schema.fields}

(* references_carrier_defects: none, for a relation carried by a field of  *)
(* the declaring entity.                                                   *)
ReferenceIsCarried(definition, target, relation) ==
  relation.via \in DOMAIN definition.schema.fields =>
    LET field == definition.schema.fields[relation.via] IN
    \A expected \in IdentityField(target) :
      IF relation.cardinality = "one" THEN same_carried_kind(field, expected)
      ELSE field.kind = "array" =>
             /\ IsSome(field.items)
             /\ same_carried_kind(field.items[1], expected)

(* An owned entity carries its owner's identity in a required field.       *)
OwnerIsCarried(definition, target, relation) ==
  /\ relation.via \in DOMAIN target.schema.fields
  /\ LET field == target.schema.fields[relation.via] IN
     /\ field.required
     /\ IF IdentityField(definition) = {} THEN field.kind # "array"
        ELSE \A declared \in IdentityField(definition) :
               same_carried_kind(field, declared)

-----------------------------------------------------------------------------

(* Every declared relation, with the definition that declares it. *)
DeclaredRelations(registry) ==
  UNION {{<<d, n>> : n \in DOMAIN d.relations} : d \in registry}

Relation(declared) == declared[1].relations[declared[2]]

(* claim: the entity and field that carry a relation. *)
Claim(declared) ==
  <<IF Relation(declared).kind = "references"
      THEN declared[1].entity ELSE Relation(declared).target,
    Relation(declared).via>>

(* declared_relation_defects: none. *)
RelationsHold(registry) ==
  \A r \in DeclaredRelations(registry) :
    \E target \in latest(registry, Relation(r).target) :
      /\ IF Relation(r).kind = "references"
           THEN ReferenceIsCarried(r[1], target, Relation(r))
           ELSE OwnerIsCarried(r[1], target, Relation(r))
      /\ \A other \in DeclaredRelations(registry) \ {r} :
           /\ Claim(other) # Claim(r)
           /\ Relation(other).kind = "owns" /\ Relation(r).kind = "owns"
                => Relation(other).target # Relation(r).target

validate_all(registry) ==
  /\ \A d \in registry :
       relation_targets(d) \subseteq {e.entity : e \in registry}
  /\ RelationsHold(registry)
=============================================================================
