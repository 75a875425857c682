-------------------------- MODULE MCEntityRuntime ---------------------------
(***************************************************************************)
(* Small definitions for EntityRuntime: one of each semantics, two of them *)
(* under one key, and defective ones that registration must refuse.        *)
(***************************************************************************)
EXTENDS EntityRuntime

MCInstants == ("d1" :> 1) @@ ("d1z" :> 1) @@ ("d2" :> 2)
MCKeyKinds == ("7" :> {"integer", "string"}) @@ ("true" :> {"boolean"})

Required(kind) == [FieldOf(kind) EXCEPT !.required = TRUE]
Defaulted(kind, value) == [Required(kind) EXCEPT !.default = <<value>>]
Args(name) == Ref("args", <<name>>)
Field(name) == Ref("fields", <<name>>)
Case(definition, ids, inputs, arguments) ==
  [definition |-> definition, ids |-> ids, inputs |-> inputs, arguments |-> arguments,
   actions |-> {}, imports |-> {}]
AllOf(conditions) == <<"all", conditions>>
AnyOf(conditions) == <<"any", conditions>>
Not(condition) == <<"not", condition>>
Exists(value) == <<"exists", value>>
Pair(left, op, right) == <<op, <<left, right>>>>
Compare(left, op, right) == <<"compare", left, op, right>>
Quantify(op, over, bind, body) == <<op, over, bind, body>>
Stay(state) == <<TransitionOf(<<state>>, state)>>

-----------------------------------------------------------------------------

(* kernel/1: defaults, increments, a cleared field, a silent operation,    *)
(* two events of one decision, preconditions and an invariant.             *)
TicketFields ==
  [title |-> [Required("string") EXCEPT !.min_length = <<1>>],
   count |-> Defaulted("integer", Whole(0)),
   weight |-> Defaulted("number", Whole(1)),
   note |-> FieldOf("string")]

Bump ==
  [OperationOf(SchemaOf([by |-> Defaulted("integer", Whole(1))]), Stay("open"))
   EXCEPT !.preconditions = <<RuleOf(Pair(Args("by"), "gt", Whole(0)))>>,
          !.set = [count |-> Object([increment |-> Args("by")])],
          !.emits = <<EventOf("bumped", Object([was |-> Ref("old_fields", <<"count">>),
                                                now |-> Field("count")]))>>]
Annotate ==
  [OperationOf(SchemaOf([note |-> FieldOf("string")]), Stay("open"))
   EXCEPT !.set = [note |-> Args("note")],
          !.emits = <<EventOf("noted", Object([by |-> Ref("id", <<>>)])),
                      EventOf("audited", Field("note"))>>]
Weigh ==
  [OperationOf(SchemaOf([weight |-> Required("number")]), Stay("open"))
   EXCEPT !.set = [weight |-> Args("weight")],
          !.emits = <<EventOf("weighed", Escaped("weight"))>>]
Touch ==
  [OperationOf(SchemaOf(EmptyMap), Stay("open"))
   EXCEPT !.set = [weight |-> Object([increment |-> Dec(1)])]]
Close ==
  [OperationOf(SchemaOf(EmptyMap), <<TransitionOf(<<"open">>, "closed")>>)
   EXCEPT !.set = [note |-> Object([cleared |-> Bool(TRUE)])],
          !.emits = <<EventOf("closed", Ref("to_state", <<>>))>>]

Ticket ==
  [EntityOf("ticket", "kernel/1", TicketFields, <<"open", "closed">>)
   EXCEPT !.create = CreateOf(<<EventOf("opened", Object([title |-> Field("title")]))>>),
          !.invariants =
            <<RuleOf(AnyOf(<<Not(Exists(Field("note"))),
                           Pair(Field("note"), "ne", Field("title"))>>))>>,
          !.operations = [bump |-> Bump, annotate |-> Annotate, weigh |-> Weigh,
                          touch |-> Touch, close |-> Close]]

(* The same entity and version, as a later edit of it might replace it. *)
Ticket2 ==
  [Ticket EXCEPT !.schema.fields.count.max = <<Whole(1)>>,
                 !.operations.close.set = EmptyMap,
                 !.operations.close.emits = <<>>]

TicketInputs ==
  {[title |-> String("a")], [title |-> String("")],
   [title |-> String("b"), count |-> Whole(14), note |-> String("b")],
   [title |-> String("a"), count |-> Whole(14), weight |-> Whole(16)]}
TicketArguments ==
  [bump |-> {EmptyMap, [by |-> Whole(0)]},
   annotate |-> {EmptyMap, [note |-> String("a")], [note |-> String("b")]},
   weigh |-> {[weight |-> Whole(1)], [weight |-> Dec(4)]},
   touch |-> {EmptyMap}, close |-> {EmptyMap}, reopen |-> {EmptyMap}]
TicketImports ==
  {[entity |-> "ticket", version |-> 1, id |-> "x", lifecycle_state |-> state,
    revision |-> I64Max - 1, fields |-> [title |-> String("a"), count |-> Whole(1)]] :
     state \in {"open", "lost"}}

-----------------------------------------------------------------------------

(* service/1: outcomes, quantifiers, scales, a map, a union, observed      *)
(* numbers, instants, and an identity the address is derived from.         *)
OrderFields ==
  [code |-> Required("string"),
   level |-> [Required("enum") EXCEPT !.values = {"low", "high"}],
   lines |-> [Required("array") EXCEPT
                !.items = <<[FieldOf("object") EXCEPT
                              !.properties = [qty |-> Required("integer")]]>>],
   rates |-> [FieldOf("map") EXCEPT !.key = <<"integer">>,
                                    !.items = <<FieldOf("binary64")>>],
   pay |-> [FieldOf("union") EXCEPT !.tag = <<"kind">>,
              !.variants = [card |-> Required("string"), cash |-> FieldOf("boolean")]],
   due |-> FieldOf("string")]

OrderCreate ==
  [CreateOf(<<>>) EXCEPT
     !.arguments = SchemaOf([code |-> Required("string"), due |-> FieldOf("string"),
                             qty |-> Defaulted("integer", Whole(1))]),
     !.response = SchemaOf([code |-> Required("string")]),
     !.outcomes =
       <<[OutcomeOf("late") EXCEPT
            !.when = <<AllOf(<<Exists(Args("due")),
                            Pair(Args("due"), "before", String("d2"))>>)>>,
            !.refuses = <<"late">>],
         [OutcomeOf("placed") EXCEPT
            !.effect = <<"creates">>,
            !.set = [code |-> Args("code"), level |-> String("low"),
                     lines |-> Array(<<Object([qty |-> Args("qty")])>>),
                     rates |-> Object([x \in {"7"} |-> Dec(5)]),
                     pay |-> Object([kind |-> String("card"), value |-> String("v")])],
            !.emits = <<EventOf("placed", Ref("fields", <<"lines", "count">>))>>,
            !.responds = [code |-> Field("code")]]>>]

Approve ==
  [OperationOf(SchemaOf([picks |-> [Required("array") EXCEPT
                                      !.items = <<FieldOf("integer")>>],
                         limit |-> FieldOf("number")]), <<>>)
   EXCEPT !.outcomes =
     <<[OutcomeOf("over") EXCEPT
          !.when = <<Quantify("for_any", Args("picks"), "p",
                             Compare(Ref("p", <<>>), "gt", Args("limit")))>>,
          !.refuses = <<"over">>],
       [OutcomeOf("raise") EXCEPT
          !.when = <<AllOf(<<Compare(Field("level"), "lt", String("high")),
                            Quantify("for_all", Field("lines"), "l",
                                     Pair(Ref("l", <<"qty">>), "gte", Whole(1)))>>)>>,
          !.effect = <<"updates">>,
          !.set = [level |-> String("high")]],
       [OutcomeOf("approve") EXCEPT
          !.effect = <<"moves", "approved", <<"open">>>>,
          !.emits = <<EventOf("approved", Ref("fields", <<"pay", "value">>))>>,
          !.responds = [code |-> Ref("id", <<>>)]],
       [OutcomeOf("already") EXCEPT !.wrong_state = TRUE, !.refuses = <<"already">>]>>,
          !.response = SchemaOf([code |-> FieldOf("string")])]

PlacedOrder ==
  [EntityOf("order", "service/1", OrderFields, <<"open", "approved">>)
   EXCEPT !.identity = <<"code">>, !.create = OrderCreate,
          !.scales = [severity |-> <<"low", "high">>],
          !.invariants = <<RuleOf(Compare(Ref("fields", <<"rates", "count">>), "lte",
                                         Whole(1)))>>,
          !.operations = [approve |-> Approve]]

OrderInputs ==
  {[code |-> String("x")], [code |-> String("x"), due |-> String("d1z")],
   [code |-> String("x"), due |-> String("?")], [code |-> String("x"), qty |-> Whole(0)]}
OrderArguments ==
  [approve |-> {[picks |-> Array(<<>>)],
                [picks |-> Array(<<Whole(1)>>)],
                [picks |-> Array(<<Whole(1), Whole(7)>>), limit |-> Dec(21)]}]

-----------------------------------------------------------------------------

(* service/3: fulfilled fields, and members set only when an optional      *)
(* argument is present; the address is that of a number.                   *)
Via == Required("object")
ParcelFields ==
  [number |-> Required("integer"), label |-> Required("string"),
   tracking |-> FieldOf("string"), note |-> FieldOf("string")]

Ship ==
  [OperationOf(SchemaOf([via |-> [Via EXCEPT !.properties =
                                    [note |-> FieldOf("string")]]]), <<>>)
   EXCEPT !.response = SchemaOf([note |-> FieldOf("string"), label |-> FieldOf("string")]),
          !.outcomes =
     <<[OutcomeOf("ship") EXCEPT
          !.in_state = <<"packed">>,
          !.effect = <<"moves", "shipped", <<"packed">>>>,
          !.fulfills = [label |-> "required", tracking |-> "optional"],
          !.set_if_present = [note |-> <<"via", "note">>],
          !.emits = <<[EventOf("shipped", Object([label |-> Field("label")])) EXCEPT
                         !.payload_if_present = [said |-> <<"via", "note">>]]>>,
          !.responds = [label |-> Field("label")],
          !.responds_if_present = [note |-> <<"via", "note">>]],
       [OutcomeOf("again") EXCEPT !.effect = <<"none">>,
          !.responds = [label |-> Field("label")]]>>]

Parcel ==
  [EntityOf("parcel", "service/3", ParcelFields, <<"packed", "shipped">>)
   EXCEPT !.identity = <<"number">>,
          !.invariants = <<RuleOf(AnyOf(<<Not(Exists(Field("note"))),
                                     Not(Pair(Field("label"), "eq", Field("note")))>>))>>,
          !.operations = [ship |-> Ship]]

ParcelInputs == {[number |-> Whole(5), label |-> String("l"), note |-> String("n")],
                 [number |-> Dec(20), label |-> String("l")]}
ParcelArguments ==
  [ship |-> {[via |-> Object(EmptyMap)], [via |-> Object([note |-> String("m")])]}]
ParcelActions ==
  {[label |-> <<"preserve">>, tracking |-> <<"set", String("t")>>],
   [label |-> <<"set", String("m")>>, tracking |-> <<"remove">>],
   [label |-> <<"remove">>, tracking |-> <<"preserve">>],
   [label |-> <<"preserve">>]}

-----------------------------------------------------------------------------

(* One defect each: an expression out of its scope, an amount that is no   *)
(* number, two assignments at once, and conditional members of a payload   *)
(* that is no object.                                                      *)
Defective(entity, operation) ==
  [EntityOf(entity, "service/2", [count |-> Defaulted("integer", Whole(0))], <<"on">>)
   EXCEPT !.operations = [do |-> operation]]
Plain(arguments) == OperationOf(SchemaOf(arguments), Stay("on"))

Scoped ==
  [Defective("scoped", Plain(EmptyMap)) EXCEPT
     !.invariants = <<RuleOf(Exists(Ref("source", <<>>)))>>]
Amount ==
  Defective("amount", [Plain([by |-> Required("string")]) EXCEPT
    !.set = [count |-> Object([increment |-> Args("by")])]])
Both ==
  Defective("both", [Plain(EmptyMap) EXCEPT
    !.set = [count |-> Object([increment |-> Whole(1), cleared |-> Bool(TRUE)])]])
Flat ==
  Defective("flat", [Plain([by |-> FieldOf("string")]) EXCEPT
    !.emits = <<[EventOf("done", String("flat")) EXCEPT
                   !.payload_if_present = [said |-> <<"by">>]]>>])

DefectArguments == [do |-> {[by |-> String("a")], EmptyMap}]

MCCandidates ==
  [ticket |-> [Case(Ticket, {"", "x"}, TicketInputs, TicketArguments) EXCEPT
                 !.imports = TicketImports],
   ticket2 |-> Case(Ticket2, {"x"}, TicketInputs, TicketArguments),
   order |-> Case(PlacedOrder, {"x", "s:x"}, OrderInputs, OrderArguments),
   parcel |-> [Case(Parcel, {"5"}, ParcelInputs, ParcelArguments) EXCEPT
                 !.actions = ParcelActions],
   scoped |-> Case(Scoped, {"s:x"}, {EmptyMap}, DefectArguments),
   amount |-> Case(Amount, {"s:x"}, {EmptyMap}, DefectArguments),
   both |-> Case(Both, {"s:x"}, {EmptyMap}, DefectArguments),
   flat |-> Case(Flat, {"s:x"}, {EmptyMap}, DefectArguments)]

-----------------------------------------------------------------------------

(* Two versions of one entity, with the same relation to another. *)
Target == [EntityOf("target", "service/1", [code |-> Required("string")], <<"on">>)
           EXCEPT !.identity = <<"code">>]
Holder(version) ==
  [EntityOf("holder", "service/1", [to |-> Required("string")], <<"on">>)
   EXCEPT !.version = version,
          !.relations = [to |-> [kind |-> "references", target |-> "target",
                                 cardinality |-> "one", via |-> "to"]]]

RelationCandidates ==
  [target |-> Case(Target, {"s:x"}, {[code |-> String("x")]}, EmptyMap),
   holder1 |-> Case(Holder(1), {"s:x"}, {[to |-> String("x")]}, EmptyMap),
   holder2 |-> Case(Holder(2), {"s:x"}, {[to |-> String("x")]}, EmptyMap)]
=============================================================================
