------------------------------- MODULE Values -------------------------------
(***************************************************************************)
(* What the kernel's rules are evaluated over (crates/entity-core/src):    *)
(* JSON values, strong Kleene truth, the exact decimal arithmetic of       *)
(* kernel/1, the observed numbers of the service semantics, instants and   *)
(* the storage address of an identity value.                               *)
(*                                                                         *)
(* A JSON value is a tuple whose head is its type.  A number is a token: a *)
(* form, "int" when it is spelled as an integer and "dec" when it has a    *)
(* fraction or an exponent, and the value it denotes, in quarters: base    *)
(* four with one fractional place stands for decimal.                      *)
(***************************************************************************)
EXTENDS Integers, Sequences, FiniteSets, TLC

CONSTANTS
  I64Max,        \* i64::MAX
  U64Max,        \* u64::MAX
  MaxFinite,     \* the largest finite binary64, in quarters
  MaxSumPlaces,  \* MAX_SUM_PLACES: the widest exact sum, in places
  Instants       \* spellings timestamp::parse accepts |-> the instant named

ASSUME ValuesAssumption ==
  /\ I64Max \in Nat /\ U64Max \in Nat /\ I64Max < U64Max
  /\ MaxFinite \in Nat /\ MaxSumPlaces \in Nat
  /\ \A text \in DOMAIN Instants : Instants[text] \in Int

EmptyMap == <<>>

(* Option: <<>> is None and <<x>> is Some(x). *)
IsSome(option) == option # <<>>

(* Result: a value, or the error that ends the whole command. *)
Ok(value) == <<"ok", value>>
Err(error) == <<"err", error>>
IsErr(result) == result[1] = "err"

Null == <<"null">>
Bool(b) == <<"bool", b>>
Number(form, quarters) == <<"num", form, quarters>>
Whole(i) == Number("int", 4 * i)
Dec(quarters) == Number("dec", quarters)
String(text) == <<"str", text>>
Array(values) == <<"arr", values>>
Object(members) == <<"obj", members>>

Is(type, value) == value[1] = type

-----------------------------------------------------------------------------

(* Truth::from_bool, and, or, not: strong Kleene logic, over the answers   *)
(* of all children at once.  Two more answers stand beside the three truth *)
(* values: "needs", which PartialTruth adds for a condition that cannot be *)
(* settled before the subject is loaded, and the name of the template      *)
(* error that ends the evaluation; the first error of a list is the one    *)
(* reported, whatever the other children answer.                           *)
TruthErrors == {"UnknownTemplate", "PreAddress"}

Truth(b) == IF b THEN "true" ELSE "false"

FirstError(truths) ==
  truths[CHOOSE i \in DOMAIN truths :
           /\ truths[i] \in TruthErrors
           /\ \A j \in 1 .. i - 1 : truths[j] \notin TruthErrors]

TruthFold(truths, absorbing, neutral) ==
  LET found == {truths[i] : i \in DOMAIN truths} IN
  IF found \cap TruthErrors # {} THEN FirstError(truths)
  ELSE IF absorbing \in found THEN absorbing
  ELSE IF "needs" \in found THEN "needs"
  ELSE IF "unknown" \in found THEN "unknown" ELSE neutral

TruthAnd(truths) == TruthFold(truths, "false", "true")
TruthOr(truths) == TruthFold(truths, "true", "false")

TruthNot(truth) ==
  CASE truth = "true"  -> "false"
    [] truth = "false" -> "true"
    [] OTHER           -> truth

-----------------------------------------------------------------------------

Abs(v) == IF v < 0 THEN -v ELSE v

Integral(v) == v % 4 = 0

(* Number::as_i64 and as_u64: only integer tokens, within the width. *)
as_i64(number) ==
  IF number[2] = "int" /\ number[3] \in 4 * (-I64Max - 1) .. 4 * I64Max
    THEN <<number[3] \div 4>> ELSE <<>>

as_u64(number) ==
  IF number[2] = "int" /\ number[3] \in 0 .. 4 * U64Max
    THEN <<number[3] \div 4>> ELSE <<>>

as_integer(number) ==
  IF number[2] = "int" /\ number[3] \in 4 * (-I64Max - 1) .. 4 * U64Max
    THEN <<number[3] \div 4>> ELSE <<>>

(* number::compare: the exact order of two tokens, whatever their size.    *)
compare(left, right) ==
  IF left[3] < right[3] THEN "lt" ELSE IF left[3] > right[3] THEN "gt" ELSE "eq"

(* Exact::high and the exponent: the highest and the lowest place a token  *)
(* occupies, in base four.                                                 *)
HighPlace(v) == Cardinality({k \in 1 .. 8 : 4 * 4 ^ k <= Abs(v)})
LowPlace(v) == IF Integral(v) THEN 0 ELSE -1

(* number::add: exact, or None when the operands span too many places; the *)
(* sum is spelled as an integer when it is one.                            *)
Spelled(v) == Number(IF Integral(v) THEN "int" ELSE "dec", v)

add(left, right) ==
  LET spans(v, w) == HighPlace(v) - LowPlace(w) + 1 > MaxSumPlaces IN
  IF \E v, w \in {left[3], right[3]} : spans(v, w)
    THEN <<>> ELSE <<Spelled(left[3] + right[3])>>

-----------------------------------------------------------------------------

(* The nearest binary64, ties to even: two bits of mantissa stand for      *)
(* fifty-three, so a half is exact below two and an odd integer is not     *)
(* above four.                                                             *)
Spacing(v) ==
  CASE v < 8  -> 2
    [] v < 16 -> 4
    [] v < 32 -> 8
    [] v < 64 -> 16
    [] OTHER  -> 32

TiesToEven(quotient, rest, s) ==
  IF 2 * rest < s \/ (2 * rest = s /\ quotient % 2 = 0) THEN quotient ELSE quotient + 1

RoundedTo(s, v) == s * TiesToEven(v \div s, v % s, s)

binary64(v) == RoundedTo(Spacing(Abs(v)), v)

Finite(v) == IF Abs(v) > MaxFinite THEN <<>> ELSE <<v>>

of_binary64(v) == Finite(binary64(v))

(* Observed::of_number: an integer token within 64 bits is exact, any      *)
(* other token is the binary64 it rounds to, and one that is not finite is *)
(* not observed.                                                           *)
of_number(number) ==
  IF IsSome(as_integer(number)) THEN <<number[3]>> ELSE of_binary64(number[3])

(* Observed::of_literal: a literal an author wrote is exact when it is an  *)
(* integer or survives the round trip through binary64.                    *)
of_literal(number) ==
  LET exact(read) == IF IsSome(read) /\ Integral(number[3]) THEN <<number[3]>> ELSE read
  IN exact(of_binary64(number[3]))

(* observe: which of the two readings an operand takes depends on how it   *)
(* was written, not on what it holds.  written is an Option: the operand   *)
(* of the condition, when one stands for this value.                       *)
observe(number, written) ==
  IF IsSome(written) /\ Is("num", written[1])
    THEN of_literal(written[1]) ELSE of_number(number)

(* CompareOp::accepts *)
accepts(op, order) ==
  CASE op = "eq"  -> order = "eq"
    [] op = "ne"  -> order # "eq"
    [] op = "lt"  -> order = "lt"
    [] op = "lte" -> order \in {"lt", "eq"}
    [] op = "gt"  -> order = "gt"
    [] op = "gte" -> order \in {"gt", "eq"}

Order(left, right) ==
  IF left < right THEN "lt" ELSE IF left > right THEN "gt" ELSE "eq"

-----------------------------------------------------------------------------

(* values_equal: kernel/1 equality.  Numbers are equal by value, whatever  *)
(* their spelling, at any depth; everything else structurally.             *)
RECURSIVE values_equal(_, _)
values_equal(left, right) ==
  CASE Is("num", left) /\ Is("num", right) -> compare(left, right) = "eq"
    [] Is("arr", left) /\ Is("arr", right) ->
         /\ Len(left[2]) = Len(right[2])
         /\ \A i \in 1 .. Len(left[2]) : values_equal(left[2][i], right[2][i])
    [] Is("obj", left) /\ Is("obj", right) ->
         /\ DOMAIN left[2] = DOMAIN right[2]
         /\ \A k \in DOMAIN left[2] : values_equal(left[2][k], right[2][k])
    [] OTHER -> left = right

written_element(written, i) ==
  IF IsSome(written) /\ Is("arr", written[1]) /\ i <= Len(written[1][2])
    THEN <<written[1][2][i]>> ELSE <<>>

written_member(written, k) ==
  IF IsSome(written) /\ Is("obj", written[1]) /\ k \in DOMAIN written[1][2]
    THEN <<written[1][2][k]>> ELSE <<>>

SameObserved(l, r, left, right) ==
  IF IsSome(l) /\ IsSome(r) THEN l = r ELSE left = right

(* observed_values_equal: service equality.  Two numbers are equal when    *)
(* they are observed equal; one that is not observed equals only itself.   *)
RECURSIVE observed_values_equal(_, _, _, _)
observed_values_equal(left, lw, right, rw) ==
  CASE Is("num", left) /\ Is("num", right) ->
         SameObserved(observe(left, lw), observe(right, rw), left, right)
    [] Is("arr", left) /\ Is("arr", right) ->
         /\ Len(left[2]) = Len(right[2])
         /\ \A i \in 1 .. Len(left[2]) :
              observed_values_equal(left[2][i], written_element(lw, i),
                                    right[2][i], written_element(rw, i))
    [] Is("obj", left) /\ Is("obj", right) ->
         /\ DOMAIN left[2] = DOMAIN right[2]
         /\ \A k \in DOMAIN left[2] :
              observed_values_equal(left[2][k], written_member(lw, k),
                                    right[2][k], written_member(rw, k))
    [] OTHER -> left = right

is_scalar(value) == value[1] \in {"bool", "num", "str"}

(* timestamp::parse: two spellings may name one instant, and a string that *)
(* is none (an offset other than Z, an impossible date) names none.        *)
parse(text) == IF text \in DOMAIN Instants THEN <<Instants[text]>> ELSE <<>>

instant(value) == IF Is("str", value) THEN parse(value[2]) ELSE <<>>

-----------------------------------------------------------------------------

(* identity::address: the storage identity of an identity value.  Texts    *)
(* are prefixed so that no text is taken for a number or a boolean, and a  *)
(* number is its observed value, whatever its spelling.                    *)
numeric_text(number) ==
  LET text(observed) ==
        IF observed = <<>> THEN <<>>
        ELSE IF Integral(observed[1]) THEN <<ToString(observed[1] \div 4)>>
        ELSE <<ToString(observed[1]) \o "/4">> IN
  text(of_number(number))

(* write_canonical: every number of a composite is written as observed,    *)
(* and a null anywhere in it is refused.                                   *)
RECURSIVE Writable(_)
Writable(value) ==
  CASE Is("null", value) -> FALSE
    [] Is("num", value)  -> IsSome(numeric_text(value))
    [] Is("arr", value)  -> \A i \in DOMAIN value[2] : Writable(value[2][i])
    [] Is("obj", value)  -> \A k \in DOMAIN value[2] : Writable(value[2][k])
    [] OTHER -> TRUE

RECURSIVE write_canonical(_)
write_canonical(value) ==
  CASE Is("num", value) -> numeric_text(value)[1]
    [] Is("arr", value) ->
         ToString([i \in DOMAIN value[2] |-> write_canonical(value[2][i])])
    [] Is("obj", value) ->
         ToString([k \in DOMAIN value[2] |-> write_canonical(value[2][k])])
    [] OTHER -> ToString(value)

canonical_json(value) ==
  IF Writable(value) THEN <<write_canonical(value)>> ELSE <<>>

address(kind, value) ==
  CASE kind \in {"string", "enum", "ref"} ->
         IF Is("str", value) THEN <<"s:" \o value[2]>> ELSE <<>>
    [] kind \in {"integer", "number", "binary64"} ->
         IF Is("num", value) THEN numeric_text(value) ELSE <<>>
    [] kind = "boolean" ->
         IF Is("bool", value) THEN <<Truth(value[2])>> ELSE <<>>
    [] kind = "array" ->
         IF Is("arr", value) THEN canonical_json(value) ELSE <<>>
    [] kind \in {"object", "map", "union"} ->
         IF Is("obj", value) THEN canonical_json(value) ELSE <<>>
    [] OTHER -> <<>>
=============================================================================
