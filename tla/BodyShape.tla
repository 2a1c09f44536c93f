----------------------------- MODULE BodyShape -----------------------------
(***************************************************************************)
(* The gate before the parser of the Node API (app/body_shape.py,          *)
(* app/agent_api/body.py): limits on the braces, the commas and the        *)
(* longest number of a body are derived from the model of the body, and a  *)
(* body beyond them is refused unparsed.                                   *)
(*                                                                         *)
(* A type is a record that names its kind and what it is made of, by the   *)
(* places of types declared before it; of a body nothing is kept but its   *)
(* form: what the gate counts in its bytes, and of the digits those that   *)
(* write an integer as an integer.                                         *)
(***************************************************************************)
EXTENDS Integers, Sequences, FiniteSetsExt

CONSTANTS
    Types,      \* the types, in the order of their declarations
    Models,     \* the places of those that are models of bodies
    Wide        \* bound: forms of bodies no model allows count up to this

VARIABLE body   \* the body that arrived, and what the gate made of it

bodyVars == <<body>>

\* Types.  An Annotated type, a field and a member of a union have the same form.
Struct(fields) == [kind |-> "model", fields |-> fields]
ListOf(item, max) == [kind |-> "list", item |-> item, max |-> max]
AnyOf(branches) == [kind |-> "union", branches |-> branches]
FreeText(max) == [kind |-> "text", max |-> max]
Plain == [kind |-> "pattern"]      \* its pattern excludes the bytes that are counted
UpTo(le) == [kind |-> "int", le |-> le, strict |-> TRUE]
LaxUpTo(le) == [UpTo(le) EXCEPT !.strict = FALSE]
Flag == [kind |-> "bool"]

\* A fraction, a moment, a UUID, an address, a literal: no digits in a row but run.
Scalar(run) == [kind |-> "scalar", run |-> run]

\* A type is made of types declared before it.
Declared(type, earlier) ==
    \/ type.kind = "model" /\ type = Struct(type.fields) /\ type.fields \in Seq(earlier)
    \/ type.kind = "list" /\ type = ListOf(type.item, type.max)
       /\ type.item \in earlier /\ type.max \in Nat
    \/ type.kind = "union" /\ type = AnyOf(type.branches)
       /\ type.branches \in SUBSET earlier /\ type.branches # {}
    \/ type.kind = "text" /\ type = FreeText(type.max) /\ type.max \in Nat
    \/ type.kind = "int" /\ type \in {UpTo(type.le), LaxUpTo(type.le)} /\ type.le \in Nat
    \/ type.kind = "scalar" /\ type = Scalar(type.run) /\ type.run \in Nat
    \/ type \in {Plain, Flag}

ASSUME TypesAssumption ==
    /\ Len(Types) \in Nat /\ DOMAIN Types = 1 .. Len(Types)
    /\ \A t \in DOMAIN Types : Declared(Types[t], 1 .. t - 1)
    /\ Models \subseteq DOMAIN Types
    /\ Wide \in Nat

DigitsOf(bound) ==
    LET digits[n \in 0 .. bound] == IF n < 10 THEN 1 ELSE 1 + digits[n \div 10]
    IN digits[bound]

\* The sum of the values of a function.
SumOf(f) == MapThenSumSet(LAMBDA i : f[i], DOMAIN f)

Separators(parts) == Max({parts - 1, 0})

---------------------------------------------------------------------------
(* _Shape and shape_limits: what a type lets a body have at most.          *)

NoDigits == 0
Nothing == [openers |-> 0, commas |-> 0, digits |-> NoDigits, text |-> FALSE]

\* A brace, the commas between the fields, and what the fields have.
ModelShape(fields) ==
    [openers |-> 1 + SumOf([i \in DOMAIN fields |-> fields[i].openers]),
     commas |-> Separators(Cardinality(DOMAIN fields))
                + SumOf([i \in DOMAIN fields |-> fields[i].commas]),
     digits |-> Max({NoDigits} \union {fields[i].digits : i \in DOMAIN fields}),
     text |-> \E i \in DOMAIN fields : fields[i].text]

\* The widest of the branches in each respect, whichever branch that is.
Widest(shapes) ==
    [openers |-> Max({s.openers : s \in shapes}), commas |-> Max({s.commas : s \in shapes}),
     digits |-> Max({s.digits : s \in shapes}), text |-> \E s \in shapes : s.text]

\* Variant: a list has a comma for every item.
ListShapeTrailing(inner, max) ==
    [inner EXCEPT !.openers = 1 + max * @, !.commas = max - 1 + inner.commas]

\* A bracket, the commas between the items, and what each item has.
ListShape(inner, max) ==
    [inner EXCEPT !.openers = 1 + max * @, !.commas = Separators(max) + max * @]

\* From the shapes of the types it is made of.  Of a type it does not know the
\* function falls through: nothing is counted for it, neither digits nor text.
ShapeFrom(shape, type) ==
    CASE type.kind = "model" -> ModelShape([i \in DOMAIN type.fields |-> shape[type.fields[i]]])
      [] type.kind = "list" -> ListShape(shape[type.item], type.max)
      [] type.kind = "union" -> Widest({shape[branch] : branch \in type.branches})
      [] type.kind = "text" ->
           [openers |-> type.max, commas |-> type.max, digits |-> NoDigits, text |-> TRUE]
      [] type.kind = "pattern" -> [Nothing EXCEPT !.text = TRUE]
      [] type.kind = "int" -> [Nothing EXCEPT !.digits = DigitsOf(type.le)]
      [] OTHER -> Nothing

ShapeOf[t \in DOMAIN Types] == ShapeFrom(ShapeOf, Types[t])

\* Digits within a string are not a number: with a string field they are not limited.
Limits(model) ==
    LET shape == ShapeOf[model] IN
    [openers |-> shape.openers, commas |-> shape.commas, digits |-> shape.digits,
     numbers |-> ~shape.text /\ shape.digits # NoDigits]

\* They are derived once, when the routes are declared.
LimitsOf == [model \in Models |-> Limits(model)]

\* problem: the body has more of something than any body of the model.
TooWide(form, limits) ==
    \/ form.openers > limits.openers
    \/ form.commas > limits.commas
    \/ limits.numbers /\ form.digits > limits.digits

---------------------------------------------------------------------------
(* Reference: the forms of the values of a type, item by item.             *)

\* digits: the longest run of them; whole: the longest that writes an integer as one.
Form(openers, commas, digits, whole) ==
    [openers |-> openers, commas |-> commas, digits |-> digits, whole |-> whole]
Leaf(digits) == Form(0, 0, digits, 0)
Whole(digits) == Form(0, 0, digits, digits)

Longest(runs) == Max({0} \union runs)

\* A bracket around parts that are separated by commas.
Enclosed(parts) ==
    Form(1 + SumOf([i \in DOMAIN parts |-> parts[i].openers]),
         Separators(Cardinality(DOMAIN parts)) + SumOf([i \in DOMAIN parts |-> parts[i].commas]),
         Longest({parts[i].digits : i \in DOMAIN parts}),
         Longest({parts[i].whole : i \in DOMAIN parts}))

\* One of each.
OneOfEach(sets) ==
    {c \in [DOMAIN sets -> UNION {sets[i] : i \in DOMAIN sets}] :
        \A i \in DOMAIN sets : c[i] \in sets[i]}

\* An integer that is not strict may come with a fraction of zeros or as text.
FormsFrom(forms, type) ==
    CASE type.kind = "model" ->
           {Enclosed(parts) :
               parts \in OneOfEach([i \in DOMAIN type.fields |-> forms[type.fields[i]]])}
      [] type.kind = "list" ->
           UNION {{Enclosed(parts) : parts \in [1 .. n -> forms[type.item]]} : n \in 0 .. type.max}
      [] type.kind = "union" -> UNION {forms[branch] : branch \in type.branches}
      [] type.kind = "text" ->
           {f \in [openers : 0 .. type.max, commas : 0 .. type.max,
                   digits : 0 .. type.max, whole : {0}] :
                f.openers + f.commas + f.digits <= type.max}
      [] type.kind = "pattern" -> {Leaf(d) : d \in {0, Wide}}
      [] type.kind = "int" -> {Whole(DigitsOf(n)) : n \in 0 .. type.le}
                              \union {Leaf(d) : d \in IF type.strict THEN {} ELSE {Wide}}
      [] type.kind = "bool" -> {Leaf(0)}
      [] type.kind = "scalar" -> {Leaf(d) : d \in 0 .. type.run}

FormsOf[t \in DOMAIN Types] == FormsFrom(FormsOf, Types[t])

AnyForm == [openers : 0 .. Wide, commas : 0 .. Wide, digits : 0 .. Wide, whole : {0}]

---------------------------------------------------------------------------
BodyInit == body = [arrived |-> FALSE, valid |-> FALSE]

\* BoundedBodyRoute: the bytes are counted before the body is parsed.
Arrive(model, form, valid) ==
    body' = [arrived |-> TRUE, model |-> model, form |-> form, valid |-> valid,
             parsed |-> ~TooWide(form, LimitsOf[model])]

\* One body is followed.
BodyNext ==
    /\ ~body.arrived
    /\ \E model \in Models :
           \/ \E form \in FormsOf[model] : Arrive(model, form, TRUE)
           \/ \E form \in AnyForm : Arrive(model, form, FALSE)

BodySpec == BodyInit /\ [][BodyNext]_bodyVars

---------------------------------------------------------------------------
(* Properties.                                                             *)

\* What nested lists, optional parts, free text and integers add up to is within the
\* limits: a body its model allows is refused for nothing but the digits of a value
\* that is not an integer written as one, and would pass if those were fewer.  Such a body
\* is refused, though (a long fraction), against the docstring of body_shape.py:27-29.
RefusedForOtherDigitsOnly ==
    body.arrived /\ body.valid =>
        \/ body.parsed
        \/ /\ body.form.digits > body.form.whole
           /\ ~TooWide([body.form EXCEPT !.digits = body.form.whole], LimitsOf[body.model])
=============================================================================
