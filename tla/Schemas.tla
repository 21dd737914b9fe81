------------------------------- MODULE Schemas -------------------------------
(***************************************************************************)
(* JSON schemas as the models of ComposeDB use them: what a schema says of *)
(* a value, and when the schema of a model is taken for an implementation  *)
(* of the schema of an interface.                                          *)
(*                                                                         *)
(* A value is a function with one point, its type: [string |-> "a"], or    *)
(* [object |-> fields].  A string that names a document is [link |-> id].  *)
(* A schema is a function from the keywords it uses.  A pattern is the set *)
(* of the strings it matches; "ref" names one of the "defs" of the root.   *)
(***************************************************************************)
EXTENDS Naturals, Sequences, FiniteSets

Has(s, key) == key \in DOMAIN s
TypeOf(v) == CHOOSE t \in DOMAIN v : TRUE

\* A reference that leads nowhere leads to a schema without keywords.
Resolve(schema, root) ==
    IF ~Has(schema, "ref") THEN schema
    ELSE IF schema.ref \in DOMAIN root.defs THEN root.defs[schema.ref] ELSE <<>>

IsOfType(v, type) ==
    \/ TypeOf(v) = type
    \/ TypeOf(v) = "number" /\ type = "integer"
    \/ TypeOf(v) = "link" /\ type = "string"

StringIn(x, s) ==
    /\ Has(s, "maxLength") => Len(x) <= s.maxLength
    /\ Has(s, "minLength") => Len(x) >= s.minLength
    /\ Has(s, "pattern") => x \in s.pattern

NumberIn(x, s) ==
    /\ Has(s, "maximum") => x <= s.maximum
    /\ Has(s, "minimum") => x >= s.minimum
    /\ Has(s, "exclusiveMaximum") => x < s.exclusiveMaximum
    /\ Has(s, "exclusiveMinimum") => x > s.exclusiveMinimum

RECURSIVE Valid(_, _, _, _)

\* With closed, no object has a property that its schema does not name.
ObjectIn(fields, s, root, closed) ==
    LET named == IF Has(s, "properties") THEN DOMAIN s.properties ELSE {}
    IN  /\ Has(s, "required") => s.required \subseteq DOMAIN fields
        /\ closed /\ Has(s, "type") => DOMAIN fields \subseteq named
        /\ \A f \in named \cap DOMAIN fields : Valid(fields[f], s.properties[f], root, closed)

ArrayIn(items, s, root, closed) ==
    /\ Has(s, "maxItems") => Len(items) <= s.maxItems
    /\ Has(s, "minItems") => Len(items) >= s.minItems
    /\ Has(s, "items") => \A i \in DOMAIN items : Valid(items[i], s.items, root, closed)

\* What JSON Schema says of a value.
Valid(v, schema, root, closed) ==
    LET s == Resolve(schema, root)
        Matching(list) == { i \in DOMAIN list : Valid(v, list[i], root, closed) }
    IN  /\ Has(s, "type") => IsOfType(v, s.type)
        /\ Has(s, "const") => v = s.const
        /\ Has(s, "enum") => v \in s.enum
        /\ Has(s, "allOf") => Matching(s.allOf) = DOMAIN s.allOf
        /\ Has(s, "anyOf") => Matching(s.anyOf) # {}
        /\ Has(s, "oneOf") => Cardinality(Matching(s.oneOf)) = 1
        /\ CASE TypeOf(v) = "string" -> StringIn(v.string, s)
             [] TypeOf(v) = "number" -> NumberIn(v.number, s)
             [] TypeOf(v) = "object" -> ObjectIn(v.object, s, root, closed)
             [] TypeOf(v) = "array"  -> ArrayIn(v.array, s, root, closed)
             [] OTHER -> TRUE

-----------------------------------------------------------------------------
(* What is taken for an implementation: e the expected schema, i the other. *)

Same(e, i, key) == Has(e, key) => Has(i, key) /\ i[key] = e[key]
AtMost(e, i, key) == Has(e, key) => Has(i, key) /\ i[key] <= e[key]
AtLeast(e, i, key) == Has(e, key) => Has(i, key) /\ i[key] >= e[key]

\* validateNumberSchema
NumberImplements(e, i) ==
    /\ Same(e, i, "const")
    /\ IF Has(i, "const")
       THEN NumberIn(i.const.number, e)
       ELSE /\ AtMost(e, i, "maximum") /\ AtMost(e, i, "exclusiveMaximum")
            /\ AtLeast(e, i, "minimum") /\ AtLeast(e, i, "exclusiveMinimum")

\* Mutant: an enumeration that shares a value with the expected one is enough.
SomeEnumImplements(e, i) ==
    Has(e, "enum") =>
       IF Has(i, "const") THEN i.const \in e.enum
       ELSE Has(i, "enum") /\ i.enum \cap e.enum # {}

\* A constant must be one of the values, an enumeration a part of them.
EnumImplements(e, i) ==
    Has(e, "enum") =>
       IF Has(i, "const") THEN i.const \in e.enum
       ELSE Has(i, "enum") /\ i.enum \cap e.enum # {} /\ i.enum \subseteq e.enum

\* validateStringSchema
StringImplements(e, i) ==
    /\ Same(e, i, "const") /\ EnumImplements(e, i) /\ Same(e, i, "pattern")
    /\ IF Has(i, "const")
       THEN /\ Has(e, "maxLength") => Len(i.const.string) <= e.maxLength
            /\ Has(e, "minLength") => Len(i.const.string) >= e.minLength
       ELSE AtMost(e, i, "maxLength") /\ AtLeast(e, i, "minLength")

\* validateBooleanSchema
BooleanImplements(e, i) == Same(e, i, "const")

RECURSIVE SchemaImplements(_, _, _, _)

\* validateArraySchema
ArrayImplements(e, i, expected, implemented) ==
    /\ AtMost(e, i, "maxItems") /\ AtLeast(e, i, "minItems")
    /\ Has(e, "items") /\ Has(i, "items")
    /\ SchemaImplements(Resolve(e.items, expected), Resolve(i.items, implemented), expected, implemented)

\* validateObjectSchema
ObjectImplements(e, i, expected, implemented) ==
    /\ Has(e, "required") /\ e.required # {} => Has(i, "required") /\ e.required \subseteq i.required
    /\ Has(e, "properties") =>
         \A f \in DOMAIN e.properties :
            /\ Has(i, "properties") /\ f \in DOMAIN i.properties
            /\ SchemaImplements(Resolve(e.properties[f], expected),
                                Resolve(i.properties[f], implemented), expected, implemented)

\* validateAllSchemaTypes: every expected schema has one that implements it.
AllImplemented(es, is, expected, implemented) ==
    /\ Len(es) = Len(is)
    /\ \A k \in DOMAIN es : \E l \in DOMAIN is : SchemaImplements(es[k], is[l], expected, implemented)

\* validateAnySchemaTypes: the first pair that matches decides.
AnyImplemented(es, is, expected, implemented) ==
    es # <<>> => \E k \in DOMAIN es, l \in DOMAIN is : SchemaImplements(es[k], is[l], expected, implemented)

\* validateSchemaType: of allOf, anyOf, oneOf and type, the first that the
\* expected schema has is looked at.  Without any of them the validation fails.
SchemaImplements(e, i, expected, implemented) ==
    /\ Same(e, i, "title")
    /\ CASE Has(e, "allOf") ->
              Has(i, "allOf") /\ AllImplemented(e.allOf, i.allOf, expected, implemented)
         [] ~Has(e, "allOf") /\ Has(e, "anyOf") ->
              AnyImplemented(e.anyOf, IF Has(i, "anyOf") THEN i.anyOf ELSE <<i>>, expected, implemented)
         [] ~Has(e, "allOf") /\ ~Has(e, "anyOf") /\ Has(e, "oneOf") ->
              Has(i, "oneOf") /\ AllImplemented(e.oneOf, i.oneOf, expected, implemented)
         [] OTHER ->
              /\ Has(e, "type") /\ Has(i, "type") /\ i.type = e.type
              /\ CASE e.type = "string" -> StringImplements(e, i)
                   [] e.type \in {"number", "integer"} -> NumberImplements(e, i)
                   [] e.type = "boolean" -> BooleanImplements(e, i)
                   [] e.type = "array" -> ArrayImplements(e, i, expected, implemented)
                   [] e.type = "object" -> ObjectImplements(e, i, expected, implemented)
                   [] OTHER -> TRUE

=============================================================================
