------------------------------ MODULE MCIndex ------------------------------
(* Three streams of two models that share an interface; behaviours of admin  *)
(* calls with crashes, and of a client that reads one of the queries below.  *)
(* Interfaces and a model of all combinations of the schemas below, with     *)
(* documents; models of each account relation.                               *)
EXTENDS ComposeDB

CONSTANTS m1, m2, iface, alice, bob, Base, Wide, Item, Other, ctx

MCImplementsOf == (m1 :> {iface}) @@ (m2 :> {iface})
MCModelOf == 1 :> m1 @@ 2 :> m1 @@ 3 :> m2
AB == [a : {1, 2}, b : {NULL, 1}]
A == [a : {1, 2}, b : {1}]

StartsWith(contents) ==
    { { RowOf(s, t[s], IF s = 3 THEN bob ELSE alice, c[s]) : s \in Streams } :
      t \in { f \in [Streams -> 1 .. 2] : f[2] <= f[3] }, c \in [Streams -> contents] }

Where(k, op, x) == [where |-> (k :> (op :> x))]
Anything == [where |-> ("id" :> ("greaterThan" :> 0))]
Between(lo, hi) == [where |-> ("a" :> (("greaterThanOrEqualTo" :> lo) @@ ("lessThan" :> hi)))]
BothKeys == [where |-> ("a" :> ("equalTo" :> 1)) @@ ("b" :> ("equalTo" :> 1))]
TwoEquals == [where |-> ("a" :> (("equalTo" :> 1) @@ ("notEqualTo" :> 2)))]

Filters ==
    { Where("b", "isNull", TRUE), Between(1, 2), TwoEquals,
      [not |-> Where("b", "equalTo", 1)],
      [not |-> Where("a", "in", {1})],
      [not |-> [not |-> BothKeys]],
      [not |-> [and |-> <<Where("a", "equalTo", 1), Where("b", "isNull", FALSE)>>]],
      [not |-> [or |-> <<BothKeys, Where("a", "greaterThan", 1)>>]],
      [and |-> <<[or |-> <<Where("a", "equalTo", 2), Where("b", "equalTo", 1)>>],
                 Where("id", "lessThan", 3)>>],
      [or |-> <<[and |-> <<Where("a", "equalTo", 2), Where("b", "equalTo", 1)>>],
                Where("id", "lessThanOrEqualTo", 1)>>] }

Query(models, account, filter, sorting, dir, limit) ==
    [models |-> models, account |-> account, filter |-> filter, sorting |-> sorting,
     dir |-> dir, limit |-> limit]

Sortings == { <<>>, << <<"a", "ASC">> >>, << <<"a", "DESC">> >> }
PagedQueries ==
    { Query({iface}, "any", Anything, sorting, dir, limit) :
      sorting \in Sortings, dir \in {"forward", "backward"}, limit \in 1 .. 2 }
FilterQueries ==
    { Query({m1, m2}, "any", f, <<>>, "forward", 3) : f \in Filters }
    \cup { Query({m1}, alice, Anything, <<>>, "forward", 3) }

Workload(calls, fresh, n, streams, contents, starts, q) ==
    [admin |-> calls, fresh |-> fresh, edits |-> n, streams |-> streams,
     contents |-> contents,
     starts |-> starts, query |-> q]

MCWorkloads ==
    { Workload(FALSE, FALSE, 1, Streams, A, StartsWith(A), q) : q \in PagedQueries }
    \cup { Workload(FALSE, FALSE, 0, {}, {}, StartsWith(AB), q) : q \in FilterQueries }
    \cup { Workload(TRUE, TRUE, 2, {1, 3}, A, {{}}, Query({}, "any", Anything, <<>>, "forward", 1)),
           Workload(TRUE, FALSE, 0, {}, {}, StartsWith([a : {1}, b : {1}]),
                    Query({iface}, "any", Anything, <<>>, "forward", 1)),
           Workload(FALSE, FALSE, 0, {}, {}, {{}}, Query({}, "any", Anything, <<>>, "forward", 1)) }

-----------------------------------------------------------------------------
S(x) == [string |-> x]
N(x) == [number |-> x]
B(x) == [boolean |-> x]
Arr(x) == [array |-> x]
Obj(x) == [object |-> x]
Str == [type |-> "string"]
Num == [type |-> "number"]
With(schema, key, x) == schema @@ (key :> x)
Short == [ref |-> "Short"]

Strings ==
    { Str, With(Str, "maxLength", 1), With(Str, "minLength", 2), With(Str, "pattern", {"a", "ccc"}),
      With(Str, "enum", {S("a"), S("bb")}), With(Str, "enum", {S("bb"), S("ccc")}),
      With(Str, "enum", {S("bb")}), With(Str, "const", S("bb")), Short }
Numbers ==
    { Num, With(Num, "maximum", 1), With(Num, "minimum", 1), With(Num, "const", N(1)),
      With(Num, "exclusiveMaximum", 1), With(Num, "exclusiveMinimum", 1), [type |-> "integer"] }
Compound ==
    { [type |-> "boolean"], [type |-> "boolean", const |-> B(TRUE)], [type |-> "null"],
      [type |-> "array", items |-> Str, maxItems |-> 1], [type |-> "array", items |-> Short],
      [type |-> "object", properties |-> [n |-> Num], required |-> {}],
      [type |-> "object", properties |-> [n |-> With(Num, "maximum", 1), o |-> Str], required |-> {"n"}],
      [anyOf |-> <<Num, With(Str, "maxLength", 1)>>], [oneOf |-> <<Str, Num>>],
      [oneOf |-> <<With(Num, "minimum", 1), Short>>], [allOf |-> <<Str, With(Str, "maxLength", 1)>>] }

Root(p, required, short, more) ==
    [type |-> "object", properties |-> (<<>> @@ p @@ more), required |-> required,
     defs |-> [Short |-> short]]
Plain == [interface |-> FALSE, implements |-> {}, immutableFields |-> {}, relations |-> <<>>,
          views |-> <<>>, accountRelation |-> [type |-> "none"]]
Definition(schema, more) == more @@ [schema |-> schema] @@ Plain

Shapes == {Strings, Numbers, Compound}
Field(s, required, short, more) == Root("p" :> s, required, short, more)
Interface(shapes, implementing) ==
    { Definition(Field(s, r, With(Str, "maxLength", 2), <<>>), [interface |-> TRUE, implements |-> i]) :
      s \in shapes, r \in {{}, {"p"}}, i \in implementing }
Implementation(shapes) ==
    { Definition(Field(s, r, With(Str, "maxLength", 1), "q" :> Str), [implements |-> {Wide}]) :
      s \in shapes, r \in {{}, {"p"}} }

Scalars == { S(""), S("a"), S("bb"), S("ccc"), N(0), N(1), N(2), B(TRUE), B(FALSE), Null }
Nested == { Arr(<<>>), Arr(<<S("a"), S("bb")>>), Arr(<<S("ccc")>>), Arr(<<N(1)>>),
            Obj([n |-> N(1)]), Obj([n |-> N(2)]), Obj([o |-> S("a")]), Obj([z |-> N(1)]) }
SchemaCatalogs ==
    { [models   |-> (Base :> Interface(shapes, {{}})) @@ (Wide :> Interface(shapes, {{Base}}))
                       @@ (Item :> Implementation(shapes)),
       contents |-> { Obj("p" :> x) : x \in Scalars \cup Nested } \cup { Obj("q" :> S("a")) },
       uniques |-> {NoUnique}, patches |-> {}, most |-> 1] : shapes \in Shapes }

\* p and q are strings; the interface wants a link l to a document of the model
\* Item, and p to stay.
Linking == ("l" :> Str) @@ ("q" :> Str)
LinkTo == ("l" :> Item)
Documented(schema, relation, more) == Definition(schema, more @@ [accountRelation |-> relation])
RelationCatalog(relations, kinds) ==
    [models |->
        (Base :> { Definition(Field(Str, {}, Str, "l" :> Str),
                     [interface |-> TRUE, relations |-> LinkTo, immutableFields |-> {"p", "q"}]) })
        @@ (Item :> { Documented(Field(Str, {"p"}, Str, "q" :> Str), r, <<>>) : r \in relations })
        @@ (Other :> { Documented(Field(Str, {"p"}, Str, Linking), r,
                         [relations |-> rel, immutableFields |-> fs, implements |-> {Base}]) :
                       r \in {[type |-> "list"]}, rel \in {LinkTo, "l" :> "any"},
                       fs \in {{}, {"p"}, {"p", "q"}} }),
     contents |-> { Obj(("p" :> S(p)) @@ ("q" :> S("a"))) : p \in {"", "a"} }
                  \cup { Obj("p" :> S("a")),
                          Obj(("p" :> S("a")) @@
                              ("l" :> [link |-> [model |-> Item, account |-> alice, context |-> ctx, unique |-> "x"]])) }
                  \cup {Null},
     uniques |-> {NoUnique, "", "a", "x"}, patches |-> kinds, most |-> 3]

MCCatalogs ==
    SchemaCatalogs
    \cup { RelationCatalog({[type |-> t] : t \in {"single", "list"}}, {"compare"}),
           RelationCatalog({[type |-> "set", fields |-> f] : f \in {<<"p">>, <<"p", "q">>}}, {"compare"}) }
    \cup { [models |-> <<>>, contents |-> {}, uniques |-> {}, patches |-> {}, most |-> 0] }

-----------------------------------------------------------------------------
Post == [relations |-> << <<"author">> >>,
         indices |-> << << <<"title", "">> >>, << <<"title", "">>, <<"tags", "">> >> >>]
MCTableModels ==
    ("Post" :> Post) @@ ("Follow" :> [relations |-> << <<"who">>, <<"custom", "by">> >>, indices |-> <<>>])
    @@ ("Clash" :> [relations |-> << <<"x">>, <<"custom", "x">> >>, indices |-> <<>>])
    @@ ("Alike" :> [relations |-> <<>>, indices |-> << << <<"statu", "s">> >>, << <<"statu", "te">> >> >>])

Database(db, names, models) ==
    [db |-> db, tables |-> names, marked |-> models, network |-> "local"]
MCDatabases ==
    UNION { { Database(db, {}, {}), Database(db, ConfigTables \cup {"Follow"}, {"Follow"}) } :
            db \in {"postgres", "sqlite"} }
    \cup { Database("none", {}, {}) }

=============================================================================
