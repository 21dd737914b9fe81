---------------------------- MODULE IndexQueries ----------------------------
(***************************************************************************)
(* Index queries.  Their filters: what the parser accepts, the SQL         *)
(* conditions the converter makes of them, and what they should mean.      *)
(* A condition is a group of terms joined by AND and OR, where AND         *)
(* binds tighter; truth is SQL's: a comparison with NULL is unknown.       *)
(*                                                                         *)
(* And their pages (InsertionOrder): the cursor of a row, the rows that    *)
(* come after a cursor, and the order they are read in.  A row is          *)
(* [id, created, ...fields]; a sorting is a sequence of <<field, order>>.  *)
(***************************************************************************)
EXTENDS Integers, Sequences, FiniteSets, SequencesExt, FiniteSetsExt

NULL == 0
No == 0  Unknown == 1  Yes == 2
Truth(b) == IF b THEN Yes ELSE No
Not3(t) == Yes - t

Greater == {"greaterThan", "greaterThanOrEqualTo"}
Lesser == {"lessThan", "lessThanOrEqualTo"}

\* One value filter of the API on a stored value.
Compare(op, v, x) ==
    CASE op = "isNull" -> Truth((v = NULL) = x)
      [] op # "isNull" /\ v = NULL -> Unknown
      [] op = "equalTo" -> Truth(v = x)
      [] op = "notEqualTo" -> Truth(v # x)
      [] op = "lessThan" -> Truth(v < x)
      [] op = "lessThanOrEqualTo" -> Truth(v <= x)
      [] op = "greaterThan" -> Truth(v > x)
      [] op = "greaterThanOrEqualTo" -> Truth(v >= x)
      [] op = "in" -> Truth(v \in x)
      [] op = "notIn" -> Truth(v \notin x)

-----------------------------------------------------------------------------
(* What a filter means.  An API filter is [where |-> key |-> (op |-> value)],
   [and |-> <<...>>], [or |-> <<...>>] or [not |-> filter]. *)

All3(S) == IF S = {} THEN Yes ELSE Min(S)
Any3(S) == IF S = {} THEN No ELSE Max(S)

RECURSIVE Meaning(_, _)
Meaning(f, row) ==
    CASE "where" \in DOMAIN f ->
           All3({ Compare(op, row[k], f.where[k][op]) :
                  <<k, op>> \in { p \in (DOMAIN f.where) \X
                                        UNION { DOMAIN f.where[k] : k \in DOMAIN f.where } :
                                  p[2] \in DOMAIN f.where[p[1]] } })
      [] "and" \in DOMAIN f -> All3({ Meaning(f.and[i], row) : i \in DOMAIN f.and })
      [] "or" \in DOMAIN f -> Any3({ Meaning(f.or[i], row) : i \in DOMAIN f.or })
      [] "not" \in DOMAIN f -> Not3(Meaning(f.not, row))

-----------------------------------------------------------------------------
(* The parser *)

\* validateCombinedOps, and the empty lists that parseObjectFilter refuses.
ValidOps(ops) ==
    \/ Cardinality(ops) <= 1
    \/ Cardinality(ops) = 2 /\ ops \cap Greater # {} /\ ops \cap Lesser # {}

RECURSIVE Accepted(_)
Accepted(f) ==
    /\ Cardinality(DOMAIN f) = 1
    /\ CASE "where" \in DOMAIN f ->
             \A k \in DOMAIN f.where :
                /\ ValidOps(DOMAIN f.where[k])
                /\ \A op \in (DOMAIN f.where[k]) \cap {"in", "notIn"} : f.where[k][op] # {}
         [] "and" \in DOMAIN f -> \A i \in DOMAIN f.and : Accepted(f.and[i])
         [] "or" \in DOMAIN f -> \A i \in DOMAIN f.or : Accepted(f.or[i])
         [] "not" \in DOMAIN f -> Accepted(f.not)

Leaf(k, op, x) == [type |-> "where", key |-> k, op |-> op, value |-> x]

\* Several filters of one key, and several keys, are combined with "and".
Combined(parts) == IF Len(parts) = 1 THEN parts[1] ELSE [type |-> "and", value |-> parts]

RECURSIVE Parsed(_)
Parsed(f) ==
    CASE "where" \in DOMAIN f ->
           LET OfKey(k) == Combined(SetToSeq({ Leaf(k, op, f.where[k][op]) : op \in DOMAIN f.where[k] }))
           IN  Combined(SetToSeq({ OfKey(k) : k \in DOMAIN f.where }))
      [] "and" \in DOMAIN f -> [type |-> "and", value |-> [i \in DOMAIN f.and |-> Parsed(f.and[i])]]
      [] "or" \in DOMAIN f -> [type |-> "or", value |-> [i \in DOMAIN f.or |-> Parsed(f.or[i])]]
      [] "not" \in DOMAIN f -> [type |-> "not", value |-> Parsed(f.not)]

-----------------------------------------------------------------------------
(* The converter: a condition is a test or a group of terms *)

Group(terms) == [terms |-> terms]
Term(join, neg, cond) == [join |-> join, neg |-> neg, cond |-> cond]
Test(k, op, x) == [key |-> k, op |-> op, value |-> x]

\* handleWhereQuery of one key.  For "in" and "notIn" it computes inNegated and
\* passes on negated, so "notIn" becomes "in".
WhereGroup(leaf, negated) ==
    IF leaf.op \in {"in", "notIn"}
    THEN Group(<< Term("and", FALSE, Test(leaf.key, IF negated THEN "notIn" ELSE "in", leaf.value)) >>)
    ELSE Group(<< Term("and", negated, Test(leaf.key, leaf.op, leaf.value)) >>)

\* convert and handleCombinator: the negation of a combination goes around it.
Converted(tree, negated) ==
    LET RECURSIVE Go(_, _)
        Go(t, neg) ==
            CASE t.type = "where" -> WhereGroup(t, neg)
              [] t.type = "not" -> Go(t.value, ~neg)
              [] t.type \in {"and", "or"} ->
                   LET group == Group([i \in DOMAIN t.value |-> Term(t.type, FALSE, Go(t.value[i], FALSE))])
                   IN  IF neg THEN Group(<< Term("and", TRUE, group) >>) ELSE group
    IN  Go(tree, negated)

\* SQL's reading of a condition: the terms between two ORs belong together.
RECURSIVE Truth3(_, _)
Truth3(cond, row) ==
    IF "key" \in DOMAIN cond THEN Compare(cond.op, row[cond.key], cond.value)
    ELSE LET ts == cond.terms
             Value(i) == IF ts[i].neg THEN Not3(Truth3(ts[i].cond, row)) ELSE Truth3(ts[i].cond, row)
             starts == { i \in DOMAIN ts : i = 1 \/ ts[i].join = "or" }
             Run(i) == { j \in i .. Len(ts) : \A l \in (i + 1) .. j : ts[l].join # "or" }
         IN  Any3({ All3({ Value(j) : j \in Run(i) }) : i \in starts })

\* applyFilters.
Passes(f, row) == Truth3(Converted(Parsed(f), FALSE), row) = Yes

-----------------------------------------------------------------------------
(* Cursors.  The condition that a cursor makes: terms as above.            *)

Sign(order, reverse) == IF (order = "ASC") # reverse THEN "greaterThan" ELSE "lessThan"

\* Cursor.stringify: fields of the row that are null are left out.
CursorOf(row, sorting) ==
    IF sorting = <<>>
    THEN [type |-> "timestamp", id |-> row.id, value |-> row.created]
    ELSE [type |-> "content", id |-> row.id,
          value |-> { <<sorting[i][1], row[sorting[i][1]]>> :
                      i \in { j \in DOMAIN sorting : row[sorting[j][1]] # NULL } }]

\* Mutant: the cursor's value itself is passed over without the tie-breaker.
NextStrictly(field, sign, value, id) == Group(<< Term("and", FALSE, Test(field, sign, value)) >>)

\* The next value, or this value and a greater stream id.
NextAfter(field, sign, value, id) ==
    Group(<< Term("and", FALSE, Test(field, sign, value)),
             Term("or", FALSE, Test(field, "equalTo", value)),
             Term("and", FALSE, Test("id", "greaterThan", id)) >>)

OrderOf(sorting, field) == sorting[CHOOSE i \in DOMAIN sorting : sorting[i][1] = field][2]

\* applyCursor: one such condition per field of the cursor, all of them at once.
IsAfter(cursor, sorting, reverse, row) ==
    IF cursor.type = "timestamp"
    THEN Truth3(NextAfter("created", Sign("ASC", reverse), cursor.value, cursor.id), row) = Yes
    ELSE \A v \in cursor.value :
            Truth3(NextAfter(v[1], Sign(OrderOf(sorting, v[1]), reverse), v[2], cursor.id), row) = Yes

-----------------------------------------------------------------------------
(* Order *)

SortFields(sorting) == IF sorting = <<>> THEN << <<"created", "ASC">> >> ELSE sorting

\* applySorting: by the fields, then by stream id, which is never reversed.
Precedes(r, s, sorting, reverse) ==
    LET keys == SortFields(sorting)
        Less(i) == IF Sign(keys[i][2], reverse) = "greaterThan"
                   THEN r[keys[i][1]] < s[keys[i][1]] ELSE r[keys[i][1]] > s[keys[i][1]]
        Equal(i) == r[keys[i][1]] = s[keys[i][1]]
    IN  \/ \E i \in DOMAIN keys : Less(i) /\ \A j \in 1 .. (i - 1) : Equal(j)
        \/ (\A i \in DOMAIN keys : Equal(i)) /\ r.id < s.id

InOrder(rows, sorting, reverse) ==
    SetToSortSeq(rows, LAMBDA r, s : Precedes(r, s, sorting, reverse))

-----------------------------------------------------------------------------
(* Pages *)

NoCursor == [type |-> "none"]

\* InsertionOrder.query with its limit: one row more than the page has.
Response(rows, query, cursor) ==
    LET reverse == query.dir = "backward"
        after   == { r \in rows : Passes(query.filter, r) /\
                                  (cursor # NoCursor => IsAfter(cursor, query.sorting, reverse, r)) }
        ordered == InOrder(after, query.sorting, reverse)
    IN  SubSeq(ordered, 1, Min({Len(ordered), query.limit + 1}))

\* InsertionOrder.page: what is kept, from which row the reader goes on, and
\* whether there is more.
Page(rows, query, cursor) ==
    LET response == Response(rows, query, cursor)
        kept     == SubSeq(response, 1, Min({Len(response), query.limit}))
    IN  [entries |-> IF query.dir = "backward" THEN Reverse(kept) ELSE kept,
         more    |-> Len(response) > query.limit,
         cursor  |-> IF kept = <<>> THEN NoCursor ELSE CursorOf(kept[Len(kept)], query.sorting)]

=============================================================================
