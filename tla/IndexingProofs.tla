--------------------------- MODULE IndexingProofs ---------------------------
(***************************************************************************)
(* Proofs about the local index: the tables that a node starts on          *)
(* (Tables), and the jobs that fill them with the anchors that are on      *)
(* chain (HistorySync).                                                    *)
(***************************************************************************)
EXTENDS HistorySync, Tables, FiniteSetTheorems, SequenceTheorems, WellFoundedInduction, TLAPS

Name == Seq(STRING \cup {"custom"}) \ {<<>>}
ColumnSet == {CommonTable[k] : k \in 1..8} \cup {RelationColumn(name) : name \in Name}

BaseTable == IF database = "postgres" THEN PostgresModelTable ELSE SqliteModelTable
Relations(m) == TableModels[m].relations

(* What the migrations make of a column is what is expected of it.         *)
LEMMA BaseIsCommon == BaseTable = CommonTable
<1>1. ASSUME database = "postgres" PROVE PostgresModelTable = PostgresCommonTable
  BY <1>1 DEF PostgresModelTable, PostgresCommonTable, Expected, StringInfo, DateInfo, CreatedAt,
     UpdatedAt, Primary, TextColumn, PlainColumn, Nullable, Default, Column
<1>2. SqliteModelTable = SqliteCommonTable
  BY DEF SqliteModelTable, SqliteCommonTable, Expected, StringInfo, IntegerInfo, NotNullable,
     Primary, TextColumn, PlainColumn, Nullable, Column
<1> QED
  BY <1>1, <1>2 DEF BaseTable, CommonTable

LEMMA ConfigAsExpected == \A t \in ConfigTables : ConfigTable(t) = ConfigStructure(t)
<1>1. ConfigTable("ceramic_models") = ConfigTableModelIndex
  BY DEF ConfigTable, ConfigTableModelIndex, Expected, StringInfo, DateInfo, CreatedAt, UpdatedAt,
     Indices, Primary, TextColumn, PlainColumn, Nullable, NotNullable, Default, Column
<1>2. ConfigTable("ceramic_config") = ConfigTableStructure
  BY DEF ConfigTable, ConfigTableStructure, Expected, StringInfo, DateInfo, CreatedAt, UpdatedAt,
     TextColumn, PlainColumn, Nullable, Default, Column
<1>3. ConfigTable("ceramic_model_implements") = ModelImplementsTable
  BY DEF ConfigTable, ModelImplementsTable, Expected, StringInfo, TextColumn, Column
<1> QED
  BY <1>1, <1>2, <1>3 DEF ConfigTables, ConfigStructure

LEMMA PrefixedType ==
    ASSUME NEW name \in Name
    PROVE  /\ ColumnPrefixed(name) \in Name /\ ColumnPrefixed(name)[1] = "custom"
           /\ ColumnPrefixed(ColumnPrefixed(name)) = ColumnPrefixed(name)
<1>1. CASE Head(name) = "custom"
  BY <1>1 DEF ColumnPrefixed, Name
<1>2. CASE Head(name) # "custom"
  <2> DEFINE long == <<"custom">> \o name
             S == STRING \cup {"custom"}
  <2>1. ColumnPrefixed(name) = long
    BY <1>2 DEF ColumnPrefixed
  <2>2. <<"custom">> \in Seq(S) /\ Len(<<"custom">>) = 1 /\ <<"custom">>[1] = "custom"
    OBVIOUS
  <2>3. long \in Seq(S) /\ Len(long) = 1 + Len(name) /\ long[1] = "custom"
    BY <2>2, ConcatProperties DEF Name
  <2> HIDE DEF long
  <2>4. Head(long) = "custom" /\ long # <<>>
    BY <2>3 DEF Name
  <2>5. ColumnPrefixed(long) = long
    BY <2>4 DEF ColumnPrefixed
  <2> QED
    BY <2>1, <2>3, <2>4, <2>5 DEF Name
<1> QED
  BY <1>1, <1>2

LEMMA BaseNames ==
    /\ CommonTable \in Seq(ColumnSet) /\ Len(CommonTable) = 8
    /\ \A k \in 1..8 : CommonTable[k].name[1] # "custom"
<1>1. Len(PostgresCommonTable) = 8 /\ PostgresCommonTable \in Seq({PostgresCommonTable[k] : k \in 1..8})
  BY DEF PostgresCommonTable
<1>2. Len(SqliteCommonTable) = 8 /\ SqliteCommonTable \in Seq({SqliteCommonTable[k] : k \in 1..8})
  BY DEF SqliteCommonTable
<1>3. \A k \in 1..8 : PostgresCommonTable[k].name[1] # "custom"
  BY DEF PostgresCommonTable, Expected, Column
<1>4. \A k \in 1..8 : SqliteCommonTable[k].name[1] # "custom"
  BY DEF SqliteCommonTable, Expected, Column
<1>5. CommonTable \in Seq({CommonTable[k] : k \in 1..8}) /\ Len(CommonTable) = 8
  BY <1>1, <1>2 DEF CommonTable
<1>6. \A k \in 1..8 : CommonTable[k].name[1] # "custom"
  BY <1>3, <1>4 DEF CommonTable
<1> QED
  BY <1>5, <1>6 DEF ColumnSet

LEMMA RelationColumnIs ==
    ASSUME NEW name \in Name
    PROVE  /\ RelationColumn(name) \in ColumnSet
           /\ RelationColumn(name).name = ColumnPrefixed(name)
           /\ RelationColumn(ColumnPrefixed(name)) = RelationColumn(name)
           /\ [Expected("custom", <<"text", 1024, "YES", "none">>) EXCEPT !.name = ColumnPrefixed(name)]
              = RelationColumn(name)
           /\ NotNullable(RelationColumn(name)).name = ColumnPrefixed(name)
<1>1. RelationColumn(name) \in ColumnSet
  BY DEF ColumnSet
<1>2. ColumnPrefixed(ColumnPrefixed(name)) = ColumnPrefixed(name)
  BY PrefixedType
<1>3. Nullable(TextColumn("custom", 1024)) = Expected("custom", <<"text", 1024, "YES", "none">>)
  BY DEF Nullable, TextColumn, Column, Expected
<1>4. /\ RelationColumn(ColumnPrefixed(name)) = RelationColumn(name)
      /\ [Expected("custom", <<"text", 1024, "YES", "none">>) EXCEPT !.name = ColumnPrefixed(name)]
         = RelationColumn(name)
  BY <1>2, <1>3 DEF RelationColumn
<1>5. RelationColumn(name).name = ColumnPrefixed(name)
  BY <1>3 DEF RelationColumn, Expected, Column
<1>6. NotNullable(RelationColumn(name)).name = RelationColumn(name).name
  BY <1>3 DEF RelationColumn, NotNullable, Expected, Column
<1> QED
  BY <1>1, <1>4, <1>5, <1>6

LEMMA RelationsType ==
    ASSUME NEW m \in DOMAIN TableModels
    PROVE  Relations(m) \in Seq(Name)
<1>1. Relations(m) \in Seq(Seq(STRING) \ {<<>>})
  BY TablesAssumption DEF Relations
<1>2. Seq(STRING) \ {<<>>} \subseteq Name
  BY DEF Name
<1> QED
  BY <1>1, <1>2

EightAnd(u, S, s, t) ==
    /\ u \in Seq(S) /\ Len(u) = 8 + Len(t)
    /\ \A k \in 1..8 : u[k] = s[k]
    /\ \A j \in 1..Len(t) : u[8 + j] = t[j]

LEMMA EightAndMore ==
    ASSUME NEW S, NEW s \in Seq(S), NEW t \in Seq(S), Len(s) = 8
    PROVE  EightAnd(s \o t, S, s, t)
<1> DEFINE u == s \o t
<1>1. u \in Seq(S) /\ Len(u) = Len(s) + Len(t)
  BY ConcatProperties
<1>2. \A i \in 1 .. Len(s) + Len(t) : u[i] = IF i <= Len(s) THEN s[i] ELSE t[i - Len(s)]
  BY ConcatProperties
<1>3. Len(t) \in Nat
  OBVIOUS
<1>4. \A i \in 1 .. 8 + Len(t) : u[i] = IF i <= 8 THEN s[i] ELSE t[i - 8]
  BY <1>2, <1>3
<1>5. ASSUME NEW j \in 1..Len(t) PROVE u[8 + j] = t[j]
  <2>1. 8 + j \in 1 .. 8 + Len(t) /\ ~(8 + j <= 8) /\ (8 + j) - 8 = j
    BY <1>3
  <2> QED
    BY <2>1, <1>4
<1>6. ASSUME NEW k \in 1..8 PROVE u[k] = s[k]
  <2>1. k \in 1 .. 8 + Len(t) /\ k <= 8
    BY <1>3
  <2> QED
    BY <2>1, <1>4
<1> HIDE DEF u
<1>7. EightAnd(u, S, s, t)
  BY <1>1, <1>3, <1>5, <1>6 DEF EightAnd
<1> QED
  BY <1>7 DEF u

LEMMA ModelTableIs ==
    ASSUME NEW m \in DOMAIN TableModels
    PROVE  /\ ModelTable(m) \in Seq(ColumnSet) /\ Len(ModelTable(m)) = 8 + Len(Relations(m))
           /\ \A k \in 1..8 : ModelTable(m)[k] = CommonTable[k]
           /\ \A j \in 1..Len(Relations(m)) : ModelTable(m)[8 + j] = RelationColumn(Relations(m)[j])
<1> DEFINE rel == Relations(m)
<1>1. rel \in Seq(Name)
  BY RelationsType
<1>2. ExtraColumns(m) = [k \in 1..Len(rel) |-> RelationColumn(rel[k])]
  BY <1>1 DEF ExtraColumns, Relations
<1>3. \A k \in 1..Len(rel) : RelationColumn(rel[k]) \in ColumnSet
  BY <1>1, RelationColumnIs
<1>4. ExtraColumns(m) \in Seq(ColumnSet) /\ Len(ExtraColumns(m)) = Len(rel)
  BY <1>1, <1>2, <1>3
<1>5. ModelTable(m) = CommonTable \o ExtraColumns(m)
  BY BaseIsCommon DEF ModelTable, BaseTable
<1>6. CommonTable \in Seq(ColumnSet) /\ Len(CommonTable) = 8
  BY BaseNames
<1> HIDE DEF rel
<1>7. /\ ModelTable(m) \in Seq(ColumnSet) /\ Len(ModelTable(m)) = 8 + Len(ExtraColumns(m))
      /\ \A k \in 1..8 : ModelTable(m)[k] = CommonTable[k]
      /\ \A j \in 1..Len(ExtraColumns(m)) : ModelTable(m)[8 + j] = ExtraColumns(m)[j]
  <2>1. EightAnd(ModelTable(m), ColumnSet, CommonTable, ExtraColumns(m))
    BY <1>4, <1>5, <1>6, EightAndMore
  <2> QED
    BY <2>1 DEF EightAnd
<1> QED
  BY <1>2, <1>4, <1>7 DEF rel

-----------------------------------------------------------------------------
(* Induction over numbers, and the functions it defines.                   *)
LEMMA NumbersInduction ==
    ASSUME NEW S, 0 \in S, \A n \in Nat : n \in S => n + 1 \in S
    PROVE  Nat \subseteq S
<1> DEFINE less == {ss \in Nat \X Nat : ss[1] < ss[2]}
           missing == Nat \ S
<1>1. IsWellFoundedOn(less, Nat)
  BY NatLessThanWellFounded DEF OpToRel
<1>2. ASSUME missing # {} PROVE FALSE
  <2> HIDE DEF less
  <2>1. PICK x \in missing : \A y \in missing : ~(<<y, x>> \in less)
    BY <1>1, <1>2, WFMin
  <2>2. x \in Nat /\ x # 0
    OBVIOUS
  <2>3. x - 1 \in Nat /\ (x - 1) + 1 = x /\ x - 1 < x
    BY <2>2
  <2>4. <<x - 1, x>> \in less
    BY <2>2, <2>3 DEF less
  <2>5. x - 1 \in S
    BY <2>1, <2>3, <2>4
  <2> QED
    BY <2>3, <2>5
<1> QED
  BY <1>2

Runs(f, a, F, n) == f[0] = a /\ \A k \in 1..n : f[k] = F[<<f[k - 1], k>>]

LEMMA RunExists ==
    ASSUME NEW S, NEW a \in S, NEW N \in Nat, NEW F \in [S \X (1..N) -> S]
    PROVE  \E f \in [0..N -> S] : Runs(f, a, F, N)
<1> DEFINE T == {n \in Nat : n =< N => \E f \in [0..n -> S] : Runs(f, a, F, n)}
<1>1. 0 \in T
  <2> DEFINE f == [k \in 0..0 |-> a]
  <2>1. f \in [0..0 -> S] /\ Runs(f, a, F, 0)
    BY DEF Runs
  <2> QED
    BY <2>1
<1>2. ASSUME NEW n \in Nat, n \in T PROVE n + 1 \in T
  <2> SUFFICES ASSUME n + 1 =< N PROVE \E f \in [0..n + 1 -> S] : Runs(f, a, F, n + 1)
    OBVIOUS
  <2>1. PICK f \in [0..n -> S] : Runs(f, a, F, n)
    BY <1>2
  <2> DEFINE g == [k \in 0..n + 1 |-> IF k = n + 1 THEN F[<<f[n], n + 1>>] ELSE f[k]]
  <2>2. F[<<f[n], n + 1>>] \in S
    <3>1. f[n] \in S /\ n + 1 \in 1..N
      OBVIOUS
    <3>2. <<f[n], n + 1>> \in S \X (1..N)
      BY <3>1
    <3> QED
      BY <3>2
  <2>3. g \in [0..n + 1 -> S]
    <3>1. \A k \in 0..n + 1 : k # n + 1 => k \in 0..n
      OBVIOUS
    <3> QED
      BY <2>2, <3>1
  <2>4. g[0] = a
    BY <2>1 DEF Runs
  <2>5. ASSUME NEW k \in 1..n + 1 PROVE g[k] = F[<<g[k - 1], k>>]
    <3>1. k - 1 \in 0..n + 1 /\ k - 1 # n + 1
      OBVIOUS
    <3>2. g[k - 1] = f[k - 1]
      BY <3>1
    <3>3. CASE k = n + 1
      <4>1. k - 1 = n /\ g[n + 1] = F[<<f[n], n + 1>>]
        BY <3>3
      <4>2. F[<<g[k - 1], k>>] = F[<<f[n], n + 1>>]
        BY <3>2, <3>3, <4>1
      <4> HIDE DEF g
      <4> QED
        BY <3>3, <4>1, <4>2
    <3>4. CASE k # n + 1
      BY <2>1, <3>2, <3>4 DEF Runs
    <3> QED
      BY <3>3, <3>4
  <2> HIDE DEF g
  <2> QED
    BY <2>3, <2>4, <2>5 DEF Runs
<1> HIDE DEF T
<1>3. N \in T
  BY <1>1, <1>2, NumbersInduction
<1> QED
  BY <1>3 DEF T

-----------------------------------------------------------------------------
(* What is expected of the table of a model is what is made of it, unless  *)
(* two of its relations have the same name, and then no table is made.     *)
LEMMA RelationKeysAre ==
    ASSUME NEW m \in DOMAIN TableModels, DistinctRelations(m)
    PROVE  /\ Len(RelationKeys(m)) = Len(Relations(m)) /\ RelationKeys(m) \in Seq(Name)
           /\ \A j \in 1..Len(Relations(m)) : RelationKeys(m)[j] = ColumnPrefixed(Relations(m)[j])
<1> DEFINE names == Relations(m)
           N == Len(names)
           step(ks, n) == IF ColumnPrefixed(names[n]) \in ToSet(ks) THEN ks
                          ELSE Append(ks, ColumnPrefixed(names[n]))
           F == [kn \in Seq(Name) \X (1..N) |-> step(kn[1], kn[2])]
           Is(f) == f = [n \in 0..N |-> IF n = 0 THEN <<>> ELSE step(f[n - 1], n)]
           keys == CHOOSE f : Is(f)
<1>1. names \in Seq(Name) /\ N \in Nat
  BY RelationsType
<1>2. \A n \in 1..N : ColumnPrefixed(names[n]) \in Name
  BY <1>1, PrefixedType
<1>3. F \in [Seq(Name) \X (1..N) -> Seq(Name)]
  <2> SUFFICES ASSUME NEW ks \in Seq(Name), NEW n \in 1..N PROVE step(ks, n) \in Seq(Name)
    OBVIOUS
  <2> QED
    BY <1>2
<1>4. <<>> \in Seq(Name)
  OBVIOUS
<1> HIDE DEF F
<1>5. PICK f \in [0..N -> Seq(Name)] : Runs(f, <<>>, F, N)
  BY <1>1, <1>3, <1>4, RunExists
<1>6. Is(f)
  <2>1. f = [n \in 0..N |-> f[n]]
    OBVIOUS
  <2>2. ASSUME NEW n \in 0..N PROVE f[n] = IF n = 0 THEN <<>> ELSE step(f[n - 1], n)
    <3>1. CASE n = 0
      BY <1>5, <3>1 DEF Runs
    <3>2. CASE n # 0
      <4>1. n \in 1..N /\ n - 1 \in 0..N
        BY <3>2, <1>1
      <4>2. f[n] = F[<<f[n - 1], n>>]
        BY <1>5, <4>1 DEF Runs
      <4>3. F[<<f[n - 1], n>>] = step(f[n - 1], n)
        BY <4>1 DEF F
      <4> QED
        BY <3>2, <4>2, <4>3
    <3> QED
      BY <3>1, <3>2
  <2> QED
    BY <2>1, <2>2
<1>7. Is(keys)
  BY <1>6
<1>8. RelationKeys(m) = keys[N]
  BY DEF RelationKeys, Relations
<1> HIDE DEF keys
<1> DEFINE T == {n \in Nat : n =< N =>
                     /\ keys[n] \in Seq(Name) /\ Len(keys[n]) = n
                     /\ \A j \in 1..n : keys[n][j] = ColumnPrefixed(names[j])}
<1>9. 0 \in T
  <2>1. keys[0] = <<>>
    BY <1>1, <1>7
  <2>2. /\ keys[0] \in Seq(Name) /\ Len(keys[0]) = 0
        /\ \A j \in 1..0 : keys[0][j] = ColumnPrefixed(names[j])
    BY <1>4, <2>1
  <2> QED
    BY <2>2
<1>10. ASSUME NEW n \in Nat, n \in T PROVE n + 1 \in T
  <2> SUFFICES ASSUME n + 1 =< N
               PROVE  /\ keys[n + 1] \in Seq(Name) /\ Len(keys[n + 1]) = n + 1
                      /\ \A j \in 1..n + 1 : keys[n + 1][j] = ColumnPrefixed(names[j])
    OBVIOUS
  <2>1. /\ keys[n] \in Seq(Name) /\ Len(keys[n]) = n
        /\ \A j \in 1..n : keys[n][j] = ColumnPrefixed(names[j])
    BY <1>10, <1>1
  <2>2. keys[n + 1] = step(keys[n], n + 1)
    <3>1. n + 1 \in 0..N /\ n + 1 # 0 /\ (n + 1) - 1 = n
      BY <1>1
    <3> QED
      BY <3>1, <1>7
  <2>3. ColumnPrefixed(names[n + 1]) \notin ToSet(keys[n])
    <3>1. \A j \in 1..n : ColumnPrefixed(names[j]) # ColumnPrefixed(names[n + 1])
      BY <1>1 DEF DistinctRelations, Relations
    <3>2. ToSet(keys[n]) = {keys[n][j] : j \in 1..n}
      <4> DEFINE ks == keys[n]
      <4>1. ks \in Seq(Name) /\ Len(ks) = n
        BY <2>1
      <4> HIDE DEF ks
      <4>2. DOMAIN ks = 1..n
        BY <4>1
      <4>3. ToSet(ks) = {ks[j] : j \in 1..n}
        BY <4>2 DEF ToSet
      <4> QED
        BY <4>3 DEF ks
    <3> QED
      BY <2>1, <3>1, <3>2
  <2>4. keys[n + 1] = Append(keys[n], ColumnPrefixed(names[n + 1]))
    BY <2>2, <2>3
  <2>5. ColumnPrefixed(names[n + 1]) \in Name
    BY <1>1, <1>2
  <2> DEFINE ks == keys[n]
             new == ColumnPrefixed(names[n + 1])
             longer == Append(ks, new)
  <2>6. ks \in Seq(Name) /\ Len(ks) = n /\ new \in Name /\ n \in Nat
    BY <2>1, <2>5, <1>1
  <2> HIDE DEF ks, new
  <2>7. /\ longer \in Seq(Name) /\ Len(longer) = n + 1 /\ longer[n + 1] = new
        /\ \A j \in 1..n : longer[j] = ks[j]
    BY <2>6, AppendProperties
  <2> HIDE DEF longer
  <2>8. \A j \in 1..(n + 1) : longer[j] = ColumnPrefixed(names[j])
    <3>1. \A j \in 1..(n + 1) : j \in 1..n \/ j = n + 1
      BY <2>6
    <3> QED
      BY <3>1, <2>1, <2>7 DEF ks, new
  <2>9. keys[n + 1] = longer
    BY <2>4 DEF ks, new, longer
  <2> QED
    BY <2>7, <2>8, <2>9
<1> HIDE DEF T
<1>11. N \in T
  BY <1>1, <1>9, <1>10, NumbersInduction
<1> QED
  BY <1>1, <1>8, <1>11 DEF T

LEMMA MidStructureIsModelTable ==
    ASSUME NEW m \in DOMAIN TableModels, DistinctRelations(m)
    PROVE  MidStructure(m) = ModelTable(m)
<1> DEFINE rel == Relations(m)
           expected(name) == [Expected("custom", <<"text", 1024, "YES", "none">>) EXCEPT !.name = name]
           extra == [k \in DOMAIN RelationKeys(m) |-> expected(RelationKeys(m)[k])]
<1>1. rel \in Seq(Name) /\ Len(rel) \in Nat
  BY RelationsType
<1>2. /\ Len(RelationKeys(m)) = Len(rel) /\ RelationKeys(m) \in Seq(Name)
      /\ \A j \in 1..Len(rel) : RelationKeys(m)[j] = ColumnPrefixed(rel[j])
  BY RelationKeysAre
<1>3. \A j \in 1..Len(rel) : expected(ColumnPrefixed(rel[j])) = RelationColumn(rel[j])
  BY <1>1, RelationColumnIs
<1> HIDE DEF expected
<1>4. DOMAIN RelationKeys(m) = 1..Len(rel)
  BY <1>2
<1>5. extra = [k \in 1..Len(rel) |-> RelationColumn(rel[k])]
  BY <1>2, <1>3, <1>4
<1>6. ExtraColumns(m) = [k \in 1..Len(rel) |-> RelationColumn(rel[k])]
  BY <1>1 DEF ExtraColumns, Relations
<1>7. MidStructure(m) = CommonTable \o extra
  BY DEF MidStructure, expected
<1>8. ModelTable(m) = CommonTable \o ExtraColumns(m)
  BY BaseIsCommon DEF ModelTable, BaseTable
<1> QED
  BY <1>5, <1>6, <1>7, <1>8

LEMMA NamesOfModelTable ==
    ASSUME NEW m \in DOMAIN TableModels
    PROVE  /\ \A k \in 1..8 : ModelTable(m)[k].name[1] # "custom"
           /\ \A j \in 1..Len(Relations(m)) :
                  /\ ModelTable(m)[8 + j].name = ColumnPrefixed(Relations(m)[j])
                  /\ NotNullable(ModelTable(m)[8 + j]).name = ColumnPrefixed(Relations(m)[j])
                  /\ RelationColumn(ColumnPrefixed(Relations(m)[j])) = ModelTable(m)[8 + j]
<1>1. Relations(m) \in Seq(Name)
  BY RelationsType
<1>2. \A k \in 1..8 : ModelTable(m)[k] = CommonTable[k]
  BY ModelTableIs
<1>3. \A j \in 1..Len(Relations(m)) : ModelTable(m)[8 + j] = RelationColumn(Relations(m)[j])
  BY ModelTableIs
<1>4. \A j \in 1..Len(Relations(m)) : Relations(m)[j] \in Name
  BY <1>1
<1> QED
  BY <1>2, <1>3, <1>4, BaseNames, RelationColumnIs

LEMMA UnambiguousIsDistinct ==
    ASSUME NEW m \in DOMAIN TableModels, Unambiguous(ModelTable(m))
    PROVE  DistinctRelations(m)
<1>1. Relations(m) \in Seq(Name) /\ Len(Relations(m)) \in Nat
  BY RelationsType
<1>2. ModelTable(m) \in Seq(ColumnSet) /\ Len(ModelTable(m)) = 8 + Len(Relations(m))
  BY ModelTableIs
<1>3. ASSUME NEW j \in 1..Len(Relations(m)), NEW k \in 1..Len(Relations(m)),
             ColumnPrefixed(Relations(m)[j]) = ColumnPrefixed(Relations(m)[k])
      PROVE  j = k
  <2>1. 8 + j \in DOMAIN ModelTable(m) /\ 8 + k \in DOMAIN ModelTable(m)
    BY <1>1, <1>2
  <2>2. ModelTable(m)[8 + j].name = ModelTable(m)[8 + k].name
    BY <1>3, NamesOfModelTable
  <2>3. 8 + j = 8 + k
    BY <2>1, <2>2 DEF Unambiguous
  <2> QED
    BY <2>3, <1>1
<1>4. DOMAIN Relations(m) = 1..Len(Relations(m))
  BY <1>1
<1> QED
  BY <1>3, <1>4 DEF DistinctRelations, Relations

(* Migrations give a table that an earlier release made its new columns.   *)
EarlierModelTable(m) ==
    [k \in DOMAIN ModelTable(m) |-> IF k > 8 THEN NotNullable(ModelTable(m)[k]) ELSE ModelTable(m)[k]]
Altered(m, c) ==
    IF c.name \in {ColumnPrefixed(r) : r \in ToSet(Relations(m))} THEN RelationColumn(c.name) ELSE c

LEMMA AlteredIsModelTable ==
    ASSUME NEW m \in DOMAIN TableModels, NEW columns \in {ModelTable(m), EarlierModelTable(m)}
    PROVE  [k \in DOMAIN columns |-> Altered(m, columns[k])] = ModelTable(m)
<1> DEFINE rel == Relations(m)
           names == {ColumnPrefixed(r) : r \in ToSet(rel)}
<1>1. rel \in Seq(Name) /\ Len(rel) \in Nat
  BY RelationsType
<1>2. ModelTable(m) \in Seq(ColumnSet) /\ Len(ModelTable(m)) = 8 + Len(rel)
  BY ModelTableIs
<1>3. \A r \in ToSet(rel) : ColumnPrefixed(r)[1] = "custom"
  BY <1>1, PrefixedType DEF ToSet
<1>4. \A j \in 1..Len(rel) : ColumnPrefixed(rel[j]) \in names
  BY <1>1 DEF ToSet
<1>5. DOMAIN ModelTable(m) = 1..8 + Len(rel) /\ DOMAIN columns = DOMAIN ModelTable(m)
  BY <1>2 DEF EarlierModelTable
<1>6. ASSUME NEW k \in DOMAIN ModelTable(m) PROVE Altered(m, columns[k]) = ModelTable(m)[k]
  <2>1. CASE k <= 8
    <3>1. k \in 1..8 /\ ~(k > 8)
      BY <1>1, <1>5, <2>1
    <3>2. columns[k] = ModelTable(m)[k]
      BY <3>1 DEF EarlierModelTable
    <3>3. ModelTable(m)[k].name[1] # "custom"
      BY <3>1, NamesOfModelTable
    <3>4. ModelTable(m)[k].name \notin names
      BY <3>3, <1>3
    <3> QED
      BY <3>2, <3>4 DEF Altered
  <2>2. CASE ~(k <= 8)
    <3>1. PICK j \in 1..Len(rel) : k = 8 + j
      <4>1. k - 8 \in 1..Len(rel) /\ k = 8 + (k - 8)
        BY <1>1, <1>5, <2>2
      <4> QED
        BY <4>1
    <3>2. columns[k] = ModelTable(m)[8 + j] \/ columns[k] = NotNullable(ModelTable(m)[8 + j])
      BY <3>1 DEF EarlierModelTable
    <3>3. columns[k].name = ColumnPrefixed(rel[j])
      BY <3>2, NamesOfModelTable
    <3> QED
      BY <3>1, <3>3, <1>4, NamesOfModelTable DEF Altered
  <2> QED
    BY <2>1, <2>2
<1> QED
  BY <1>5, <1>6, <1>2

LEMMA MigratedIsConfigTable ==
    ASSUME NEW columns \in {ConfigTable("ceramic_models"), Front(ConfigTable("ceramic_models"))}
    PROVE  IF \A k \in DOMAIN columns : columns[k].name # <<"indices">>
           THEN Append(columns, Indices) = ConfigTable("ceramic_models")
           ELSE columns = ConfigTable("ceramic_models")
<1> DEFINE C == ConfigTable("ceramic_models")
           S == {C[k] : k \in 1..7}
<1>1. C \in Seq(S) /\ Len(C) = 7 /\ C[7] = Indices
  BY DEF ConfigTable
<1>2. C[7].name = <<"indices">>
  BY <1>1 DEF Indices, Nullable, PlainColumn, Column
<1>3. \A k \in 1..6 : C[k].name # <<"indices">>
  BY DEF ConfigTable, CreatedAt, UpdatedAt, Primary, TextColumn, PlainColumn, NotNullable, Default, Column
<1> HIDE DEF C
<1> DEFINE D == Front(C)
<1>4. D \in Seq(S) /\ Len(D) = 6 /\ \A k \in 1..6 : D[k] = C[k]
  BY <1>1 DEF Front
<1>5. Append(D, Indices) = C
  <2> HIDE DEF D
  <2>0. /\ Indices \in S /\ Len(D) + 1 = 7 /\ 1..Len(D) = 1..6
    BY <1>1, <1>4
  <2>1. /\ Append(D, Indices) \in Seq(S) /\ Len(Append(D, Indices)) = 7
        /\ \A k \in 1..6 : Append(D, Indices)[k] = C[k]
        /\ Append(D, Indices)[7] = C[7]
    <3>1. /\ Append(D, Indices) \in Seq(S) /\ Len(Append(D, Indices)) = Len(D) + 1
          /\ \A k \in 1..Len(D) : Append(D, Indices)[k] = D[k]
          /\ Append(D, Indices)[Len(D) + 1] = Indices
      <4>1. Indices \in S /\ D \in Seq(S)
        BY <2>0, <1>4
      <4> HIDE DEF S
      <4> QED
        BY <4>1, AppendProperties
    <3> QED
      BY <2>0, <1>1, <1>4, <3>1
  <2>2. \A k \in 1..7 : Append(D, Indices)[k] = C[k]
    BY <2>1
  <2> QED
    BY <1>1, <2>1, <2>2, SeqEqual
<1>6. CASE columns = C
  <2>1. 7 \in DOMAIN columns /\ columns[7].name = <<"indices">>
    BY <1>1, <1>2, <1>6
  <2> QED
    BY <1>6, <2>1 DEF C
<1>7. CASE columns = D
  <2>1. DOMAIN columns = 1..6
    BY <1>4, <1>7
  <2>2. \A k \in DOMAIN columns : columns[k].name # <<"indices">>
    BY <1>3, <1>4, <1>7, <2>1
  <2> QED
    BY <1>5, <1>7, <2>2 DEF C
<1> QED
  BY <1>6, <1>7 DEF C

LEMMA SameDatabase ==
    ASSUME database' = database
    PROVE  /\ \A t : ConfigTable(t)' = ConfigTable(t) /\ ConfigStructure(t)' = ConfigStructure(t)
           /\ \A m : /\ ModelTable(m)' = ModelTable(m) /\ MidStructure(m)' = MidStructure(m)
                     /\ EarlierModelTable(m)' = EarlierModelTable(m)
<1>1. \A n, l : Primary(n, l)' = Primary(n, l)
  BY DEF Primary
<1>2. ASSUME NEW t PROVE ConfigTable(t)' = ConfigTable(t)
  BY <1>1 DEF ConfigTable
<1>3. ASSUME NEW m PROVE ModelTable(m)' = ModelTable(m)
  BY <1>1 DEF ModelTable, PostgresModelTable, SqliteModelTable
<1>4. ASSUME NEW m PROVE MidStructure(m)' = MidStructure(m)
  BY DEF MidStructure, CommonTable
<1>5. ASSUME NEW m PROVE EarlierModelTable(m)' = EarlierModelTable(m)
  BY <1>3 DEF EarlierModelTable
<1> QED
  BY <1>2, <1>3, <1>4, <1>5 

LEMMA FieldsIndexNamesAreOther ==
    ASSUME NEW index \in Seq(STRING \X STRING)
    PROVE  FieldsIndexName(index) \notin DefaultIndices
<1> DEFINE rest == [k \in DOMAIN index |-> index[k][1]]
           S == STRING \cup {"fields"}
           name == <<"fields">> \o rest
<1>1. rest \in Seq(S)
  OBVIOUS
<1>2. <<"fields">> \in Seq(S) /\ Len(<<"fields">>) = 1 /\ <<"fields">>[1] = "fields"
  OBVIOUS
<1>3. Len(rest) \in Nat
  BY <1>1
<1> HIDE DEF rest
<1>4. name[1] = "fields"
  BY <1>1, <1>2, <1>3, ConcatProperties
<1> HIDE DEF name
<1>5. name \notin DefaultIndices
  BY <1>4 DEF DefaultIndices
<1> QED
  BY <1>5 DEF name, rest, FieldsIndexName

-----------------------------------------------------------------------------
SqlTables == DOMAIN sql
ModelTables == DOMAIN TableModels \cap SqlTables
Statements == {"look", "rows", "default indices", "fields", "done"}

TablesType ==
    /\ SqlTables \subseteq AllTables
    /\ \A t \in SqlTables : DOMAIN sql[t] = {"columns", "indices", "rows"}
    /\ at \in [AllTables -> Statements]
    /\ phase \in {"down", "config", "mid", "up", "refused", "failed"}
    /\ marked \subseteq ModelTables /\ todo \subseteq DOMAIN TableModels

(* Where a node can be, and which statements it has left when it fails.    *)
StatementsInOrder ==
    /\ \A t \in AllTables :
          /\ at[t] = "rows" => t = "ceramic_config" /\ t \in SqlTables /\ phase \in {"config", "down"}
          /\ at[t] \in {"default indices", "fields"} =>
                 t \in ModelTables /\ t \in todo /\ phase \in {"mid", "failed", "down"}
          /\ phase = "down" /\ Unfinished(t) => t \in interrupted
    /\ phase = "config" => \A m \in DOMAIN TableModels : at[m] = "done"
    /\ phase \in {"mid", "up", "refused"} => \A t \in ConfigTables : at[t] = "done"
    /\ phase = "mid" /\ todo \subseteq marked => todo = marked
    /\ (phase = "mid" /\ ~(todo \subseteq marked)) \/ phase = "refused" =>
           \E m \in DOMAIN TableModels : todo = {m} /\ m \notin marked

ColumnsAreMade ==
    /\ \A m \in ModelTables :
          DistinctRelations(m) /\ sql[m].columns \in {ModelTable(m), EarlierModelTable(m)}
    /\ \A t \in ConfigTables \cap SqlTables :
          sql[t].columns \in {ConfigTable(t)} \cup
                             {Front(ConfigTable(u)) : u \in {"ceramic_models"} \cap {t}}

(* What has been looked at since the start is as this release makes it.    *)
LookedAtIsMigrated ==
    /\ phase \in {"config", "mid", "up", "refused"} =>
           \A t \in ConfigTables : at[t] # "look" => t \in SqlTables /\ sql[t].columns = ConfigTable(t)
    /\ phase = "mid" =>
           \A m \in todo : at[m] # "look" => m \in SqlTables /\ sql[m].columns = ModelTable(m)

(* A table has its indices and its rows, unless the statements for them    *)
(* are to come or a crash came before them.                                *)
NamesOf(m, d) == {FieldsIndexName(TableModels[m].indices[i]) : i \in 1..d}
PartOfIndices(m) ==
    \E d \in 0..Len(TableModels[m].indices) :
        /\ sql[m].indices = DefaultIndices \cup NamesOf(m, d)
        /\ IsFiniteSet(NamesOf(m, d)) /\ Cardinality(NamesOf(m, d)) = d
IndicesAreMade ==
    \A m \in ModelTables :
        \/ m \in interrupted \/ at[m] = "default indices"
        \/ at[m] = "fields" /\ PartOfIndices(m)
        \/ HasMidIndices(m)
RowsAreMade ==
    "ceramic_config" \in SqlTables =>
        LET rows == sql["ceramic_config"].rows
        IN  /\ \E S : rows \in Seq(S)
            /\ rows = <<>> => at["ceramic_config"] = "rows" \/ "ceramic_config" \in interrupted

TableIsComplete(m) ==
    /\ sql[m].columns = MidStructure(m)
    /\ DefaultIndices \cup FieldIndices(m) \subseteq sql[m].indices
MarkedAreComplete ==
    phase \in {"up", "refused"} \/ (phase = "mid" /\ ~(todo \subseteq marked)) =>
        \A m \in marked : TableIsComplete(m)

TablesInv ==
    /\ TablesType /\ StatementsInOrder /\ ColumnsAreMade /\ LookedAtIsMigrated
    /\ IndicesAreMade /\ RowsAreMade /\ MarkedAreComplete /\ TablesCanBeUsed

-----------------------------------------------------------------------------
LEMMA PutIs ==
    ASSUME NEW t, NEW table, Put(t, table)
    PROVE  /\ SqlTables' = SqlTables \cup {t} /\ sql'[t] = table
           /\ \A x \in SqlTables : x # t => sql'[x] = sql[x]
  BY DEF Put, SqlTables

LEMMA InitTablesInv == InitTables => TablesInv
<1> SUFFICES ASSUME InitTables PROVE TablesInv
  OBVIOUS
<1>1. PICK d \in Databases :
          /\ database = d.db /\ marked = d.marked /\ network = d.network
          /\ sql = [t \in d.tables |-> Earlier(t, d.network)]
  BY DEF InitTables
<1>2. phase = "down" /\ todo = {} /\ at = [t \in AllTables |-> "done"] /\ interrupted = {}
  BY DEF InitTables
<1>3. /\ d.tables \subseteq AllTables /\ d.marked \subseteq d.tables \cap DOMAIN TableModels
      /\ \A m \in d.tables \cap DOMAIN TableModels :
             DistinctRelations(m) /\ TableModels[m].indices = <<>>
      /\ ConfigTables \cap DOMAIN TableModels = {}
  BY TablesAssumption
<1>4. /\ SqlTables = d.tables
      /\ \A t \in SqlTables :
            /\ DOMAIN sql[t] = {"columns", "indices", "rows"}
            /\ sql[t].columns = IF t = "ceramic_models" THEN Front(ConfigTable(t))
                                ELSE IF t \in ConfigTables THEN ConfigTable(t)
                                ELSE EarlierModelTable(t)
            /\ sql[t].indices = IF t \in ConfigTables THEN {} ELSE DefaultIndices
            /\ sql[t].rows = IF t = "ceramic_config" THEN <<d.network>> ELSE <<>>
  BY <1>1 DEF SqlTables, Earlier, EarlierModelTable
<1>5. TablesType
  BY <1>1, <1>2, <1>3, <1>4 DEF TablesType, ModelTables, Statements
<1>6. StatementsInOrder
  BY <1>2 DEF StatementsInOrder, Unfinished
<1>7. ColumnsAreMade
  <2>1. ASSUME NEW m \in ModelTables
        PROVE  DistinctRelations(m) /\ sql[m].columns \in {ModelTable(m), EarlierModelTable(m)}
    BY <1>3, <1>4 DEF ModelTables, ConfigTables
  <2>2. ASSUME NEW t \in ConfigTables \cap SqlTables
        PROVE  sql[t].columns \in {ConfigTable(t)} \cup
                             {Front(ConfigTable(u)) : u \in {"ceramic_models"} \cap {t}}
    BY <1>4
  <2> QED
    BY <2>1, <2>2 DEF ColumnsAreMade
<1>8. LookedAtIsMigrated
  BY <1>2 DEF LookedAtIsMigrated
<1>9. IndicesAreMade
  <2> SUFFICES ASSUME NEW m \in ModelTables PROVE HasMidIndices(m)
    BY DEF IndicesAreMade
  <2>1. sql[m].indices = DefaultIndices
    BY <1>3, <1>4 DEF ModelTables
  <2>2. FieldIndices(m) = {}
    BY <1>3, <1>4 DEF FieldIndices, ModelTables, ToSet
  <2> QED
    BY <2>1, <2>2 DEF HasMidIndices, MidIndices
<1>10. RowsAreMade
  <2>1. "ceramic_config" \in SqlTables => sql["ceramic_config"].rows = <<d.network>>
    BY <1>4
  <2>2. <<d.network>> \in Seq({d.network}) /\ <<d.network>> # <<>>
    OBVIOUS
  <2> QED
    BY <2>1, <2>2 DEF RowsAreMade
<1>11. MarkedAreComplete /\ TablesCanBeUsed
  BY <1>2 DEF MarkedAreComplete, TablesCanBeUsed
<1> QED
  BY <1>5, <1>6, <1>7, <1>8, <1>9, <1>10, <1>11 DEF TablesInv

(* Steps that leave the tables as they are.                                *)
LEMMA SameTables ==
    ASSUME UNCHANGED <<database, sql>>
    PROVE  /\ SqlTables' = SqlTables /\ ModelTables' = ModelTables
           /\ \A t \in SqlTables : sql'[t] = sql[t]
  BY DEF SqlTables, ModelTables

LEMMA BeginStartStep ==
    ASSUME TablesInv, BeginStart
    PROVE  TablesInv'
<1>1. /\ phase = "down" /\ phase' = "config" /\ UNCHANGED <<database, sql, marked, todo, interrupted>>
      /\ at' = [t \in AllTables |-> IF t \in ConfigTables THEN "look" ELSE "done"]
  BY DEF BeginStart
<1>2. /\ SqlTables' = SqlTables /\ ModelTables' = ModelTables
      /\ \A t \in SqlTables : sql'[t] = sql[t]
  BY <1>1, SameTables
<1>3. TablesType'
  BY <1>1, <1>2 DEF TablesInv, TablesType, Statements
<1>4. StatementsInOrder'
  BY <1>1, <1>2, TablesAssumption DEF AllTables, StatementsInOrder, Unfinished
<1>5. ColumnsAreMade'
  BY <1>1, <1>2, SameDatabase DEF TablesInv, ColumnsAreMade
<1>6. LookedAtIsMigrated'
  BY <1>1, <1>2 DEF LookedAtIsMigrated, AllTables
<1>7. IndicesAreMade'
  <2> SUFFICES ASSUME NEW m \in ModelTables PROVE m \in interrupted \/ HasMidIndices(m)'
    BY <1>1, <1>2 DEF IndicesAreMade
  <2>1. m \in interrupted \/ HasMidIndices(m)
    BY <1>1 DEF TablesInv, IndicesAreMade, StatementsInOrder, TablesType, ModelTables, Unfinished, AllTables
  <2> QED
    BY <1>1, <2>1 DEF HasMidIndices
<1>8. RowsAreMade'
  BY <1>1, <1>2 DEF TablesInv, TablesType, StatementsInOrder, Unfinished, RowsAreMade
<1>9. MarkedAreComplete' /\ TablesCanBeUsed'
  BY <1>1 DEF MarkedAreComplete, TablesCanBeUsed
<1> QED
  BY <1>3, <1>4, <1>5, <1>6, <1>7, <1>8, <1>9 DEF TablesInv

LEMMA EndsStep ==
    ASSUME TablesInv, Ends
    PROVE  TablesInv'
<1>1. /\ phase # "down" /\ phase' = "down" /\ UNCHANGED <<database, sql, marked, todo, at>>
      /\ interrupted' = interrupted \cup {t \in AllTables : Unfinished(t)}
  BY DEF Ends
<1>2. /\ SqlTables' = SqlTables /\ ModelTables' = ModelTables
      /\ \A t \in SqlTables : sql'[t] = sql[t]
  BY <1>1, SameTables
<1>3. TablesType'
  BY <1>1, <1>2 DEF TablesInv, TablesType
<1>4. StatementsInOrder'
  BY <1>1, <1>2 DEF TablesInv, StatementsInOrder, Unfinished
<1>5. ColumnsAreMade'
  BY <1>1, <1>2, SameDatabase DEF TablesInv, ColumnsAreMade
<1>6. LookedAtIsMigrated'
  BY <1>1 DEF LookedAtIsMigrated
<1>7. IndicesAreMade'
  BY <1>1, <1>2 DEF TablesInv, IndicesAreMade, HasMidIndices, PartOfIndices
<1>8. RowsAreMade'
  BY <1>1, <1>2 DEF TablesInv, RowsAreMade
<1>9. MarkedAreComplete' /\ TablesCanBeUsed'
  BY <1>1 DEF MarkedAreComplete, TablesCanBeUsed
<1> QED
  BY <1>3, <1>4, <1>5, <1>6, <1>7, <1>8, <1>9 DEF TablesInv

LEMMA ConfigDoneStep ==
    ASSUME TablesInv, ConfigDone
    PROVE  TablesInv'
<1>1. /\ phase = "config" /\ phase' = "mid" /\ todo' = marked
      /\ \A t \in ConfigTables : at[t] = "done"
      /\ at' = [t \in AllTables |-> IF t \in marked THEN "look" ELSE "done"]
      /\ UNCHANGED <<database, sql, marked, network, interrupted>>
  BY DEF ConfigDone
<1>2. /\ SqlTables' = SqlTables /\ ModelTables' = ModelTables
      /\ \A t \in SqlTables : sql'[t] = sql[t]
  BY <1>1, SameTables
<1>3. TablesType'
  BY <1>1, <1>2 DEF TablesInv, TablesType, Statements, ModelTables
<1>4. StatementsInOrder'
  BY <1>1, <1>2, TablesAssumption DEF AllTables, StatementsInOrder, Unfinished, TablesInv, TablesType, ModelTables
<1>5. ColumnsAreMade'
  BY <1>1, <1>2, SameDatabase DEF TablesInv, ColumnsAreMade
<1>6. LookedAtIsMigrated'
  <2>1. ASSUME NEW t \in ConfigTables PROVE t \in SqlTables' /\ sql'[t].columns = ConfigTable(t)'
    BY <1>1, <1>2, SameDatabase DEF TablesInv, LookedAtIsMigrated
  <2>2. \A m \in todo' : at'[m] = "look"
    BY <1>1 DEF TablesInv, TablesType, ModelTables, AllTables
  <2> QED
    BY <2>1, <2>2 DEF LookedAtIsMigrated
<1>7. IndicesAreMade'
  <2> SUFFICES ASSUME NEW m \in ModelTables PROVE m \in interrupted \/ HasMidIndices(m)'
    BY <1>1, <1>2 DEF IndicesAreMade
  <2>1. m \in interrupted \/ HasMidIndices(m)
    BY <1>1 DEF TablesInv, IndicesAreMade, StatementsInOrder, TablesType, ModelTables, Unfinished, AllTables
  <2> QED
    BY <1>1, <2>1 DEF HasMidIndices
<1>8. RowsAreMade'
  BY <1>1, <1>2 DEF TablesInv, RowsAreMade, ConfigTables
<1>9. MarkedAreComplete' /\ TablesCanBeUsed'
  BY <1>1 DEF MarkedAreComplete, TablesCanBeUsed
<1> QED
  BY <1>3, <1>4, <1>5, <1>6, <1>7, <1>8, <1>9 DEF TablesInv

LEMMA BeginIndexModelStep ==
    ASSUME TablesInv, NEW n \in DOMAIN TableModels, BeginIndexModel(n)
    PROVE  TablesInv'
<1>1. /\ phase \in {"up", "refused"} /\ n \notin marked /\ phase' = "mid" /\ todo' = {n}
      /\ at' = [at EXCEPT ![n] = "look"]
      /\ UNCHANGED <<database, sql, marked, network, interrupted>>
  BY DEF BeginIndexModel
<1>2. /\ SqlTables' = SqlTables /\ ModelTables' = ModelTables
      /\ \A t \in SqlTables : sql'[t] = sql[t]
  BY <1>1, SameTables
<1>3. TablesType'
  BY <1>1, <1>2 DEF TablesInv, TablesType, Statements
<1>4. StatementsInOrder'
  BY <1>1, <1>2, TablesAssumption DEF AllTables, StatementsInOrder, Unfinished, TablesInv, TablesType
<1>5. ColumnsAreMade'
  BY <1>1, <1>2, SameDatabase DEF TablesInv, ColumnsAreMade
<1>6. LookedAtIsMigrated'
  <2>1. ASSUME NEW t \in ConfigTables PROVE t \in SqlTables' /\ sql'[t].columns = ConfigTable(t)'
    BY <1>1, <1>2, SameDatabase DEF TablesInv, LookedAtIsMigrated, StatementsInOrder
  <2>2. \A m \in todo' : at'[m] = "look"
    BY <1>1 DEF TablesInv, TablesType, AllTables
  <2> QED
    BY <2>1, <2>2 DEF LookedAtIsMigrated
<1>7. IndicesAreMade'
  <2> SUFFICES ASSUME NEW m \in ModelTables PROVE m \in interrupted \/ HasMidIndices(m)'
    BY <1>1, <1>2 DEF IndicesAreMade
  <2>1. m \in interrupted \/ HasMidIndices(m)
    BY <1>1 DEF TablesInv, IndicesAreMade, StatementsInOrder, TablesType, ModelTables, Unfinished, AllTables
  <2> QED
    BY <1>1, <2>1 DEF HasMidIndices
<1>8. RowsAreMade'
  BY <1>1, <1>2, TablesAssumption DEF TablesInv, RowsAreMade, ConfigTables, TablesType, AllTables
<1>9. MarkedAreComplete'
  BY <1>1, SameDatabase DEF TablesInv, MarkedAreComplete, TableIsComplete
<1>10. TablesCanBeUsed'
  BY <1>1 DEF TablesCanBeUsed
<1> QED
  BY <1>3, <1>4, <1>5, <1>6, <1>7, <1>8, <1>9, <1>10 DEF TablesInv

(* Config tables.                                                          *)
LEMMA CreateConfigTableStep ==
    ASSUME TablesInv, NEW t \in ConfigTables, CreateConfigTable(t)
    PROVE  TablesInv'
<1>1. /\ phase \in {"config", "mid"} /\ at[t] = "look" /\ t \notin SqlTables
      /\ Put(t, [columns |-> ConfigTable(t), indices |-> {}, rows |-> <<>>])
      /\ at' = [at EXCEPT ![t] = IF t = "ceramic_config" THEN "rows" ELSE "done"]
      /\ UNCHANGED <<database, marked, phase, network, todo, interrupted>>
  BY DEF CreateConfigTable, Statement, Now, SqlTables
<1>2. phase = "config"
  BY <1>1 DEF TablesInv, StatementsInOrder
<1>3. t \in AllTables /\ t \notin DOMAIN TableModels
  BY TablesAssumption DEF AllTables
<1>4. /\ SqlTables' = SqlTables \cup {t}
      /\ sql'[t] = [columns |-> ConfigTable(t), indices |-> {}, rows |-> <<>>]
      /\ \A x \in SqlTables : x # t => sql'[x] = sql[x]
  BY <1>1, PutIs
<1>5. ModelTables' = ModelTables
  BY <1>3, <1>4 DEF ModelTables
<1>a. /\ at' \in [AllTables -> Statements] /\ \A u \in AllTables : u # t => at'[u] = at[u]
      /\ at'[t] = "done" \/ (at'[t] = "rows" /\ t = "ceramic_config")
  <2>1. at \in [AllTables -> Statements]
    BY DEF TablesInv, TablesType
  <2>2. CASE t = "ceramic_config"
    BY <2>1, <2>2, <1>1, <1>3 DEF Statements
  <2>3. CASE t # "ceramic_config"
    BY <2>1, <2>3, <1>1, <1>3 DEF Statements
  <2> QED
    BY <2>2, <2>3
<1>6. TablesType'
  BY <1>1, <1>a, <1>3, <1>4, <1>5 DEF TablesInv, TablesType
<1>7. StatementsInOrder'
  <2>1. \A u \in AllTables : at[u] \notin {"default indices", "fields"}
    BY <1>2 DEF TablesInv, StatementsInOrder
  <2>2. /\ \A u \in AllTables : at'[u] = "rows" => u = "ceramic_config" /\ u \in SqlTables'
        /\ \A u \in AllTables : at'[u] \notin {"default indices", "fields"}
    BY <2>1, <1>a, <1>4 DEF TablesInv, StatementsInOrder
  <2>3. \A m \in DOMAIN TableModels : at'[m] = "done"
    BY <1>a, <1>2, <1>3 DEF TablesInv, StatementsInOrder, AllTables
  <2> QED
    BY <2>2, <2>3, <1>1, <1>2 DEF StatementsInOrder
<1>8. ColumnsAreMade'
  BY <1>1, <1>3, <1>4, <1>5, SameDatabase DEF TablesInv, ColumnsAreMade, ModelTables
<1>9. LookedAtIsMigrated'
  <2>1. ASSUME NEW u \in ConfigTables, at'[u] # "look"
        PROVE  u \in SqlTables' /\ sql'[u].columns = ConfigTable(u)'
    <3>1. CASE u = t
      BY <3>1, <1>1, <1>4, SameDatabase
    <3>2. CASE u # t
      BY <3>2, <2>1, <1>1, <1>2, <1>3, <1>4, SameDatabase DEF TablesInv, TablesType, LookedAtIsMigrated
    <3> QED
      BY <3>1, <3>2
  <2> QED
    BY <2>1, <1>1, <1>2 DEF LookedAtIsMigrated
<1>10. IndicesAreMade'
  <2> SUFFICES ASSUME NEW m \in ModelTables, m \notin interrupted PROVE HasMidIndices(m)'
    BY <1>1, <1>5 DEF IndicesAreMade
  <2>1. HasMidIndices(m)
    BY <1>2 DEF TablesInv, IndicesAreMade, StatementsInOrder, ModelTables
  <2>2. m \in SqlTables /\ m # t
    BY <1>3 DEF ModelTables
  <2> QED
    BY <1>4, <2>1, <2>2 DEF HasMidIndices
<1>11. RowsAreMade'
  <2>1. CASE t = "ceramic_config"
    <3>1. sql'["ceramic_config"].rows = <<>> /\ at'["ceramic_config"] = "rows"
      BY <2>1, <1>1, <1>3, <1>4 DEF TablesInv, TablesType
    <3>2. <<>> \in Seq({})
      OBVIOUS
    <3> QED
      BY <3>1, <3>2 DEF RowsAreMade
  <2>2. CASE t # "ceramic_config"
    BY <2>2, <1>1, <1>3, <1>4 DEF TablesInv, TablesType, RowsAreMade
  <2> QED
    BY <2>1, <2>2
<1>12. MarkedAreComplete' /\ TablesCanBeUsed'
  BY <1>1, <1>2 DEF MarkedAreComplete, TablesCanBeUsed
<1> QED
  BY <1>6, <1>7, <1>8, <1>9, <1>10, <1>11, <1>12 DEF TablesInv

LEMMA InsertConfigStep ==
    ASSUME TablesInv, InsertConfig
    PROVE  TablesInv'
<1> DEFINE t == "ceramic_config"
           rows == sql[t].rows
<1>1. PICK new :
         /\ phase \in {"config", "mid"} /\ at[t] = "rows"
         /\ Put(t, [sql[t] EXCEPT !.rows = Append(@, new)])
         /\ at' = [at EXCEPT ![t] = IF Len(rows) = 2 THEN "done" ELSE "rows"]
         /\ UNCHANGED <<database, marked, phase, network, todo, interrupted>>
  BY DEF InsertConfig, Statement, Now
<1>2. t \in ConfigTables /\ t \in AllTables /\ t \notin DOMAIN TableModels
  BY TablesAssumption DEF AllTables, ConfigTables
<1>3. phase = "config" /\ t \in SqlTables
  BY <1>1, <1>2 DEF TablesInv, StatementsInOrder
<1>4. /\ SqlTables' = SqlTables
      /\ sql'[t] = [sql[t] EXCEPT !.rows = Append(@, new)]
      /\ \A x \in SqlTables : x # t => sql'[x] = sql[x]
  <2> DEFINE table == [sql[t] EXCEPT !.rows = Append(@, new)]
  <2>1. Put(t, table)
    BY <1>1
  <2> HIDE DEF table
  <2>2. SqlTables' = SqlTables \cup {t} /\ sql'[t] = table /\ \A x \in SqlTables : x # t => sql'[x] = sql[x]
    BY <2>1, PutIs
  <2> QED
    BY <2>2, <1>3 DEF table
<1>5. /\ DOMAIN sql'[t] = {"columns", "indices", "rows"}
      /\ sql'[t].columns = sql[t].columns /\ sql'[t].rows = Append(rows, new)
  BY <1>3, <1>4 DEF TablesInv, TablesType
<1>6. ModelTables' = ModelTables
  BY <1>4 DEF ModelTables
<1>a. /\ at' \in [AllTables -> Statements] /\ at'[t] \in {"rows", "done"}
      /\ \A u \in AllTables : u # t => at'[u] = at[u]
  BY <1>1, <1>2 DEF TablesInv, TablesType, Statements
<1>7. TablesType'
  BY <1>1, <1>a, <1>4, <1>5, <1>6 DEF TablesInv, TablesType
<1>8. StatementsInOrder'
  <2>1. \A u \in AllTables : at[u] \notin {"default indices", "fields"}
    BY <1>3 DEF TablesInv, StatementsInOrder
  <2>2. /\ \A u \in AllTables : at'[u] = "rows" => u = "ceramic_config" /\ u \in SqlTables'
        /\ \A u \in AllTables : at'[u] \notin {"default indices", "fields"}
    BY <2>1, <1>a, <1>3, <1>4 DEF TablesInv, StatementsInOrder
  <2>3. \A m \in DOMAIN TableModels : at'[m] = "done"
    BY <1>a, <1>2, <1>3 DEF TablesInv, StatementsInOrder, AllTables
  <2> QED
    BY <2>2, <2>3, <1>1, <1>3 DEF StatementsInOrder
<1>9. ColumnsAreMade'
  BY <1>1, <1>2, <1>4, <1>5, <1>6, SameDatabase DEF TablesInv, ColumnsAreMade, ModelTables
<1>10. LookedAtIsMigrated'
  <2>1. ASSUME NEW u \in ConfigTables, at'[u] # "look"
        PROVE  u \in SqlTables' /\ sql'[u].columns = ConfigTable(u)'
    <3>1. u \in SqlTables /\ sql[u].columns = ConfigTable(u)
      BY <2>1, <1>1, <1>2, <1>3 DEF TablesInv, TablesType, LookedAtIsMigrated, AllTables
    <3> QED
      BY <3>1, <1>1, <1>4, <1>5, SameDatabase
  <2> QED
    BY <2>1, <1>1, <1>3 DEF LookedAtIsMigrated
<1>11. IndicesAreMade'
  <2> SUFFICES ASSUME NEW m \in ModelTables, m \notin interrupted PROVE HasMidIndices(m)'
    BY <1>1, <1>6 DEF IndicesAreMade
  <2>1. HasMidIndices(m)
    BY <1>3 DEF TablesInv, IndicesAreMade, StatementsInOrder, ModelTables
  <2>2. m \in SqlTables /\ m # t
    BY <1>2 DEF ModelTables
  <2> QED
    BY <1>4, <2>1, <2>2 DEF HasMidIndices
<1>12. RowsAreMade'
  <2>1. PICK S : rows \in Seq(S)
    BY <1>3 DEF TablesInv, RowsAreMade
  <2>2. rows \in Seq(S \cup {new}) /\ new \in S \cup {new}
    BY <2>1
  <2>3. Append(rows, new) \in Seq(S \cup {new}) /\ Append(rows, new) # <<>>
    BY <2>2, AppendProperties
  <2> QED
    BY <2>3, <1>5 DEF RowsAreMade
<1>13. MarkedAreComplete' /\ TablesCanBeUsed'
  BY <1>1, <1>3 DEF MarkedAreComplete, TablesCanBeUsed
<1> QED
  BY <1>7, <1>8, <1>9, <1>10, <1>11, <1>12, <1>13 DEF TablesInv

LEMMA MigrateConfigTableStep ==
    ASSUME TablesInv, NEW t \in ConfigTables, MigrateConfigTable(t)
    PROVE  TablesInv'
<1> DEFINE unready == t = "ceramic_config" /\ (sql[t].rows = <<>> \/ Head(sql[t].rows) # network)
           old == sql[t].columns
           lacking == t = "ceramic_models" /\ \A k \in DOMAIN old : old[k].name # <<"indices">>
<1>1. /\ phase \in {"config", "mid"} /\ at[t] = "look" /\ t \in SqlTables
      /\ lacking => Put(t, [sql[t] EXCEPT !.columns = Append(@, Indices)])
      /\ ~lacking => UNCHANGED sql
      /\ unready => Failed /\ UNCHANGED at
      /\ ~unready => at' = [at EXCEPT ![t] = "done"] /\ UNCHANGED phase
      /\ UNCHANGED <<database, marked, network, todo, interrupted>>
  BY DEF MigrateConfigTable, Statement, Now, SqlTables
<1>2. phase = "config"
  BY <1>1 DEF TablesInv, StatementsInOrder
<1>3. t \in AllTables /\ t \notin DOMAIN TableModels
  BY TablesAssumption DEF AllTables
<1>4. /\ SqlTables' = SqlTables /\ \A x \in SqlTables : x # t => sql'[x] = sql[x]
      /\ DOMAIN sql'[t] = {"columns", "indices", "rows"} /\ sql'[t].rows = sql[t].rows
      /\ lacking => sql'[t].columns = Append(old, Indices)
      /\ ~lacking => sql'[t].columns = old
  <2>1. CASE lacking
    <3> DEFINE table == [sql[t] EXCEPT !.columns = Append(@, Indices)]
    <3>1. Put(t, table)
      BY <2>1, <1>1
    <3> HIDE DEF table
    <3>2. /\ SqlTables' = SqlTables \cup {t} /\ sql'[t] = table
          /\ \A x \in SqlTables : x # t => sql'[x] = sql[x]
      BY <3>1, PutIs
    <3> QED
      BY <2>1, <3>2, <1>1 DEF TablesInv, TablesType, table
  <2>2. CASE ~lacking
    BY <2>2, <1>1 DEF TablesInv, TablesType, SqlTables
  <2> QED
    BY <2>1, <2>2
<1>5. sql'[t].columns = ConfigTable(t)
  <2>1. CASE t = "ceramic_models"
    <3>1. old \in {ConfigTable("ceramic_models"), Front(ConfigTable("ceramic_models"))}
      BY <2>1, <1>1 DEF TablesInv, ColumnsAreMade
    <3>2. IF \A k \in DOMAIN old : old[k].name # <<"indices">>
          THEN Append(old, Indices) = ConfigTable("ceramic_models")
          ELSE old = ConfigTable("ceramic_models")
      BY <3>1, MigratedIsConfigTable
    <3> QED
      BY <2>1, <3>2, <1>4
  <2>2. CASE t # "ceramic_models"
    BY <2>2, <1>1, <1>4 DEF TablesInv, ColumnsAreMade
  <2> QED
    BY <2>1, <2>2
<1>6. ModelTables' = ModelTables /\ phase' \in {"config", "failed"}
  BY <1>1, <1>2, <1>4 DEF ModelTables, Failed
<1> HIDE DEF lacking, old, unready
<1>a. /\ at' \in [AllTables -> Statements] /\ at'[t] \in {"look", "done"}
      /\ \A u \in AllTables : u # t => at'[u] = at[u]
      /\ phase' = "config" => at'[t] = "done"
  <2>1. at \in [AllTables -> Statements]
    BY DEF TablesInv, TablesType
  <2>2. CASE unready
    BY <2>1, <2>2, <1>1, <1>2 DEF Failed
  <2>3. CASE ~unready
    BY <2>1, <2>3, <1>1, <1>3 DEF Statements
  <2> QED
    BY <2>2, <2>3
<1>7. TablesType'
  BY <1>1, <1>a, <1>4, <1>6 DEF TablesInv, TablesType
<1>8. StatementsInOrder'
  <2>1. \A u \in AllTables : at[u] \notin {"default indices", "fields"}
    BY <1>2 DEF TablesInv, StatementsInOrder
  <2>2. /\ \A u \in AllTables : at'[u] = "rows" => u = "ceramic_config" /\ u \in SqlTables'
        /\ \A u \in AllTables : at'[u] \notin {"default indices", "fields"}
    BY <2>1, <1>a, <1>4 DEF TablesInv, StatementsInOrder
  <2>3. \A m \in DOMAIN TableModels : at'[m] = "done"
    BY <1>a, <1>2, <1>3 DEF TablesInv, StatementsInOrder, AllTables
  <2>4. unready => phase' = "failed" /\ t = "ceramic_config"
    BY <1>1, <1>2 DEF Failed, unready
  <2>5. \A u \in AllTables : at'[u] = "rows" => phase' = "config"
    BY <2>2, <2>4, <1>1, <1>2, <1>a
  <2> QED
    BY <2>2, <2>3, <2>5, <1>1, <1>6 DEF StatementsInOrder
<1>9. ColumnsAreMade'
  BY <1>1, <1>3, <1>4, <1>5, <1>6, SameDatabase DEF TablesInv, ColumnsAreMade, ModelTables
<1>10. LookedAtIsMigrated'
  <2>1. ASSUME NEW u \in ConfigTables, at'[u] # "look"
        PROVE  u \in SqlTables' /\ sql'[u].columns = ConfigTable(u)'
    <3>1. CASE u = t
      BY <3>1, <1>1, <1>4, <1>5, SameDatabase
    <3>2. CASE u # t
      <4>1. u \in SqlTables /\ sql[u].columns = ConfigTable(u)
        BY <3>2, <2>1, <1>a, <1>2 DEF TablesInv, LookedAtIsMigrated, AllTables
      <4> QED
        BY <4>1, <3>2, <1>1, <1>4, SameDatabase
    <3> QED
      BY <3>1, <3>2
  <2> QED
    BY <2>1, <1>1, <1>6 DEF LookedAtIsMigrated
<1>11. IndicesAreMade'
  <2> SUFFICES ASSUME NEW m \in ModelTables, m \notin interrupted PROVE HasMidIndices(m)'
    BY <1>1, <1>6 DEF IndicesAreMade
  <2>1. HasMidIndices(m)
    BY <1>2 DEF TablesInv, IndicesAreMade, StatementsInOrder, ModelTables
  <2>2. m \in SqlTables /\ m # t
    BY <1>3 DEF ModelTables
  <2> QED
    BY <1>4, <2>1, <2>2 DEF HasMidIndices
<1>12. RowsAreMade'
  <2>1. "ceramic_config" \in SqlTables =>
            sql'["ceramic_config"].rows = sql["ceramic_config"].rows
    BY <1>1, <1>4
  <2>2. at["ceramic_config"] = "rows" => at'["ceramic_config"] = "rows"
    BY <1>a, <1>1 DEF AllTables, ConfigTables
  <2> QED
    BY <2>1, <2>2, <1>1, <1>4 DEF TablesInv, RowsAreMade
<1>13. MarkedAreComplete'
  BY <1>6 DEF MarkedAreComplete
<1>14. TablesCanBeUsed'
  <2> SUFFICES ASSUME unready
               PROVE  interrupted' # {} \/ sql'["ceramic_config"].rows[1] # network'
    BY <1>1, <1>2, <1>6 DEF TablesCanBeUsed
  <2> USE DEF unready
  <2>1. CASE sql[t].rows = <<>>
    BY <2>1, <1>1 DEF TablesInv, RowsAreMade
  <2>2. CASE sql[t].rows # <<>> /\ Head(sql[t].rows) # network
    <3>1. PICK S : sql[t].rows \in Seq(S)
      BY <1>1 DEF TablesInv, RowsAreMade
    <3>2. Head(sql[t].rows) = sql[t].rows[1]
      BY <3>1, <2>2
    <3> QED
      BY <2>2, <3>2, <1>1, <1>4
  <2> QED
    BY <2>1, <2>2
<1> QED
  BY <1>7, <1>8, <1>9, <1>10, <1>11, <1>12, <1>13, <1>14 DEF TablesInv

(* Tables of models: the statements that succeed, and those that fail.     *)
LEMMA ModelStatement ==
    ASSUME TablesInv, NEW m \in DOMAIN TableModels, phase \in {"config", "mid"},
           at[m] \in {"default indices", "fields"} \/ (at[m] = "look" /\ m \in todo)
    PROVE  /\ phase = "mid" /\ m \in todo /\ m \in AllTables /\ m \notin ConfigTables
           /\ \A t \in ConfigTables : at[t] = "done"
           /\ todo \subseteq marked => todo = marked
           /\ ~(todo \subseteq marked) => todo = {m} /\ m \notin marked
<1>1. m \in AllTables /\ m \notin ConfigTables
  BY TablesAssumption DEF AllTables
<1>2. phase = "mid" /\ m \in todo
  BY <1>1 DEF TablesInv, StatementsInOrder
<1>3. ~(todo \subseteq marked) => todo = {m} /\ m \notin marked
  <2> SUFFICES ASSUME ~(todo \subseteq marked) PROVE todo = {m} /\ m \notin marked
    OBVIOUS
  <2>1. PICK k \in DOMAIN TableModels : todo = {k} /\ k \notin marked
    BY <1>2 DEF TablesInv, StatementsInOrder
  <2> QED
    BY <2>1, <1>2
<1> QED
  BY <1>1, <1>2, <1>3 DEF TablesInv, StatementsInOrder

LEMMA SucceedsStep ==
    ASSUME TablesInv, NEW m \in DOMAIN TableModels, phase \in {"config", "mid"},
           at[m] \in {"default indices", "fields"} \/ (at[m] = "look" /\ m \in todo),
           NEW s \in {"default indices", "fields", "done"},
           at' = [at EXCEPT ![m] = s],
           UNCHANGED <<database, marked, phase, network, todo, interrupted>>,
           SqlTables' = SqlTables \cup {m},
           \A t \in SqlTables : t # m => sql'[t] = sql[t],
           DOMAIN sql'[m] = {"columns", "indices", "rows"},
           sql'[m].columns = ModelTable(m), DistinctRelations(m),
           \/ m \in interrupted \/ s = "default indices"
           \/ s = "fields" /\ PartOfIndices(m)'
           \/ HasMidIndices(m)'
    PROVE  TablesInv'
<1>1. /\ phase = "mid" /\ m \in todo /\ m \in AllTables /\ m \notin ConfigTables
      /\ \A t \in ConfigTables : at[t] = "done"
      /\ todo \subseteq marked => todo = marked
      /\ ~(todo \subseteq marked) => todo = {m} /\ m \notin marked
  BY ModelStatement
<1>2. ModelTables' = ModelTables \cup {m}
  BY DEF ModelTables
<1>3. /\ at' \in [AllTables -> Statements] /\ at'[m] = s
      /\ \A t \in AllTables : t # m => at'[t] = at[t]
  BY <1>1 DEF TablesInv, TablesType, Statements
<1>4. TablesType'
  BY <1>1, <1>2, <1>3 DEF TablesInv, TablesType
<1>5. StatementsInOrder'
  <2>1. \A t \in AllTables : at'[t] # "rows"
    BY <1>1, <1>3 DEF TablesInv, StatementsInOrder, AllTables, ConfigTables
  <2>2. \A t \in AllTables : at'[t] \in {"default indices", "fields"} => t \in ModelTables' /\ t \in todo
    BY <1>1, <1>2, <1>3 DEF TablesInv, StatementsInOrder
  <2>3. \A t \in ConfigTables : at'[t] = "done"
    BY <1>1, <1>3 DEF AllTables
  <2> QED
    BY <2>1, <2>2, <2>3, <1>1 DEF StatementsInOrder
<1>6. ColumnsAreMade'
  <2>1. ASSUME NEW k \in ModelTables'
        PROVE  DistinctRelations(k) /\ (sql[k].columns \in {ModelTable(k), EarlierModelTable(k)})'
    <3>1. CASE k = m
      BY <3>1, SameDatabase
    <3>2. CASE k # m
      <4>1. k \in ModelTables /\ sql'[k] = sql[k]
        BY <3>2, <1>2 DEF ModelTables
      <4> QED
        BY <4>1, SameDatabase DEF TablesInv, ColumnsAreMade
    <3> QED
      BY <3>1, <3>2
  <2>2. ASSUME NEW t \in ConfigTables \cap SqlTables'
        PROVE  t \in SqlTables /\ sql'[t] = sql[t]
    BY <1>1
  <2>3. ASSUME NEW t \in ConfigTables \cap SqlTables'
        PROVE  (sql[t].columns \in {ConfigTable(t)} \cup
                             {Front(ConfigTable(u)) : u \in {"ceramic_models"} \cap {t}})'
    <3>1. t \in SqlTables /\ sql'[t] = sql[t]
      BY <2>2
    <3>2. sql[t].columns \in {ConfigTable(t)} \cup
                             {Front(ConfigTable(u)) : u \in {"ceramic_models"} \cap {t}}
      BY <3>1 DEF TablesInv, ColumnsAreMade
    <3> QED
      BY <3>1, <3>2, SameDatabase
  <2> QED
    BY <2>1, <2>3 DEF ColumnsAreMade
<1>7. LookedAtIsMigrated'
  <2>1. ASSUME NEW t \in ConfigTables PROVE t \in SqlTables' /\ sql'[t].columns = ConfigTable(t)'
    BY <1>1, SameDatabase DEF TablesInv, LookedAtIsMigrated
  <2>2. ASSUME NEW k \in todo', at'[k] # "look"
        PROVE  k \in SqlTables' /\ sql'[k].columns = ModelTable(k)'
    <3>1. CASE k = m
      BY <3>1, SameDatabase
    <3>2. CASE k # m
      <4>1. k \in SqlTables /\ sql[k].columns = ModelTable(k)
        BY <2>2, <3>2, <1>1, <1>3 DEF TablesInv, TablesType, LookedAtIsMigrated, AllTables
      <4> QED
        BY <4>1, <3>2, SameDatabase
    <3> QED
      BY <3>1, <3>2
  <2> QED
    BY <2>1, <2>2 DEF LookedAtIsMigrated
<1>8. IndicesAreMade'
  <2> SUFFICES ASSUME NEW k \in ModelTables', k # m
               PROVE  \/ k \in interrupted \/ at[k] = "default indices"
                      \/ (at[k] = "fields" /\ PartOfIndices(k)')
                      \/ HasMidIndices(k)'
    BY <1>3 DEF IndicesAreMade, ModelTables, AllTables
  <2>1. k \in ModelTables /\ sql'[k] = sql[k]
    BY <1>2 DEF ModelTables
  <2> QED
    BY <2>1 DEF TablesInv, IndicesAreMade, PartOfIndices, HasMidIndices
<1>9. RowsAreMade'
  <2>1. m # "ceramic_config" /\ at'["ceramic_config"] = at["ceramic_config"]
    BY <1>1, <1>3 DEF ConfigTables, AllTables
  <2> QED
    BY <2>1 DEF TablesInv, RowsAreMade
<1>10. MarkedAreComplete'
  <2> SUFFICES ASSUME ~(todo \subseteq marked), NEW k \in marked PROVE TableIsComplete(k)'
    BY <1>1 DEF MarkedAreComplete
  <2>1. k # m /\ k \in SqlTables /\ TableIsComplete(k)
    BY <1>1 DEF TablesInv, TablesType, ModelTables, MarkedAreComplete
  <2> QED
    BY <2>1, SameDatabase DEF TableIsComplete
<1>11. TablesCanBeUsed'
  BY <1>1 DEF TablesCanBeUsed
<1> QED
  BY <1>4, <1>5, <1>6, <1>7, <1>8, <1>9, <1>10, <1>11 DEF TablesInv

LEMMA FailsStep ==
    ASSUME TablesInv, NEW m \in todo, phase = "mid", Failed,
           UNCHANGED <<database, sql, marked, network, todo>>,
           at' = [at EXCEPT ![m] = "done"],
           interrupted \subseteq interrupted',
           m \in interrupted' \/ (m \notin SqlTables /\ SameNames(m))
    PROVE  TablesInv'
<1>1. /\ m \in DOMAIN TableModels /\ m \in AllTables
      /\ \A t \in ConfigTables : at[t] = "done"
      /\ todo \subseteq marked => todo = marked
      /\ ~(todo \subseteq marked) => todo = {m} /\ m \notin marked
  BY DEF TablesInv, TablesType, StatementsInOrder, AllTables
<1>2. /\ SqlTables' = SqlTables /\ ModelTables' = ModelTables
      /\ \A t \in SqlTables : sql'[t] = sql[t]
  BY SameTables
<1>3. /\ at' \in [AllTables -> Statements] /\ at'[m] = "done"
      /\ \A t \in AllTables : t # m => at'[t] = at[t]
  BY <1>1 DEF TablesInv, TablesType, Statements
<1>4. phase' \in {"refused", "failed"} /\ (phase' = "refused" <=> ~(todo \subseteq marked))
  BY DEF Failed
<1>5. TablesType'
  BY <1>2, <1>3, <1>4 DEF TablesInv, TablesType
<1>6. StatementsInOrder'
  <2>1. \A t \in AllTables : at'[t] # "rows"
    BY <1>1, <1>3 DEF TablesInv, StatementsInOrder, AllTables, ConfigTables
  <2>2. \A t \in AllTables : at'[t] \in {"default indices", "fields"} =>
            t \in ModelTables' /\ t \in todo /\ phase' = "failed"
    BY <1>1, <1>2, <1>3, <1>4 DEF TablesInv, StatementsInOrder
  <2>3. \A t \in ConfigTables : at'[t] = "done"
    BY <1>1, <1>3 DEF AllTables
  <2> QED
    BY <2>1, <2>2, <2>3, <1>1, <1>4 DEF StatementsInOrder
<1>7. ColumnsAreMade'
  BY <1>2, SameDatabase DEF TablesInv, ColumnsAreMade
<1>8. LookedAtIsMigrated'
  <2>1. ASSUME NEW t \in ConfigTables PROVE t \in SqlTables' /\ sql'[t].columns = ConfigTable(t)'
    BY <1>1, <1>2, SameDatabase DEF TablesInv, LookedAtIsMigrated
  <2> QED
    BY <2>1, <1>4 DEF LookedAtIsMigrated
<1>9. IndicesAreMade'
  <2> SUFFICES ASSUME NEW k \in ModelTables, k \notin interrupted'
               PROVE  \/ at[k] = "default indices" \/ (at[k] = "fields" /\ PartOfIndices(k)')
                      \/ HasMidIndices(k)'
    BY <1>2, <1>3 DEF IndicesAreMade, ModelTables, AllTables
  <2>1. sql'[k] = sql[k]
    BY <1>2 DEF ModelTables
  <2> QED
    BY <2>1 DEF TablesInv, IndicesAreMade, PartOfIndices, HasMidIndices
<1>10. RowsAreMade'
  <2>1. at["ceramic_config"] # "rows"
    BY <1>1 DEF ConfigTables
  <2>2. SqlTables' = SqlTables /\ sql' = sql
    BY <1>2
  <2> QED
    BY <2>1, <2>2 DEF TablesInv, RowsAreMade
<1>11. MarkedAreComplete'
  <2> SUFFICES ASSUME ~(todo \subseteq marked), NEW k \in marked PROVE TableIsComplete(k)'
    BY <1>4 DEF MarkedAreComplete
  <2>1. TableIsComplete(k)
    BY DEF TablesInv, MarkedAreComplete
  <2> QED
    BY <2>1, SameDatabase DEF TableIsComplete
<1>12. TablesCanBeUsed'
  <2>1. CASE todo \subseteq marked
    <3>1. m \in SqlTables
      BY <2>1 DEF TablesInv, TablesType, ModelTables
    <3> QED
      BY <2>1, <3>1, <1>4 DEF TablesCanBeUsed
  <2>2. CASE ~(todo \subseteq marked)
    <3>1. SameNames(m)' <=> SameNames(m)
      BY SameDatabase DEF SameNames, Unambiguous, FieldIndices
    <3> QED
      BY <2>2, <3>1, <1>1, <1>4 DEF TablesCanBeUsed
  <2> QED
    BY <2>1, <2>2
<1> QED
  BY <1>5, <1>6, <1>7, <1>8, <1>9, <1>10, <1>11, <1>12 DEF TablesInv

LEMMA CreateModelTableStep ==
    ASSUME TablesInv, NEW m \in DOMAIN TableModels, CreateModelTable(m)
    PROVE  TablesInv'
<1>1. /\ phase \in {"config", "mid"} /\ at[m] = "look" /\ m \in todo /\ m \notin SqlTables
      /\ UNCHANGED <<database, marked, network, todo, interrupted>>
  BY DEF CreateModelTable, Statement, SqlTables
<1>2. CASE Unambiguous(ModelTable(m))
  <2> DEFINE table == [columns |-> ModelTable(m), indices |-> {}, rows |-> <<>>]
  <2>1. Put(m, table) /\ at' = [at EXCEPT ![m] = "default indices"] /\ phase' = phase
    BY <1>2 DEF CreateModelTable, Now
  <2>2. DOMAIN table = {"columns", "indices", "rows"} /\ table.columns = ModelTable(m)
    OBVIOUS
  <2> HIDE DEF table
  <2>3. /\ SqlTables' = SqlTables \cup {m} /\ sql'[m] = table
        /\ \A x \in SqlTables : x # m => sql'[x] = sql[x]
    BY <2>1, PutIs
  <2>4. DistinctRelations(m)
    BY <1>2, UnambiguousIsDistinct
  <2> QED
    BY <1>1, <2>1, <2>2, <2>3, <2>4, SucceedsStep
<1>3. CASE ~Unambiguous(ModelTable(m))
  <2>1. Failed /\ at' = [at EXCEPT ![m] = "done"] /\ UNCHANGED sql
    BY <1>3 DEF CreateModelTable, Now
  <2>2. SameNames(m)
    BY <1>3 DEF SameNames
  <2>3. phase = "mid"
    BY <1>1, ModelStatement
  <2> QED
    BY <1>1, <2>1, <2>2, <2>3, FailsStep
<1> QED
  BY <1>2, <1>3

(* A table that is there has distinct relations.                           *)
LEMMA TableOfModel ==
    ASSUME TablesInv, NEW m \in ModelTables
    PROVE  /\ DistinctRelations(m) /\ DOMAIN sql[m] = {"columns", "indices", "rows"}
           /\ sql[m].columns \in {ModelTable(m), EarlierModelTable(m)}
           /\ phase = "mid" /\ m \in todo /\ at[m] # "look" => sql[m].columns = ModelTable(m)
  BY DEF TablesInv, TablesType, ColumnsAreMade, ModelTables, LookedAtIsMigrated

LEMMA CreateDefaultIndicesStep ==
    ASSUME TablesInv, NEW m \in DOMAIN TableModels, CreateDefaultIndices(m)
    PROVE  TablesInv'
<1> DEFINE table == [sql[m] EXCEPT !.indices = DefaultIndices]
<1>1. /\ phase \in {"config", "mid"} /\ at[m] = "default indices" /\ Put(m, table)
      /\ at' = [at EXCEPT ![m] = "fields"]
      /\ UNCHANGED <<database, marked, phase, network, todo, interrupted>>
  BY DEF CreateDefaultIndices, Statement, Now
<1>2. m \in ModelTables /\ m \in SqlTables /\ phase = "mid" /\ m \in todo
  BY <1>1, ModelStatement DEF TablesInv, StatementsInOrder, ModelTables
<1>3. DistinctRelations(m) /\ DOMAIN sql[m] = {"columns", "indices", "rows"} /\ sql[m].columns = ModelTable(m)
  BY <1>1, <1>2, TableOfModel
<1>4. /\ DOMAIN table = {"columns", "indices", "rows"}
      /\ table.columns = ModelTable(m) /\ table.indices = DefaultIndices
  BY <1>3
<1> HIDE DEF table
<1>5. /\ SqlTables' = SqlTables \cup {m} /\ sql'[m] = table
      /\ \A x \in SqlTables : x # m => sql'[x] = sql[x]
  BY <1>1, PutIs
<1>6. PartOfIndices(m)'
  <2>1. NamesOf(m, 0) = {}
    BY DEF NamesOf
  <2>2. /\ 0 \in 0..Len(TableModels[m].indices) /\ sql'[m].indices = DefaultIndices \cup NamesOf(m, 0)
        /\ IsFiniteSet(NamesOf(m, 0)) /\ Cardinality(NamesOf(m, 0)) = 0
    <3>1. Len(TableModels[m].indices) \in Nat
      BY TablesAssumption
    <3>2. sql'[m].indices = DefaultIndices \cup NamesOf(m, 0)
      BY <2>1, <1>4, <1>5
    <3>3. IsFiniteSet(NamesOf(m, 0)) /\ Cardinality(NamesOf(m, 0)) = 0
      BY <2>1, FS_EmptySet
    <3> QED
      BY <3>1, <3>2, <3>3
  <2> QED
    BY <2>2 DEF PartOfIndices
<1>7. ModelTable(m)' = ModelTable(m)
  BY <1>1, SameDatabase
<1> QED
  BY <1>1, <1>3, <1>4, <1>5, <1>6, SucceedsStep

LEMMA AlterModelTableStep ==
    ASSUME TablesInv, NEW m \in DOMAIN TableModels, AlterModelTable(m)
    PROVE  TablesInv'
<1> DEFINE altered(c) == IF c.name \in {ColumnPrefixed(r) : r \in ToSet(TableModels[m].relations)}
                         THEN RelationColumn(c.name) ELSE c
           columns == sql[m].columns
           new == [k \in DOMAIN columns |-> altered(columns[k])]
           table == [sql[m] EXCEPT !.columns = [k \in DOMAIN @ |-> altered(@[k])]]
<1>1. /\ phase \in {"config", "mid"} /\ at[m] = "look" /\ m \in todo /\ m \in SqlTables
      /\ Put(m, table)
      /\ at' = [at EXCEPT ![m] = "done"]
      /\ UNCHANGED <<database, marked, phase, network, todo, interrupted>>
  BY DEF AlterModelTable, Statement, Now, SqlTables
<1>2. m \in ModelTables /\ at[m] # "default indices" /\ at[m] # "fields"
  BY <1>1 DEF ModelTables
<1>3. /\ DistinctRelations(m) /\ DOMAIN sql[m] = {"columns", "indices", "rows"}
      /\ columns \in {ModelTable(m), EarlierModelTable(m)}
  BY <1>2, TableOfModel
<1>4. new = [k \in DOMAIN columns |-> Altered(m, columns[k])]
  BY DEF Altered, Relations
<1>5. new = ModelTable(m)
  BY <1>3, <1>4, AlteredIsModelTable
<1>6. DOMAIN table = {"columns", "indices", "rows"} /\ table.columns = new /\ table.indices = sql[m].indices
  BY <1>3
<1> HIDE DEF table, new, columns
<1>7. /\ SqlTables' = SqlTables \cup {m} /\ sql'[m] = table
      /\ \A x \in SqlTables : x # m => sql'[x] = sql[x]
  BY <1>1, PutIs
<1>8. m \in interrupted \/ HasMidIndices(m)'
  BY <1>2, <1>6, <1>7 DEF TablesInv, IndicesAreMade, HasMidIndices
<1> QED
  BY <1>1, <1>3, <1>5, <1>6, <1>7, <1>8, SucceedsStep

LEMMA NamesOfFields ==
    ASSUME NEW m \in DOMAIN TableModels
    PROVE  /\ Len(TableModels[m].indices) \in Nat
           /\ \A d \in 0..Len(TableModels[m].indices) : NamesOf(m, d) \cap DefaultIndices = {}
           /\ \A d \in 0..Len(TableModels[m].indices) : d # Len(TableModels[m].indices) =>
                  NamesOf(m, d + 1) =
                      NamesOf(m, d) \cup {FieldsIndexName(TableModels[m].indices[d + 1])}
           /\ FieldIndices(m) = NamesOf(m, Len(TableModels[m].indices))
<1> DEFINE wanted == TableModels[m].indices
<1>1. wanted \in Seq(Seq(STRING \X STRING)) /\ Len(wanted) \in Nat /\ DOMAIN wanted = 1..Len(wanted)
  BY TablesAssumption
<1> HIDE DEF wanted
<1>2. ASSUME NEW d \in 0..Len(wanted) PROVE NamesOf(m, d) \cap DefaultIndices = {}
  <2>1. \A i \in 1..d : wanted[i] \in Seq(STRING \X STRING)
    BY <1>1
  <2>2. \A i \in 1..d : FieldsIndexName(wanted[i]) \notin DefaultIndices
    BY <2>1, FieldsIndexNamesAreOther
  <2> QED
    BY <2>2 DEF NamesOf, wanted
<1>3. ASSUME NEW d \in 0..Len(wanted), d # Len(wanted)
      PROVE  NamesOf(m, d + 1) = NamesOf(m, d) \cup {FieldsIndexName(wanted[d + 1])}
  <2>1. 1..(d + 1) = (1..d) \cup {d + 1}
    BY <1>1
  <2> QED
    BY <2>1 DEF NamesOf, wanted
<1>4. FieldIndices(m) = NamesOf(m, Len(wanted))
  BY <1>1 DEF FieldIndices, NamesOf, ToSet, wanted
<1> QED
  BY <1>1, <1>2, <1>3, <1>4 DEF wanted

LEMMA CreateFieldIndexStep ==
    ASSUME TablesInv, NEW m \in DOMAIN TableModels, CreateFieldIndex(m)
    PROVE  TablesInv'
<1> DEFINE N == Len(TableModels[m].indices)
           done == Cardinality(sql[m].indices \ DefaultIndices)
           name == FieldsIndexName(TableModels[m].indices[done + 1])
           table == [sql[m] EXCEPT !.indices = @ \cup {name}]
<1>1. /\ phase \in {"config", "mid"} /\ at[m] = "fields"
      /\ UNCHANGED <<database, marked, network, todo>>
  BY DEF CreateFieldIndex, Statement
<1>2. m \in ModelTables /\ m \in SqlTables /\ phase = "mid" /\ m \in todo /\ m \in AllTables
  BY <1>1, ModelStatement DEF TablesInv, StatementsInOrder, ModelTables
<1>3. DistinctRelations(m) /\ DOMAIN sql[m] = {"columns", "indices", "rows"} /\ sql[m].columns = ModelTable(m)
  BY <1>1, <1>2, TableOfModel
<1>4. m \in interrupted \/ PartOfIndices(m) \/ HasMidIndices(m)
  BY <1>1, <1>2 DEF TablesInv, IndicesAreMade
<1>5. ASSUME NEW d \in 0..N, sql[m].indices = DefaultIndices \cup NamesOf(m, d),
             Cardinality(NamesOf(m, d)) = d
      PROVE  done = d
  <2>1. NamesOf(m, d) \cap DefaultIndices = {}
    BY NamesOfFields
  <2>2. sql[m].indices \ DefaultIndices = NamesOf(m, d)
    BY <2>1, <1>5
  <2> QED
    BY <2>2, <1>5
<1> HIDE DEF done
<1>6. CASE done = N
  <2>1. at' = [at EXCEPT ![m] = "done"] /\ UNCHANGED <<sql, phase, interrupted>>
    BY <1>6 DEF CreateFieldIndex, Now, done
  <2>2. m \in interrupted \/ HasMidIndices(m)
    <3> SUFFICES ASSUME PartOfIndices(m) PROVE HasMidIndices(m)
      BY <1>4
    <3>1. PICK d \in 0..N : sql[m].indices = DefaultIndices \cup NamesOf(m, d) /\ Cardinality(NamesOf(m, d)) = d
      BY DEF PartOfIndices
    <3>2. d = N
      BY <3>1, <1>5, <1>6
    <3> QED
      BY <3>1, <3>2, NamesOfFields DEF HasMidIndices, MidIndices
  <2>3. /\ SqlTables' = SqlTables \cup {m} /\ \A t \in SqlTables : t # m => sql'[t] = sql[t]
        /\ sql'[m] = sql[m]
    BY <2>1, <1>2 DEF SqlTables
  <2>4. m \in interrupted \/ HasMidIndices(m)'
    BY <2>2, <2>3 DEF HasMidIndices
  <2> QED
    BY <1>1, <1>3, <2>1, <2>3, <2>4, SucceedsStep
<1>7. CASE done # N /\ name \in sql[m].indices
  <2>1. /\ Failed /\ at' = [at EXCEPT ![m] = "done"] /\ interrupted' = interrupted \cup {m}
        /\ UNCHANGED sql
    BY <1>7 DEF CreateFieldIndex, Now, done
  <2> QED
    BY <1>1, <1>2, <2>1, FailsStep
<1>8. CASE done # N /\ name \notin sql[m].indices
  <2>1. Put(m, table) /\ UNCHANGED <<at, phase, interrupted>>
    BY <1>8 DEF CreateFieldIndex, done
  <2>2. at' = [at EXCEPT ![m] = "fields"]
    BY <2>1, <1>1, <1>2 DEF TablesInv, TablesType
  <2> DEFINE indices == sql[m].indices \cup {name}
  <2>3. /\ DOMAIN table = {"columns", "indices", "rows"}
        /\ table.columns = ModelTable(m) /\ table.indices = indices
    BY <1>3
  <2> HIDE DEF table
  <2>4. /\ SqlTables' = SqlTables \cup {m} /\ sql'[m] = table
        /\ \A x \in SqlTables : x # m => sql'[x] = sql[x]
    BY <2>1, PutIs
  <2>5. m \in interrupted \/ PartOfIndices(m)' \/ HasMidIndices(m)'
    <3>1. CASE PartOfIndices(m)
      <4>1. PICK d \in 0..N : /\ sql[m].indices = DefaultIndices \cup NamesOf(m, d)
                              /\ IsFiniteSet(NamesOf(m, d)) /\ Cardinality(NamesOf(m, d)) = d
        BY <3>1 DEF PartOfIndices
      <4>2. done = d
        BY <4>1, <1>5
      <4>3. N \in Nat /\ NamesOf(m, d + 1) = NamesOf(m, d) \cup {name}
        BY <4>2, <1>8, NamesOfFields
      <4>4. name \notin NamesOf(m, d)
        BY <1>8, <4>1
      <4> HIDE DEF name
      <4>5. IsFiniteSet(NamesOf(m, d + 1)) /\ Cardinality(NamesOf(m, d + 1)) = d + 1
        BY <4>1, <4>3, <4>4, FS_AddElement
      <4>6. d + 1 \in 0..N
        BY <4>2, <4>3, <1>8
      <4>7. sql'[m].indices = DefaultIndices \cup NamesOf(m, d + 1)
        BY <2>3, <2>4, <4>1, <4>3
      <4> QED
        BY <4>5, <4>6, <4>7 DEF PartOfIndices
    <3>2. CASE HasMidIndices(m)
      BY <3>2, <2>3, <2>4 DEF HasMidIndices
    <3> QED
      BY <1>4, <3>1, <3>2
  <2> QED
    BY <1>1, <1>3, <2>1, <2>2, <2>3, <2>4, <2>5, SucceedsStep
<1> QED
  BY <1>6, <1>7, <1>8

LEMMA VerifyStep ==
    ASSUME TablesInv, Verify
    PROVE  TablesInv'
<1>1. /\ phase = "mid" /\ \A m \in todo : at[m] = "done"
      /\ UNCHANGED <<database, sql, network, todo, at, interrupted>>
  BY DEF Verify
<1>2. /\ todo \subseteq marked => todo = marked
      /\ ~(todo \subseteq marked) => \E m \in DOMAIN TableModels : todo = {m} /\ m \notin marked
      /\ \A t \in ConfigTables : at[t] = "done"
  BY <1>1 DEF TablesInv, StatementsInOrder
<1>3. ConfigVerified
  BY <1>1, <1>2, ConfigAsExpected DEF TablesInv, LookedAtIsMigrated, ConfigVerified
<1>4. todo \subseteq ModelTables
  BY <1>1 DEF TablesInv, TablesType, LookedAtIsMigrated, ModelTables
<1>5. ASSUME NEW m \in todo, m \notin interrupted PROVE MidVerified(m)
  <2>1. DistinctRelations(m) /\ sql[m].columns = ModelTable(m)
    BY <1>1, <1>4, TableOfModel
  <2>2. sql[m].columns = MidStructure(m)
    BY <2>1, <1>4, MidStructureIsModelTable DEF ModelTables
  <2>3. HasMidIndices(m)
    BY <1>1, <1>4, <1>5 DEF TablesInv, IndicesAreMade
  <2> QED
    BY <2>2, <2>3 DEF MidVerified
<1>6. CASE Verified
  <2>1. phase' = "up" /\ marked' = marked \cup todo
    BY <1>6 DEF Verify
  <2>2. \A m \in todo : TableIsComplete(m)
    BY <1>6 DEF Verified, MidVerified, TableIsComplete, HasMidIndices, MidIndices
  <2>3. \A m \in marked' : TableIsComplete(m)
    BY <1>2, <2>1, <2>2, <1>1 DEF TablesInv, MarkedAreComplete
  <2>4. /\ SqlTables' = SqlTables /\ ModelTables' = ModelTables
        /\ \A t \in SqlTables : sql'[t] = sql[t]
    BY <1>1, SameTables
  <2>5. TablesType'
    BY <1>1, <1>4, <2>1, <2>4 DEF TablesInv, TablesType
  <2>6. StatementsInOrder'
    <3>1. \A t \in AllTables : at[t] \notin {"rows", "default indices", "fields"}
      BY <1>1, <1>2 DEF TablesInv, StatementsInOrder, ConfigTables
    <3> QED
      BY <3>1, <1>1, <1>2, <2>1 DEF StatementsInOrder
  <2>7. ColumnsAreMade'
    BY <1>1, <2>4, SameDatabase DEF TablesInv, ColumnsAreMade
  <2>8. LookedAtIsMigrated'
    <3>1. ASSUME NEW t \in ConfigTables PROVE t \in SqlTables' /\ sql'[t].columns = ConfigTable(t)'
      BY <1>1, <1>2, <2>4, SameDatabase DEF TablesInv, LookedAtIsMigrated
    <3> QED
      BY <3>1, <2>1 DEF LookedAtIsMigrated
  <2>9. IndicesAreMade' /\ RowsAreMade'
    BY <1>1, <2>4 DEF TablesInv, IndicesAreMade, HasMidIndices, PartOfIndices, RowsAreMade
  <2>10. MarkedAreComplete'
    <3>1. \A m \in marked' : TableIsComplete(m)'
      BY <1>1, <2>3, SameDatabase DEF TableIsComplete
    <3> QED
      BY <3>1 DEF MarkedAreComplete
  <2>11. TablesCanBeUsed'
    BY <2>1 DEF TablesCanBeUsed
  <2> QED
    BY <2>5, <2>6, <2>7, <2>8, <2>9, <2>10, <2>11 DEF TablesInv
<1>7. CASE ~Verified
  <2>1. Failed /\ UNCHANGED marked
    BY <1>7 DEF Verify
  <2>2. PICK m \in todo : m \in interrupted
    BY <1>3, <1>5, <1>7 DEF Verified
  <2>3. at' = [at EXCEPT ![m] = "done"]
    BY <1>1 DEF TablesInv, TablesType
  <2> QED
    BY <1>1, <2>1, <2>2, <2>3, FailsStep
<1> QED
  BY <1>6, <1>7

LEMMA TablesStutter ==
    ASSUME TablesInv, UNCHANGED sqlVars
    PROVE  TablesInv'
<1>1. UNCHANGED <<database, sql, marked, phase, network, todo, at, interrupted>>
  BY DEF sqlVars
<1>2. /\ SqlTables' = SqlTables /\ ModelTables' = ModelTables
      /\ \A t \in SqlTables : sql'[t] = sql[t]
  BY <1>1, SameTables
<1>3. TablesType' /\ StatementsInOrder'
  BY <1>1, <1>2 DEF TablesInv, TablesType, StatementsInOrder, Unfinished
<1>4. ColumnsAreMade' /\ LookedAtIsMigrated'
  BY <1>1, <1>2, SameDatabase DEF TablesInv, ColumnsAreMade, LookedAtIsMigrated
<1>5. IndicesAreMade' /\ RowsAreMade'
  BY <1>1, <1>2 DEF TablesInv, IndicesAreMade, HasMidIndices, PartOfIndices, RowsAreMade
<1>6. MarkedAreComplete'
  BY <1>1, SameDatabase DEF TablesInv, MarkedAreComplete, TableIsComplete
<1>7. TablesCanBeUsed'
  BY <1>1, SameDatabase DEF TablesInv, TablesCanBeUsed, SameNames, Unambiguous, FieldIndices
<1> QED
  BY <1>3, <1>4, <1>5, <1>6, <1>7 DEF TablesInv

(* The tables a node finds, makes and migrates are as its inductive        *)
(* invariant says, statement by statement.                                 *)
THEOREM TablesInvariant == SpecTables => []TablesInv
<1>1. TablesInv /\ [NextTables]_sqlVars => TablesInv'
  <2> SUFFICES ASSUME TablesInv, NextTables \/ UNCHANGED sqlVars PROVE TablesInv'
    OBVIOUS
  <2>1. CASE UNCHANGED sqlVars
    BY <2>1, TablesStutter
  <2>2. CASE BeginStart \/ InsertConfig \/ ConfigDone \/ Verify \/ Ends
    BY <2>2, BeginStartStep, InsertConfigStep, ConfigDoneStep, VerifyStep, EndsStep
  <2>3. ASSUME NEW t \in ConfigTables, CreateConfigTable(t) \/ MigrateConfigTable(t) PROVE TablesInv'
    BY <2>3, CreateConfigTableStep, MigrateConfigTableStep
  <2>4. ASSUME NEW m \in DOMAIN TableModels,
               \/ BeginIndexModel(m) \/ CreateModelTable(m) \/ CreateDefaultIndices(m)
               \/ CreateFieldIndex(m) \/ AlterModelTable(m)
        PROVE  TablesInv'
    BY <2>4, BeginIndexModelStep, CreateModelTableStep, CreateDefaultIndicesStep,
       CreateFieldIndexStep, AlterModelTableStep
  <2> QED
    BY <2>1, <2>2, <2>3, <2>4 DEF NextTables
<1> QED
  BY <1>1, InitTablesInv, PTL DEF SpecTables

(* A start or a call of indexModels fails on what a crash broke off, on a  *)
(* database of another network, or for a model whose names are the same to *)
(* the database, and on nothing else (TablesManager.verifyTables).         *)
THEOREM TablesAreUsable == SpecTables => []TablesCanBeUsed
<1>1. TablesInv => TablesCanBeUsed
  BY DEF TablesInv
<1> QED
  BY <1>1, TablesInvariant, PTL

(* A model that queries are answered for has every column and every index  *)
(* that was asked for (TablesManager.createModelTable, verifyTables).      *)
THEOREM ServedTablesComplete == SpecTables => []ServedTablesAreComplete
<1>1. TablesInv => ServedTablesAreComplete
  BY DEF TablesInv, MarkedAreComplete, TableIsComplete, ServedTablesAreComplete
<1> QED
  BY <1>1, TablesInvariant, PTL

-----------------------------------------------------------------------------
(* History sync: the stored block number is a promise that is kept.        *)
Fork == 1..(MaxReorgs + 1)
Number == DefaultStart..MaxHead
Confirmed == head - Confirmations

Block ==
    {b \in [number : Nat \ {0}, hash : Nat \X Fork, parentHash : Nat \X Nat] :
        b.hash[1] = b.number /\ b.parentHash[1] = b.number - 1}

(* The chain, and what has been read of it.                                *)
ChainInv ==
    /\ setting \in Settings
    /\ head \in Nat /\ head >= DefaultStart + Confirmations /\ head =< MaxHead
    /\ head =< setting.length \/ head = DefaultStart + Confirmations
    /\ reorgs \in 0..MaxReorgs
    /\ chain \in [0..MaxHead -> Nat] /\ \A n \in 0..head : chain[n] \in 1..(reorgs + 1)
    /\ processed \in 0..Confirmed
    /\ found \in [latest : Nat, processed : Nat]
    /\ mode \in {"down", "booting", "running"}
    /\ mode # "down" => found.latest >= DefaultStart /\ found.latest =< Confirmed

(* Blocks come in the order of their numbers, where it matters.            *)
Ascending(blocks) ==
    \A i, k \in 1..Len(blocks) :
        i < k /\ blocks[k].number >= DefaultStart => blocks[i].number < blocks[k].number
Has(blocks, n) == \E i \in 1..Len(blocks) : blocks[i].number = n

-----------------------------------------------------------------------------
(* Numbers can be put in the order of their texts, each of them once.      *)
LEMMA OrderExists ==
    ASSUME NEW S \in SUBSET Nat, NEW top \in Nat, \A x \in S : x =< top, setting.decade \in Nat
    PROVE  \E s \in [1..Cardinality(S) -> S] : InOrder(s)
<1> DEFINE rank == [x \in S |-> IF x >= setting.decade THEN x - setting.decade ELSE x + top + 1]
           Upto(h) == {x \in S : rank[x] < h}
           T == {h \in Nat : \E s \in [1..Cardinality(Upto(h)) -> Upto(h)] : InOrder(s)}
<1>1. \A x \in S : x \in Nat /\ rank[x] \in Nat /\ rank[x] < 2 * top + 2
  OBVIOUS
<1>2. \A x, y \in S : (rank[x] < rank[y]) = Before(x, y)
  BY DEF Before
<1>3. \A x, y \in S : rank[x] = rank[y] => x = y
  OBVIOUS
<1> HIDE DEF rank
<1>4. 0 \in T
  <2>1. Upto(0) = {}
    <3>1. \A x \in S : ~(rank[x] < 0)
      BY <1>1
    <3> QED
      BY <3>1
  <2>2. Cardinality(Upto(0)) = 0
    BY <2>1, FS_EmptySet
  <2> DEFINE s == [i \in 1..0 |-> i]
  <2>3. s \in [1..0 -> {}] /\ InOrder(s)
    BY DEF InOrder
  <2> QED
    BY <2>1, <2>2, <2>3
<1>5. ASSUME NEW h \in Nat, h \in T PROVE h + 1 \in T
  <2>1. IsFiniteSet(Upto(h)) /\ Cardinality(Upto(h)) \in Nat
    <3>1. Upto(h) \in SUBSET Nat /\ \A x \in Upto(h) : x =< top
      BY <1>1
    <3> HIDE DEF Upto
    <3> QED
      BY <3>1, FS_BoundedSetOfNaturals, FS_CardinalityType
  <2>2. PICK s \in [1..Cardinality(Upto(h)) -> Upto(h)] : InOrder(s)
    BY <1>5
  <2>3. CASE \E x \in S : rank[x] = h
    <3>1. PICK x \in S : rank[x] = h
      BY <2>3
    <3>2. Upto(h + 1) = Upto(h) \cup {x} /\ x \notin Upto(h)
      <4>1. \A y \in S : rank[y] < h + 1 <=> (rank[y] < h \/ y = x)
        BY <1>1, <1>3, <3>1
      <4>2. ~(rank[x] < h)
        BY <1>1, <3>1
      <4> QED
        BY <3>1, <4>1, <4>2, Zenon
    <3> DEFINE c == Cardinality(Upto(h))
               longer == [i \in 1..(c + 1) |-> IF i =< c THEN s[i] ELSE x]
    <3>3. Cardinality(Upto(h + 1)) = c + 1
      <4> HIDE DEF Upto
      <4> QED
        BY <2>1, <3>2, FS_AddElement
    <3>4. \A i \in 1..c : s[i] \in Upto(h) /\ s[i] \in S /\ rank[s[i]] < rank[x]
      BY <2>2, <3>1
    <3>5. longer \in [1..(c + 1) -> Upto(h + 1)]
      <4> HIDE DEF Upto
      <4> QED
        BY <2>1, <3>2, <3>4
    <3>6. InOrder(longer)
      <4> SUFFICES ASSUME NEW i \in 1..(c + 1), NEW k \in 1..(c + 1), i < k
                   PROVE  Before(longer[i], longer[k])
        BY DEF InOrder
      <4> HIDE DEF Upto
      <4>1. c \in Nat
        BY <2>1
      <4>2. CASE k =< c
        <5>1. i \in 1..c /\ k \in 1..c /\ longer[i] = s[i] /\ longer[k] = s[k]
          BY <4>1, <4>2
        <5>2. DOMAIN s = 1..c
          BY <2>2
        <5> QED
          BY <2>2, <5>1, <5>2 DEF InOrder
      <4>3. CASE ~(k =< c)
        <5>1. i \in 1..c /\ longer[i] = s[i] /\ longer[k] = x
          BY <4>1, <4>3
        <5>2. s[i] \in S /\ rank[s[i]] < rank[x]
          BY <3>4, <5>1
        <5> QED
          BY <1>2, <3>1, <5>1, <5>2
      <4> QED
        BY <4>2, <4>3
    <3> HIDE DEF longer
    <3>7. longer \in [1..Cardinality(Upto(h + 1)) -> Upto(h + 1)]
      BY <3>3, <3>5
    <3> HIDE DEF Upto, c
    <3> QED
      BY <3>6, <3>7
  <2>4. CASE ~ \E x \in S : rank[x] = h
    <3>1. Upto(h + 1) = Upto(h)
      <4>1. \A y \in S : rank[y] < h + 1 <=> rank[y] < h
        BY <1>1, <2>4
      <4> QED
        BY <4>1, Zenon
    <3> HIDE DEF Upto
    <3> QED
      BY <2>2, <3>1
  <2> QED
    BY <2>3, <2>4
<1>6. Upto(2 * top + 2) = S
  BY <1>1
<1> HIDE DEF Upto
<1>7. \A h \in Nat : h \in T => h + 1 \in T
  BY <1>5
<1> HIDE DEF T
<1>8. 2 * top + 2 \in T
  <2>1. Nat \subseteq T
    BY <1>4, <1>7, NumbersInduction
  <2> QED
    BY <2>1
<1> QED
  BY <1>6, <1>8 DEF T

(* Where each block of a range comes from.                                 *)
LoadsAs(from, to, c, s) ==
    /\ DOMAIN LoadRange(from, to) = 1..c
    /\ \A i \in 1..c : LoadRange(from, to)[i] = BlockAt(s[i])
    /\ \A n \in Loaded(from, to) : \E i \in 1..c : s[i] = n
    /\ \A i, k \in 1..c : i < k => Before(s[i], s[k])

(* A range is loaded as its first block, its last and those with anchors.  *)
LEMMA RangeInOrder ==
    ASSUME NEW from \in Nat, NEW to \in Nat, from =< to, setting.decade \in Nat
    PROVE  /\ \A T : (\A n \in from..to : BlockAt(n) \in T) => LoadRange(from, to) \in Seq(T)
           /\ \E c \in Nat : \E s \in [1..c -> from..to] : LoadsAs(from, to, c, s)
<1> DEFINE S == Loaded(from, to)
           c == Cardinality(S)
           s == CHOOSE r \in [1..c -> S] : InOrder(r)
<1>1. S \in SUBSET Nat /\ S \subseteq from..to /\ \A x \in S : x =< to
  BY DEF Loaded
<1>2. IsFiniteSet(S) /\ c \in Nat
  <2> HIDE DEF S
  <2> QED
    BY <1>1, FS_BoundedSetOfNaturals, FS_CardinalityType
<1>3. s \in [1..c -> S] /\ InOrder(s)
  <2> HIDE DEF S
  <2>1. \E r \in [1..c -> S] : InOrder(r)
    BY <1>1, OrderExists
  <2> QED
    BY <2>1
<1>4. LoadRange(from, to) = [i \in DOMAIN s |-> BlockAt(s[i])]
  BY DEF LoadRange
<1> HIDE DEF S, c, s
<1>5. \A i, k \in 1..c : i < k => Before(s[i], s[k])
  BY <1>3 DEF InOrder
<1>6. s \in Injection(1..c, S)
  <2>1. \A n \in S : ~Before(n, n)
    BY <1>1 DEF Before
  <2>2. ASSUME NEW i \in 1..c, NEW k \in 1..c, s[i] = s[k] PROVE i = k
    <3>1. s[i] \in S
      BY <1>3
    <3>2. ~(i < k) /\ ~(k < i)
      BY <1>5, <2>1, <2>2, <3>1
    <3> QED
      BY <1>2, <3>2
  <2> QED
    BY <1>3, <2>2 DEF Injection, IsInjective
<1>7. s \in Surjection(1..c, S)
  <2>1. IsFiniteSet(1..c) /\ Cardinality(1..c) = c
    BY <1>2, FS_Interval
  <2>2. Cardinality(1..c) = Cardinality(S) <=> s \in Surjection(1..c, S)
    BY <1>2, <1>6, FS_Injection
  <2> QED
    BY <2>1, <2>2 DEF c
<1>8. \A n \in S : \E i \in 1..c : s[i] = n
  BY <1>7 DEF Surjection
<1>9. s \in [1..c -> from..to] /\ DOMAIN s = 1..c
  BY <1>1, <1>3
<1>10. ASSUME NEW T, \A n \in from..to : BlockAt(n) \in T PROVE LoadRange(from, to) \in Seq(T)
  <2>1. \A i \in 1..c : BlockAt(s[i]) \in T
    BY <1>9, <1>10
  <2>2. [i \in 1..c |-> BlockAt(s[i])] \in [1..c -> T]
    BY <2>1
  <2>3. LoadRange(from, to) \in [1..c -> T]
    BY <1>4, <1>9, <2>2
  <2> HIDE DEF LoadRange
  <2> QED
    BY <1>2, <2>3
<1>11. DOMAIN LoadRange(from, to) = 1..c /\ \A i \in 1..c : LoadRange(from, to)[i] = BlockAt(s[i])
  BY <1>4, <1>9
<1>12. \A n \in Loaded(from, to) : \E i \in 1..c : s[i] = n
  BY <1>8 DEF S
<1> QED
  BY <1>2, <1>5, <1>9, <1>10, <1>11, <1>12 DEF LoadsAs

LEMMA BlocksLoaded ==
    ASSUME ChainInv, ~Crosses, NEW from \in Nat \ {0}, NEW to \in Nat, from =< to, to =< Confirmed
    PROVE  /\ LoadRange(from, to) \in Seq(Block) /\ Ascending(LoadRange(from, to))
           /\ \A i \in 1..Len(LoadRange(from, to)) : LoadRange(from, to)[i].number \in from..to
           /\ \A n \in Loaded(from, to) : Has(LoadRange(from, to), n)
<1>1. /\ setting.decade \in Nat /\ setting.length \in Nat
      /\ Confirmations \in Nat \ {0} /\ DefaultStart \in Nat \ {0} /\ DefaultStart > Confirmations
      /\ MaxReorgs \in Nat /\ MaxHead \in Nat
  <2>1. setting \in Exposures
    BY HistorySyncAssumption DEF ChainInv
  <2> QED
    BY <2>1, HistorySyncAssumption DEF Exposures
<1>2. PICK c \in Nat : \E s \in [1..c -> from..to] : LoadsAs(from, to, c, s)
  <2>1. from \in Nat
    OBVIOUS
  <2> HIDE DEF LoadRange
  <2> QED
    BY <1>1, <2>1, RangeInOrder
<1>4. PICK s \in [1..c -> from..to] : LoadsAs(from, to, c, s)
  BY <1>2
<1> DEFINE b == LoadRange(from, to)
<1>3. /\ DOMAIN LoadRange(from, to) = 1..c
      /\ \A i \in 1..c : LoadRange(from, to)[i] = BlockAt(s[i])
      /\ \A n \in Loaded(from, to) : \E i \in 1..c : s[i] = n
      /\ \A i, k \in 1..c : i < k => Before(s[i], s[k])
  BY <1>4 DEF LoadsAs
<1>5. \A n \in from..to : BlockAt(n) \in Block /\ BlockAt(n).number = n
  <2> SUFFICES ASSUME NEW n \in from..to PROVE BlockAt(n) \in Block /\ BlockAt(n).number = n
    OBVIOUS
  <2>1. n \in Nat \ {0} /\ n \in 0..head /\ n - 1 \in 0..MaxHead /\ n - 1 \in Nat
    BY <1>1 DEF ChainInv, Confirmed
  <2>2. chain[n] \in Fork /\ chain[n - 1] \in Nat
    BY <1>1, <2>1 DEF ChainInv, Fork
  <2> QED
    BY <2>1, <2>2 DEF BlockAt, Block
<1>6. \A i \in 1..c : s[i] \in from..to /\ b[i] \in Block /\ b[i].number = s[i]
  BY <1>3, <1>5
<1>7. b \in Seq(Block) /\ Len(b) = c
  <2>1. DOMAIN b = 1..c
    BY <1>3
  <2>2. b \in Seq(Block)
    <3>1. \A n \in from..to : BlockAt(n) \in Block
      BY <1>5
    <3> QED
      BY <1>1, <3>1, RangeInOrder
  <2> HIDE DEF b
  <2> QED
    BY <2>1, <2>2
<1> HIDE DEF b
<1>8. Ascending(b)
  <2> SUFFICES ASSUME NEW i \in 1..c, NEW k \in 1..c, i < k, b[k].number >= DefaultStart
               PROVE  b[i].number < b[k].number
    BY <1>7 DEF Ascending
  <2>1. Before(s[i], s[k])
    BY <1>3
  <2>2. /\ s[i] \in Nat /\ s[i] =< to /\ s[k] \in Nat /\ s[k] =< to /\ s[k] >= DefaultStart
        /\ b[i].number = s[i] /\ b[k].number = s[k]
    BY <1>6
  <2>3. s[i] = s[k] => ~Before(s[i], s[k])
    BY <2>2 DEF Before
  <2>4. to =< setting.length - Confirmations \/ to =< DefaultStart
    BY <1>1 DEF ChainInv, Confirmed
  <2>5. setting.decade =< DefaultStart \/ setting.decade > setting.length - Confirmations
    BY <1>1 DEF Crosses
  <2> QED
    BY <1>1, <2>1, <2>2, <2>3, <2>4, <2>5 DEF Before
<1> QED
  BY <1>3, <1>6, <1>7, <1>8 DEF Has, b

-----------------------------------------------------------------------------
(* Whose call has come so far is indexed, and synced.                      *)
CallsInv ==
    /\ indexed \subseteq Model /\ modelsToSync \subseteq SyncName
    /\ call \in [Model -> {"new", "forgotten", "indexed", "tracked", "started", "stopped"}]
    /\ \A m \in Model :
        /\ call[m] \in {"indexed", "tracked", "started"} => m \in indexed /\ mode = "running"
        /\ call[m] \in {"tracked", "started"} => m \in modelsToSync

(* A job in progress is at one worker.                                     *)
ValidJob(j) == j \in JobRecord /\ j.from > 0 /\ j.current >= j.from /\ j.to =< Confirmed
Active(i, q) == i \in 1..Len(jobs) /\ jobs[i].state = "active" /\ QueueFor(jobs[i]) = q
JobsType ==
    /\ jobs \in Seq(JobRecord) /\ \A i \in 1..Len(jobs) : ValidJob(jobs[i])
    /\ worker \in [Queue -> [at : {"idle", "failing", "working", "updating", "completing"},
                             next : Nat, blocks : Seq(Block)]]
AtOneWorker ==
    /\ mode = "down" => \A q \in Queue : worker[q].at = "idle"
    /\ \A q \in Queue : \A i, k \in 1..Len(jobs) : Active(i, q) /\ Active(k, q) => i = k
    /\ mode # "down" =>
           \A q \in Queue : worker[q].at # "idle" <=> \E i \in 1..Len(jobs) : Active(i, q)

(* What a job is past, up to a limit, is rebuilt, or among the blocks.     *)
DoneBefore(j, limit, blocks) ==
    \A m \in j.models \cap Model, n \in Number \ Empty :
        j.from =< n /\ n < limit => Queued(n, m) \/ Has(blocks, n)
WorksOn(w, j) ==
    /\ w.at \in {"working", "updating"} =>
        /\ w.next >= j.from /\ Ascending(w.blocks) /\ DoneBefore(j, w.next, w.blocks)
        /\ \A i \in 1..Len(w.blocks) : w.blocks[i].number \in j.from..Confirmed
                                       /\ w.blocks[i].number < w.next
    /\ w.at = "updating" =>
        /\ w.blocks # <<>>
        /\ \A m \in j.models \cap Model : w.blocks[1].number \in Number \ Empty => Queued(w.blocks[1].number, m)
    /\ w.at = "completing" => DoneBefore(j, j.to + 1, <<>>)
WorkInv ==
    /\ \A i \in 1..Len(jobs) : DoneBefore(jobs[i], jobs[i].current, <<>>)
    /\ \A q \in Queue, i \in 1..Len(jobs) : Active(i, q) => WorksOn(worker[q], jobs[i])
JobsInv == JobsType /\ AtOneWorker /\ WorkInv

(* The listener and its handlers.                                          *)
HandlerRecord ==
    [at : {"adding", "storing"}, number : Nat,
     job : [type : {"reorg", "continuous"}, from : Nat \ {0}, to : Nat, models : SUBSET SyncName]]
ListenerInv ==
    /\ listener \in [highest : Nat, last : Nat \X Nat, ranges : Seq(Nat \X Nat), blocks : Seq(Block)]
    /\ listener.highest =< Confirmed
    /\ \A i \in 1..Len(listener.ranges) :
        /\ DefaultStart =< listener.ranges[i][1] /\ listener.ranges[i][1] =< listener.ranges[i][2]
        /\ listener.ranges[i][2] =< listener.highest
    /\ \A i \in 1..Len(listener.blocks) :
        DefaultStart =< listener.blocks[i].number /\ listener.blocks[i].number =< listener.highest
    /\ handlers \subseteq HandlerRecord
    /\ \A h \in handlers : h.number = h.job.to /\ h.job.from =< h.number /\ h.number =< Confirmed

(* Blocks that it has heard of and not emitted are still to come, in the   *)
(* order of their numbers; those between the latest one when the node      *)
(* started and the first it heard of are as near as a reorg job reaches.   *)
Calmly == ~setting.overlap /\ ~setting.gap /\ ~Crosses
LastNumber == listener.last[1]
InRanges(n) == \E i \in 1..Len(listener.ranges) :
                   listener.ranges[i][1] =< n /\ n =< listener.ranges[i][2]
Skipped(n) ==
    \E first \in Number :
        /\ IF listener.blocks # <<>> THEN first = listener.blocks[1].number
           ELSE listener.ranges # <<>> /\ first = listener.ranges[1][1]
        /\ n < first /\ first - Confirmations =< n
Unheardof ==
    listener.highest = NoBlock =>
        /\ listener.ranges = <<>> /\ listener.blocks = <<>> /\ LastNumber = found.latest
        /\ head =< found.latest + 2 * Confirmations + 1
InTurn ==
    /\ listener.highest # NoBlock => LastNumber =< listener.highest
    /\ Ascending(listener.blocks)
    /\ \A i, k \in 1..Len(listener.ranges) : i < k => listener.ranges[i][2] < listener.ranges[k][1]
    /\ \A i \in 1..Len(listener.blocks), k \in 1..Len(listener.ranges) :
           listener.blocks[i].number < listener.ranges[k][1]
    /\ \A i \in 1..Len(listener.blocks) : listener.blocks[i].number >= LastNumber
    /\ \A i \in 1..Len(listener.ranges) : listener.ranges[i][1] >= LastNumber
ToCome ==
    \A n \in Number \ Empty :
        LastNumber < n /\ n =< listener.highest => Has(listener.blocks, n) \/ InRanges(n) \/ Skipped(n)
Heard == LastNumber \in Number /\ LastNumber =< Confirmed /\ Unheardof /\ InTurn /\ ToCome

Cov(n, m) == Queued(n, m) \/ \E i \in 1..Len(jobs) : LeftOver(jobs[i], n, m)
Promised(limit) ==
    \A m \in Model, n \in Number \ Empty : call[m] = "started" /\ n =< limit => Cov(n, m)
PromisedWith(job) ==
    \A m \in Model, n \in Number \ Empty :
        call[m] = "started" /\ n =< LastNumber => Cov(n, m) \/ (m \in job.models /\ job.from =< n)

(* A promise, once given, is kept.                                         *)
KeptInv ==
    /\ followed \in [Model -> 0..MaxHead]
    /\ \A m \in Model, n \in Number \ Empty : n =< followed[m] => Cov(n, m)

PromiseInv ==
    /\ mode # "down" => Heard
    /\ mode = "down" => handlers = {}
    /\ mode # "down" /\ handlers = {} => Promised(LastNumber)
    /\ \A h \in handlers :
        /\ handlers = {h} /\ h.number = LastNumber
        /\ h.at = "storing" => Promised(LastNumber)
        /\ h.at = "adding" => PromisedWith(h.job)

HistoryInv == ChainInv /\ CallsInv /\ JobsInv /\ ListenerInv /\ PromiseInv /\ KeptInv

-----------------------------------------------------------------------------
(* A sequence without its element at i (SequencesExt.RemoveAt).            *)
LEMMA JobTakenOut ==
    ASSUME NEW S, NEW seq \in Seq(S), NEW i \in 1..Len(seq)
    PROVE  /\ RemoveAt(seq, i) \in Seq(S) /\ Len(RemoveAt(seq, i)) = Len(seq) - 1
           /\ \A k \in 1..(Len(seq) - 1) :
                  RemoveAt(seq, i)[k] = IF k < i THEN seq[k] ELSE seq[k + 1]
<1> DEFINE front == SubSeq(seq, 1, i - 1)
           back  == SubSeq(seq, i + 1, Len(seq))
<1>1. Len(seq) \in Nat /\ \A k \in 1..Len(seq) : seq[k] \in S
  OBVIOUS
<1>2. front \in Seq(S) /\ Len(front) = i - 1 /\ \A k \in 1..(i - 1) : front[k] = seq[k]
  BY <1>1
<1>3. back \in Seq(S) /\ Len(back) = Len(seq) - i /\ \A k \in 1..(Len(seq) - i) : back[k] = seq[k + i]
  BY <1>1
<1>4. RemoveAt(seq, i) = front \o back
  BY DEF RemoveAt
<1> HIDE DEF front, back
<1>5. /\ front \o back \in Seq(S) /\ Len(front \o back) = Len(seq) - 1
      /\ \A k \in 1..(Len(seq) - 1) :
             (front \o back)[k] = IF k =< i - 1 THEN front[k] ELSE back[k - (i - 1)]
  <2>1. Len(front) + Len(back) = Len(seq) - 1
    BY <1>1, <1>2, <1>3
  <2> QED
    BY <1>2, <1>3, <2>1
<1>6. ASSUME NEW k \in 1..(Len(seq) - 1)
      PROVE  (front \o back)[k] = IF k < i THEN seq[k] ELSE seq[k + 1]
  <2>1. CASE k < i
    <3>1. k \in 1..(i - 1) /\ k =< i - 1
      BY <1>1, <2>1
    <3> QED
      BY <1>2, <1>5, <2>1, <3>1
  <2>2. CASE ~(k < i)
    <3>1. ~(k =< i - 1) /\ k - (i - 1) \in 1..(Len(seq) - i) /\ (k - (i - 1)) + i = k + 1
      BY <1>1, <2>2
    <3> QED
      BY <1>3, <1>5, <2>2, <3>1
  <2> QED
    BY <2>1, <2>2
<1> QED
  BY <1>4, <1>5, <1>6

LEMMA HistoryConstants ==
    /\ Confirmations \in Nat \ {0} /\ DefaultStart \in Nat \ {0} /\ DefaultStart > Confirmations
    /\ MaxReorgs \in Nat /\ MaxHead \in Nat /\ Batch \in Nat \ {0} /\ RetryLimit \in Nat \ {0}
    /\ MaxHead >= DefaultStart + Confirmations
  BY HistorySyncAssumption

LEMMA ConfirmedRange ==
    ASSUME ChainInv
    PROVE  Confirmed \in Number /\ Confirmed \in Nat \ {0} /\ Confirmed =< head
  BY HistoryConstants DEF ChainInv, Confirmed, Number

LEMMA ConfirmedGrows ==
    ASSUME ChainInv, ChainInv', head' >= head
    PROVE  Confirmed \in Nat /\ Confirmed' \in Nat /\ Confirmed' >= Confirmed
<1>1. Confirmed = head - Confirmations /\ Confirmed' = head' - Confirmations
  BY DEF Confirmed
<1>2. head \in Nat /\ head' \in Nat /\ head >= DefaultStart + Confirmations
      /\ head' >= DefaultStart + Confirmations
  BY DEF ChainInv
<1>3. Confirmations \in Nat /\ DefaultStart \in Nat
  BY HistoryConstants
<1>4. \A h, k, c, d \in Nat : h >= d + c /\ k >= d + c /\ k >= h =>
          h - c \in Nat /\ k - c \in Nat /\ k - c >= h - c
  OBVIOUS
<1> QED
  BY <1>1, <1>2, <1>3, <1>4

(* A worker that is at work has one job.                                   *)
LEMMA PlaceOf ==
    ASSUME JobsInv, NEW q \in Queue, worker[q].at # "idle"
    PROVE  /\ mode # "down" /\ Place(q) \in 1..Len(jobs) /\ Active(Place(q), q)
           /\ \A i \in 1..Len(jobs) : Active(i, q) => i = Place(q)
           /\ JobOf(q) = jobs[Place(q)] /\ ValidJob(JobOf(q)) /\ WorksOn(worker[q], JobOf(q))
<1>1. mode # "down"
  BY DEF JobsInv, AtOneWorker
<1>2. \E i \in 1..Len(jobs) : Active(i, q)
  BY <1>1 DEF JobsInv, AtOneWorker
<1>3. \E i \in 1..Len(jobs) : jobs[i].state = "active" /\ QueueFor(jobs[i]) = q
  BY <1>2 DEF Active
<1>4. Place(q) \in 1..Len(jobs) /\ jobs[Place(q)].state = "active" /\ QueueFor(jobs[Place(q)]) = q
  BY <1>3 DEF Place
<1>5. Place(q) \in 1..Len(jobs) /\ Active(Place(q), q)
  BY <1>4 DEF Active
<1>6. \A i \in 1..Len(jobs) : Active(i, q) => i = Place(q)
  BY <1>5 DEF JobsInv, AtOneWorker
<1>7. ValidJob(jobs[Place(q)])
  BY <1>5 DEF JobsInv, JobsType
<1>8. WorksOn(worker[q], jobs[Place(q)])
  BY <1>5 DEF JobsInv, WorkInv
<1> QED
  BY <1>1, <1>5, <1>6, <1>7, <1>8 DEF JobOf

(* What is covered stays so while jobs get on and others join them.        *)
LEMMA CoveredWhile ==
    ASSUME rebuilt \subseteq rebuilt',
           \A i \in 1..Len(jobs) : \A m \in Model, n \in Number \ Empty :
               LeftOver(jobs[i], n, m) =>
                   Queued(n, m)' \/ \E k \in 1..Len(jobs') : LeftOver(jobs'[k], n, m)
    PROVE  \A m \in Model, n \in Number \ Empty : Cov(n, m) => Cov(n, m)'
<1>1. \A n, m : Queued(n, m) => Queued(n, m)'
  BY DEF Queued
<1> QED
  BY <1>1 DEF Cov

CoverKept == \A m \in Model, n \in Number \ Empty : Cov(n, m) => Cov(n, m)'

LEMMA ChainFrame ==
    ASSUME ChainInv, UNCHANGED <<setting, head, chain, reorgs, processed, found, mode>>
    PROVE  ChainInv'
  BY DEF ChainInv, Confirmed

LEMMA CallsFrame ==
    ASSUME CallsInv, UNCHANGED <<indexed, modelsToSync, call, mode>>
    PROVE  CallsInv'
  BY DEF CallsInv

LEMMA JobsFrame ==
    ASSUME ChainInv, ChainInv', JobsInv, UNCHANGED <<jobs, rebuilt, worker>>, head' >= head,
           (mode' = "down") = (mode = "down")
    PROVE  JobsInv' /\ CoverKept
<1>1. Confirmed' >= Confirmed /\ Confirmed \in Nat /\ Confirmed' \in Nat
  BY ConfirmedGrows
<1>2. JobsType'
  <2>1. \A i \in 1..Len(jobs) : ValidJob(jobs[i])'
    <3>1. \A i \in 1..Len(jobs) : ValidJob(jobs[i])
      BY DEF JobsInv, JobsType
    <3>2. ASSUME NEW i \in 1..Len(jobs) PROVE ValidJob(jobs[i])'
      <4>1. jobs[i].to \in Nat
        BY <3>1 DEF ValidJob, JobRecord
      <4> QED
        BY <1>1, <3>1, <4>1 DEF ValidJob, JobRecord
    <3> QED
      BY <3>2
  <2> QED
    BY <2>1 DEF JobsInv, JobsType
<1>3. \A i, q : Active(i, q)' <=> Active(i, q)
  BY DEF Active
<1>4. AtOneWorker'
  BY <1>3 DEF JobsInv, AtOneWorker
<1>5. \A n, m : Queued(n, m)' <=> Queued(n, m)
  BY DEF Queued
<1>6. \A j, limit, blocks : DoneBefore(j, limit, blocks)' <=> DoneBefore(j, limit, blocks)
  BY <1>5 DEF DoneBefore
<1>7. ASSUME NEW q \in Queue, NEW i \in 1..Len(jobs), WorksOn(worker[q], jobs[i])
      PROVE  WorksOn(worker[q], jobs[i])'
  <2>1. jobs[i].from \in Int
    BY DEF JobsInv, JobsType, ValidJob, JobRecord
  <2> QED
    BY <1>1, <1>5, <1>6, <1>7, <2>1 DEF WorksOn, JobsInv, JobsType, Block
<1>8. WorkInv'
  BY <1>3, <1>6, <1>7 DEF JobsInv, WorkInv
<1>9. CoverKept
  BY <1>5 DEF CoverKept, Cov
<1> QED
  BY <1>2, <1>4, <1>8, <1>9 DEF JobsInv

LEMMA ListenerFrame ==
    ASSUME ChainInv, ChainInv', ListenerInv, UNCHANGED <<listener, handlers>>, head' >= head
    PROVE  ListenerInv'
<1>1. Confirmed' >= Confirmed /\ Confirmed \in Nat /\ Confirmed' \in Nat
  BY ConfirmedGrows
<1> QED
  BY <1>1 DEF ListenerInv, HandlerRecord

(* A promise is kept while what is covered stays so, if the models that    *)
(* join are covered.                                                       *)
StartsCovered ==
    \A m \in Model : call'[m] = "started" =>
        call[m] = "started" \/ \A n \in Number \ Empty : n =< Confirmed => Cov(n, m)'

LEMMA PromiseKept ==
    ASSUME ChainInv, CoverKept, StartsCovered, NEW limit \in Nat, limit =< Confirmed, Promised(limit),
           NEW m \in Model, NEW n \in Number \ Empty, call'[m] = "started", n =< limit
    PROVE  Cov(n, m)'
<1>1. Confirmed \in Nat /\ n \in Nat
  BY ConfirmedRange, HistoryConstants DEF Number
<1>2. n =< Confirmed
  BY <1>1
<1>3. CASE call[m] = "started"
  BY <1>3 DEF CoverKept, Promised
<1>4. CASE call[m] # "started"
  BY <1>2, <1>4 DEF StartsCovered
<1> QED
  BY <1>3, <1>4

LEMMA FollowedKept ==
    ASSUME KeptInv, CoverKept, UNCHANGED followed
    PROVE  KeptInv'
  BY DEF KeptInv, CoverKept

LEMMA PromiseFrame ==
    ASSUME ChainInv, PromiseInv, CoverKept, StartsCovered,
           UNCHANGED <<setting, head, found, mode, listener, handlers>>
    PROVE  PromiseInv'
<1>1. LastNumber' = LastNumber
  BY DEF LastNumber
<1>2. Confirmed \in Nat
  BY ConfirmedRange
<1>4. mode # "down" => LastNumber \in Nat /\ LastNumber =< Confirmed
  BY HistoryConstants DEF PromiseInv, Heard, Number
<1>5. mode # "down" /\ Promised(LastNumber) => Promised(LastNumber)'
  <2> SUFFICES ASSUME mode # "down", Promised(LastNumber),
                      NEW m \in Model, NEW n \in Number \ Empty, call'[m] = "started", n =< LastNumber
               PROVE  Cov(n, m)'
    BY <1>1 DEF Promised
  <2> QED
    BY <1>4, PromiseKept
<1>6. ASSUME mode # "down", NEW job, PromisedWith(job) PROVE PromisedWith(job)'
  <2> SUFFICES ASSUME NEW m \in Model, NEW n \in Number \ Empty, call'[m] = "started", n =< LastNumber
               PROVE  Cov(n, m)' \/ (m \in job.models /\ job.from =< n)
    BY <1>1 DEF PromisedWith
  <2>1. CASE call[m] = "started"
    BY <1>6, <2>1 DEF PromisedWith, CoverKept
  <2>2. CASE call[m] # "started"
    <3>1. n \in Nat
      BY HistoryConstants DEF Number
    <3>2. n =< Confirmed
      BY <1>2, <1>4, <1>6, <3>1
    <3> QED
      BY <2>2, <3>2 DEF StartsCovered
  <2> QED
    BY <2>1, <2>2
<1>7. Heard => Heard'
  BY <1>1 DEF Heard, Confirmed, Unheardof, InTurn, ToCome, InRanges, Skipped
<1>8. ASSUME NEW h \in handlers
      PROVE  /\ handlers = {h} /\ h.number = LastNumber
             /\ h.at = "storing" => Promised(LastNumber)'
             /\ h.at = "adding" => PromisedWith(h.job)'
  BY <1>5, <1>6 DEF PromiseInv
<1>9. mode # "down" /\ handlers = {} => Promised(LastNumber)'
  BY <1>5 DEF PromiseInv
<1> QED
  BY <1>1, <1>7, <1>8, <1>9 DEF PromiseInv

-----------------------------------------------------------------------------
(* A job joins the queue.                                                  *)
NewJobs ==
    {j \in [type : Historic \cup {"reorg", "continuous"}, from : Nat \ {0}, to : Nat,
            models : SUBSET SyncName] : j.to =< Confirmed}

LEMMA JobAdded ==
    ASSUME ChainInv, JobsInv, NEW job \in NewJobs, AddJob(job), UNCHANGED <<head, rebuilt, worker>>,
           (mode' = "down") = (mode = "down")
    PROVE  /\ JobsInv' /\ CoverKept
           /\ \A m \in job.models, n \in Number : job.from =< n /\ n =< job.to => Cov(n, m)'
<1>1. UNCHANGED Confirmed /\ Confirmed \in Nat
  BY ConfirmedRange DEF Confirmed
<1>2. CASE job.models = {}
  <2>1. UNCHANGED jobs
    BY <1>2 DEF AddJob
  <2>2. JobsType'
    BY <1>1, <2>1 DEF JobsInv, JobsType, ValidJob
  <2>3. \A i, q : Active(i, q)' <=> Active(i, q)
    BY <2>1 DEF Active
  <2>4. AtOneWorker'
    BY <2>1, <2>3 DEF JobsInv, AtOneWorker
  <2>5. WorkInv'
    BY <1>1, <2>1, <2>3 DEF JobsInv, WorkInv, DoneBefore, Queued, WorksOn
  <2>6. CoverKept
    BY <2>1 DEF CoverKept, Cov, Queued
  <2> QED
    BY <1>2, <2>2, <2>4, <2>5, <2>6 DEF JobsInv
<1>3. CASE job.models # {}
  <2> DEFINE new == [type |-> job.type, from |-> job.from, current |-> job.from,
                     to |-> job.to, models |-> job.models, state |-> "created", tries |-> 0]
             L == Len(jobs)
  <2>1. jobs' = Append(jobs, new)
    BY <1>3 DEF AddJob
  <2>2. /\ new \in JobRecord /\ new.from = job.from /\ new.current = job.from /\ new.to = job.to
        /\ new.models = job.models /\ new.state = "created"
    BY HistoryConstants DEF NewJobs, JobRecord
  <2>3. ValidJob(new)' /\ DoneBefore(new, new.current, <<>>)'
    <3>1. job.from \in Nat \ {0} /\ job.to \in Nat /\ job.to =< Confirmed'
      BY <1>1 DEF NewJobs
    <3>2. ValidJob(new)'
      BY <2>2, <3>1 DEF ValidJob
    <3>3. DoneBefore(new, new.current, <<>>)'
      BY <2>2, <3>1, HistoryConstants DEF DoneBefore, Number
    <3> QED
      BY <3>2, <3>3
  <2> HIDE DEF new
  <2>4. /\ jobs' \in Seq(JobRecord) /\ Len(jobs') = L + 1 /\ L \in Nat
        /\ \A i \in 1..L : jobs'[i] = jobs[i]
        /\ jobs'[L + 1] = new
    BY <2>1, <2>2 DEF JobsInv, JobsType
  <2>5. \A i \in 1..(L + 1) : i \in 1..L \/ i = L + 1
    BY <2>4
  <2>6. JobsType'
    <3>1. \A i \in 1..L : ValidJob(jobs[i])'
      BY <1>1, <2>4 DEF JobsInv, JobsType, ValidJob
    <3>2. \A i \in 1..(L + 1) : ValidJob(jobs[i])'
      BY <2>3, <2>4, <2>5, <3>1 DEF ValidJob
    <3> QED
      BY <2>4, <3>2 DEF JobsInv, JobsType
  <2>7. \A q : \A i \in 1..(L + 1) : Active(i, q)' <=> Active(i, q)
    BY <2>2, <2>4, <2>5 DEF Active, QueueFor
  <2>8. AtOneWorker'
    <3>1. \A q : \A i \in 1..(L + 1) : Active(i, q) => i \in 1..L
      BY DEF Active
    <3> QED
      BY <2>4, <2>7, <3>1 DEF JobsInv, AtOneWorker
  <2>9. WorkInv'
    <3>1. \A i \in 1..L : DoneBefore(jobs[i], jobs[i].current, <<>>)'
      BY <2>4 DEF JobsInv, WorkInv, DoneBefore, Queued
    <3>2. \A i \in 1..(L + 1) : DoneBefore(jobs[i], jobs[i].current, <<>>)'
      BY <2>3, <2>4, <2>5, <3>1 DEF DoneBefore
    <3>3. ASSUME NEW q \in Queue, NEW i \in 1..(L + 1), Active(i, q)' PROVE WorksOn(worker[q], jobs[i])'
      <4>1. Active(i, q) /\ i \in 1..L /\ jobs'[i] = jobs[i]
        BY <2>4, <2>7, <3>3 DEF Active
      <4>2. WorksOn(worker[q], jobs[i])
        BY <4>1 DEF JobsInv, WorkInv
      <4> QED
        BY <1>1, <4>1, <4>2 DEF WorksOn, DoneBefore, Queued
    <3> QED
      BY <2>4, <3>2, <3>3 DEF WorkInv
  <2>10. CoverKept
    <3>1. \A i \in 1..L : i \in 1..Len(jobs')
      BY <2>4
    <3> QED
      BY <2>4, <3>1 DEF CoverKept, Cov, Queued
  <2>11. ASSUME NEW m \in job.models, NEW n \in Number, job.from =< n, n =< job.to PROVE Cov(n, m)'
    <3>1. LeftOver(new, n, m)
      BY <2>2, <2>11 DEF LeftOver, NewJobs, Number
    <3>2. L + 1 \in 1..Len(jobs')
      BY <2>4
    <3> QED
      BY <2>4, <3>1, <3>2 DEF Cov, LeftOver
  <2> QED
    BY <2>6, <2>8, <2>9, <2>10, <2>11 DEF JobsInv
<1> QED
  BY <1>2, <1>3

(* Jobs get on: their ranges and models stay, and what a job has put       *)
(* behind it is rebuilt.                                                   *)
SameJob(j, k) ==
    k.type = j.type /\ k.from = j.from /\ k.to = j.to /\ k.models = j.models

LEMMA JobsGetOn ==
    ASSUME ChainInv, JobsInv, UNCHANGED <<head, rebuilt>>,
           jobs' \in Seq(JobRecord), Len(jobs') = Len(jobs),
           \A i \in 1..Len(jobs) :
               /\ SameJob(jobs[i], jobs'[i]) /\ jobs'[i].current >= jobs[i].from
               /\ DoneBefore(jobs[i], jobs'[i].current, <<>>)
    PROVE  /\ \A i \in 1..Len(jobs') : ValidJob(jobs[i])'
           /\ \A i \in 1..Len(jobs') : DoneBefore(jobs[i], jobs[i].current, <<>>)'
           /\ \A i \in 1..Len(jobs') : QueueFor(jobs'[i]) = QueueFor(jobs[i])
           /\ CoverKept
<1>1. UNCHANGED Confirmed
  BY DEF Confirmed
<1>2. \A i \in 1..Len(jobs) : jobs'[i] \in JobRecord /\ ValidJob(jobs[i])
  BY DEF JobsInv, JobsType
<1>3. \A i \in 1..Len(jobs) : ValidJob(jobs[i])'
  BY <1>1, <1>2 DEF ValidJob, SameJob
<1>4. \A i \in 1..Len(jobs) : DoneBefore(jobs[i], jobs[i].current, <<>>)'
  BY DEF DoneBefore, SameJob, Queued
<1>5. \A i \in 1..Len(jobs) : QueueFor(jobs'[i]) = QueueFor(jobs[i])
  BY DEF QueueFor, SameJob
<1>6. ASSUME NEW i \in 1..Len(jobs), NEW m \in Model, NEW n \in Number \ Empty, LeftOver(jobs[i], n, m)
      PROVE  Queued(n, m)' \/ \E k \in 1..Len(jobs') : LeftOver(jobs'[k], n, m)
  <2>1. n \in Int /\ m \in jobs[i].models /\ jobs[i].current =< n /\ n =< jobs[i].to
        /\ jobs[i].from =< n /\ jobs'[i].current \in Int
    <3>1. /\ jobs[i].current \in Int /\ jobs[i].from \in Int /\ jobs[i].to \in Nat
          /\ jobs[i].from =< jobs[i].current
      BY <1>2 DEF ValidJob, JobRecord
    <3>2. jobs'[i].current \in Int
      BY <1>2 DEF JobRecord
    <3>3. m \in jobs[i].models /\ n \in jobs[i].current..jobs[i].to
      BY <1>6 DEF LeftOver
    <3> QED
      BY <3>1, <3>2, <3>3
  <2>2. CASE n < jobs'[i].current
    <3>1. Queued(n, m) \/ Has(<<>>, n)
      BY <2>1, <2>2 DEF DoneBefore
    <3>2. ~Has(<<>>, n)
      BY DEF Has
    <3> QED
      BY <3>1, <3>2 DEF Queued
  <2>3. CASE ~(n < jobs'[i].current)
    <3>1. LeftOver(jobs'[i], n, m)
      BY <1>6, <2>1, <2>3 DEF LeftOver, SameJob
    <3> QED
      BY <3>1
  <2> QED
    BY <2>2, <2>3
<1>7. CoverKept
  BY <1>6, CoveredWhile DEF CoverKept
<1> QED
  BY <1>3, <1>4, <1>5, <1>7

(* A worker lets go of its job: of the state of no other, and nothing of   *)
(* its own, depends on it.                                                 *)
LEMMA WorkerLetsGo ==
    ASSUME ChainInv, JobsInv, NEW q \in Queue, worker[q].at # "idle",
           UNCHANGED <<head, rebuilt, mode>>,
           worker' = [worker EXCEPT ![q] = Idle],
           jobs' \in Seq(JobRecord), Len(jobs') = Len(jobs),
           \A i \in 1..Len(jobs) :
               /\ SameJob(jobs[i], jobs'[i]) /\ jobs'[i].current = jobs[i].current
               /\ i # Place(q) => jobs'[i] = jobs[i],
           jobs'[Place(q)].state # "active"
    PROVE  JobsInv' /\ CoverKept
<1>1. /\ mode # "down" /\ Place(q) \in 1..Len(jobs) /\ Active(Place(q), q)
      /\ \A i \in 1..Len(jobs) : Active(i, q) => i = Place(q)
  BY PlaceOf
<1>2. \A i \in 1..Len(jobs) : jobs'[i].current >= jobs[i].from /\ DoneBefore(jobs[i], jobs'[i].current, <<>>)
  BY DEF JobsInv, JobsType, WorkInv, ValidJob
<1>3. /\ \A i \in 1..Len(jobs') : ValidJob(jobs[i])'
      /\ \A i \in 1..Len(jobs') : DoneBefore(jobs[i], jobs[i].current, <<>>)'
      /\ CoverKept
  BY <1>2, JobsGetOn
<1>4. \A i \in 1..Len(jobs') : QueueFor(jobs'[i]) = QueueFor(jobs[i])
  BY DEF QueueFor, SameJob
<1>5. ASSUME NEW p \in Queue, NEW i \in 1..Len(jobs) PROVE Active(i, p)' <=> Active(i, p) /\ i # Place(q)
  BY <1>1, <1>4 DEF Active
<1>6. /\ Idle \in [at : {"idle", "failing", "working", "updating", "completing"}, next : Nat, blocks : Seq(Block)]
      /\ Idle.at = "idle"
  BY DEF Idle
<1>7. /\ DOMAIN worker = Queue /\ worker'[q] = Idle
      /\ \A p \in Queue : p # q => worker'[p] = worker[p]
  BY DEF JobsInv, JobsType
<1>8. JobsType'
  BY <1>3, <1>6 DEF JobsInv, JobsType
<1>9. AtOneWorker'
  <2>1. \A p \in Queue : \A i, k \in 1..Len(jobs') : Active(i, p)' /\ Active(k, p)' => i = k
    BY <1>5 DEF JobsInv, AtOneWorker
  <2>2. ASSUME NEW p \in Queue PROVE worker'[p].at # "idle" <=> \E i \in 1..Len(jobs') : Active(i, p)'
    <3>1. CASE p = q
      BY <1>1, <1>5, <1>6, <1>7, <3>1
    <3>2. CASE p # q
      <4>1. ~Active(Place(q), p)
        BY <1>1, <3>2 DEF Active
      <4>2. \A i \in 1..Len(jobs) : Active(i, p)' <=> Active(i, p)
        BY <1>5, <4>1
      <4>3. worker[p].at # "idle" <=> \E i \in 1..Len(jobs) : Active(i, p)
        BY <1>1 DEF JobsInv, AtOneWorker
      <4> QED
        BY <1>7, <3>2, <4>2, <4>3
    <3> QED
      BY <3>1, <3>2
  <2> QED
    BY <1>1, <2>1, <2>2 DEF AtOneWorker
<1>10. WorkInv'
  <2>1. ASSUME NEW p \in Queue, NEW i \in 1..Len(jobs'), Active(i, p)' PROVE WorksOn(worker[p], jobs[i])'
    <3>1. Active(i, p) /\ i # Place(q)
      BY <1>5, <2>1
    <3>2. p # q /\ jobs'[i] = jobs[i] /\ worker'[p] = worker[p]
      BY <1>1, <1>7, <3>1
    <3>3. WorksOn(worker[p], jobs[i])
      BY <3>1 DEF JobsInv, WorkInv
    <3>4. UNCHANGED Confirmed
      BY DEF Confirmed
    <3> QED
      BY <3>2, <3>3, <3>4 DEF WorksOn, DoneBefore, Queued
  <2> QED
    BY <1>3, <2>1 DEF WorkInv
<1> QED
  BY <1>3, <1>8, <1>9, <1>10 DEF JobsInv

LEMMA JobFailsKeeps ==
    ASSUME ChainInv, JobsInv, NEW q \in Queue, worker[q].at # "idle", JobFails(q)
    PROVE  JobsInv' /\ CoverKept
<1> DEFINE p == Place(q)
           j == jobs[p]
           new == IF j.tries < RetryLimit THEN [j EXCEPT !.state = "retry", !.tries = j.tries + 1]
                  ELSE [j EXCEPT !.state = "failed"]
<1>1. p \in 1..Len(jobs) /\ Active(p, q) /\ j \in JobRecord
  BY PlaceOf DEF JobsInv, JobsType
<1>2. jobs' = [jobs EXCEPT ![p] = new] /\ worker' = [worker EXCEPT ![q] = Idle]
      /\ UNCHANGED <<head, rebuilt, mode>>
  <2>1. UNCHANGED <<head, rebuilt, mode>> /\ worker' = [worker EXCEPT ![q] = Idle]
    BY DEF JobFails, chainVars
  <2>2. CASE j.tries < RetryLimit
    <3>1. jobs' = [jobs EXCEPT ![p] = [j EXCEPT !.state = "retry", !.tries = j.tries + 1]]
      BY <2>2 DEF JobFails, JobOf
    <3> QED
      BY <2>1, <2>2, <3>1
  <2>3. CASE ~(j.tries < RetryLimit)
    <3>1. jobs' = [jobs EXCEPT ![p] = [j EXCEPT !.state = "failed"]]
      BY <2>3 DEF JobFails, JobOf
    <3> QED
      BY <2>1, <2>3, <3>1
  <2> QED
    BY <2>2, <2>3
<1>3. new \in JobRecord /\ SameJob(j, new) /\ new.current = j.current /\ new.state # "active"
  <2>1. CASE j.tries < RetryLimit
    <3>1. j.tries + 1 \in 0..RetryLimit
      BY <1>1, <2>1, HistoryConstants DEF JobRecord
    <3> QED
      BY <1>1, <2>1, <3>1 DEF JobRecord, SameJob
  <2>2. CASE ~(j.tries < RetryLimit)
    BY <1>1, <2>2 DEF JobRecord, SameJob
  <2> QED
    BY <2>1, <2>2
<1> HIDE DEF new
<1>4. jobs \in Seq(JobRecord)
  BY DEF JobsInv, JobsType
<1>5. /\ jobs' \in Seq(JobRecord) /\ Len(jobs') = Len(jobs) /\ jobs'[p] = new
      /\ \A i \in 1..Len(jobs) : i # p => jobs'[i] = jobs[i]
  <2> HIDE DEF p
  <2> QED
    BY <1>1, <1>2, <1>3, <1>4
<1>6. \A i \in 1..Len(jobs) : SameJob(jobs[i], jobs'[i]) /\ jobs'[i].current = jobs[i].current
  BY <1>3, <1>5 DEF SameJob
<1>7. jobs'[p].state # "active"
  BY <1>3, <1>5
<1> QED
  BY <1>2, <1>5, <1>6, <1>7, WorkerLetsGo

(* A worker gets on with its job, and the job with it.                     *)
LEMMA WorkerGetsOn ==
    ASSUME ChainInv, JobsInv, NEW q \in Queue, worker[q].at # "idle",
           UNCHANGED <<head, mode, jobs>>, rebuilt \subseteq rebuilt', NEW w, w.at # "idle",
           w \in [at : {"idle", "failing", "working", "updating", "completing"},
                  next : Nat, blocks : Seq(Block)],
           worker' = [worker EXCEPT ![q] = w], WorksOn(worker[q], JobOf(q))'
    PROVE  JobsInv' /\ CoverKept
<1>1. /\ mode # "down" /\ Place(q) \in 1..Len(jobs) /\ Active(Place(q), q)
      /\ \A i \in 1..Len(jobs) : Active(i, q) => i = Place(q)
  BY PlaceOf
<1>2. UNCHANGED Confirmed
  BY DEF Confirmed
<1>3. /\ DOMAIN worker = Queue /\ worker'[q] = w
      /\ \A p \in Queue : p # q => worker'[p] = worker[p]
  BY DEF JobsInv, JobsType
<1>4. JobsType'
  <2>1. \A i \in 1..Len(jobs) : ValidJob(jobs[i])'
    BY <1>2 DEF JobsInv, JobsType, ValidJob
  <2> QED
    BY <2>1 DEF JobsInv, JobsType
<1>5. \A p, i : Active(i, p)' <=> Active(i, p)
  BY DEF Active
<1>6. AtOneWorker'
  <2>1. \A p \in Queue : worker'[p].at # "idle" <=> worker[p].at # "idle"
    BY <1>3
  <2> QED
    BY <1>1, <1>5, <2>1 DEF JobsInv, AtOneWorker
<1>7. \A n, m : Queued(n, m) => Queued(n, m)'
  BY DEF Queued
<1>8. \A j, limit, blocks : DoneBefore(j, limit, blocks) => DoneBefore(j, limit, blocks)'
  BY <1>7 DEF DoneBefore
<1>9. WorkInv'
  <2>1. ASSUME NEW p \in Queue, NEW i \in 1..Len(jobs), Active(i, p)' PROVE WorksOn(worker[p], jobs[i])'
    <3>1. CASE p = q
      <4>1. i = Place(q)
        BY <1>1, <1>5, <2>1, <3>1
      <4>2. JobOf(q)' = jobs[i]
        BY <4>1 DEF JobOf, Place
      <4> QED
        BY <1>3, <3>1, <4>2
    <3>2. CASE p # q
      <4>1. WorksOn(worker[p], jobs[i]) /\ worker'[p] = worker[p]
        BY <1>3, <1>5, <2>1, <3>2 DEF JobsInv, WorkInv
      <4> QED
        BY <1>2, <1>7, <1>8, <4>1 DEF WorksOn
    <3> QED
      BY <3>1, <3>2
  <2>2. \A i \in 1..Len(jobs) : DoneBefore(jobs[i], jobs[i].current, <<>>)'
    BY <1>8 DEF JobsInv, WorkInv
  <2> QED
    BY <2>1, <2>2 DEF WorkInv
<1>10. CoverKept
  BY <1>7 DEF CoverKept, Cov
<1> QED
  BY <1>4, <1>6, <1>9, <1>10 DEF JobsInv

LEMMA FetchKeeps ==
    ASSUME ChainInv, JobsInv, NEW q \in Queue, Fetch(q)
    PROVE  JobsInv' /\ CoverKept
<1> DEFINE Done(i) == IF jobs[i].current > jobs[i].to THEN "failing" ELSE "working"
<1>1. mode # "down" /\ worker[q].at = "idle" /\ UNCHANGED <<head, rebuilt, mode>>
  BY DEF Fetch, chainVars
<1>2. PICK i \in 1..Len(jobs) :
        /\ QueueFor(jobs[i]) = q /\ jobs[i].state \in {"created", "retry"}
        /\ jobs' = [jobs EXCEPT ![i].state = "active"]
        /\ worker' = [worker EXCEPT ![q] = [at |-> Done(i), next |-> jobs[i].current, blocks |-> <<>>]]
  BY DEF Fetch
<1> DEFINE j == jobs[i]
           new == [j EXCEPT !.state = "active"]
           w == [at |-> Done(i), next |-> j.current, blocks |-> <<>>]
<1>3. j \in JobRecord /\ ValidJob(j) /\ DoneBefore(j, j.current, <<>>) /\ j.current \in Nat
  BY DEF JobsInv, JobsType, WorkInv, ValidJob, JobRecord
<1>4. new \in JobRecord /\ SameJob(j, new) /\ new.current = j.current /\ new.state = "active"
  BY <1>3 DEF JobRecord, SameJob
<1>5. jobs' = [jobs EXCEPT ![i] = new]
  BY <1>2
<1>6. /\ w.at \in {"failing", "working"} /\ w.next = j.current /\ w.blocks = <<>>
      /\ w \in [at : {"idle", "failing", "working", "updating", "completing"}, next : Nat, blocks : Seq(Block)]
      /\ w.at # "idle" /\ worker' = [worker EXCEPT ![q] = w]
  BY <1>2, <1>3
<1> HIDE DEF new, w, Done
<1>7. jobs \in Seq(JobRecord)
  BY DEF JobsInv, JobsType
<1>8. /\ jobs' \in Seq(JobRecord) /\ Len(jobs') = Len(jobs) /\ jobs'[i] = new
      /\ \A k \in 1..Len(jobs) : k # i => jobs'[k] = jobs[k]
  BY <1>4, <1>5, <1>7
<1>9. \A k \in 1..Len(jobs) : SameJob(jobs[k], jobs'[k]) /\ jobs'[k].current = jobs[k].current
  BY <1>4, <1>8 DEF SameJob
<1>10. \A k \in 1..Len(jobs) : jobs'[k].current >= jobs[k].from /\ DoneBefore(jobs[k], jobs'[k].current, <<>>)
  BY <1>9 DEF JobsInv, JobsType, WorkInv, ValidJob
<1>11. /\ \A k \in 1..Len(jobs') : ValidJob(jobs[k])'
       /\ \A k \in 1..Len(jobs') : DoneBefore(jobs[k], jobs[k].current, <<>>)'
       /\ CoverKept
  BY <1>1, <1>8, <1>9, <1>10, JobsGetOn
<1>12. \A k \in 1..Len(jobs) : QueueFor(jobs'[k]) = QueueFor(jobs[k])
  BY <1>9 DEF QueueFor, SameJob
<1>13. ASSUME NEW p \in Queue, NEW k \in 1..Len(jobs) PROVE Active(k, p)' <=> Active(k, p) \/ (k = i /\ p = q)
  BY <1>2, <1>4, <1>8, <1>12 DEF Active
<1>14. \A k \in 1..Len(jobs) : ~Active(k, q)
  BY <1>1 DEF JobsInv, AtOneWorker
<1>15. /\ DOMAIN worker = Queue /\ worker'[q] = w
       /\ \A p \in Queue : p # q => worker'[p] = worker[p]
  BY <1>6 DEF JobsInv, JobsType
<1>16. JobsType'
  BY <1>6, <1>8, <1>11 DEF JobsInv, JobsType
<1>17. AtOneWorker'
  <2>1. \A p \in Queue : \A k, l \in 1..Len(jobs') : Active(k, p)' /\ Active(l, p)' => k = l
    BY <1>8, <1>13, <1>14 DEF JobsInv, AtOneWorker
  <2>2. ASSUME NEW p \in Queue PROVE worker'[p].at # "idle" <=> \E k \in 1..Len(jobs') : Active(k, p)'
    <3>1. CASE p = q
      BY <1>6, <1>8, <1>13, <1>15, <3>1
    <3>2. CASE p # q
      <4>1. worker[p].at # "idle" <=> \E k \in 1..Len(jobs) : Active(k, p)
        BY <1>1 DEF JobsInv, AtOneWorker
      <4> QED
        BY <1>8, <1>13, <1>15, <3>2, <4>1
    <3> QED
      BY <3>1, <3>2
  <2> QED
    BY <1>1, <2>1, <2>2 DEF AtOneWorker
<1>18. WorkInv'
  <2>1. ASSUME NEW p \in Queue, NEW k \in 1..Len(jobs'), Active(k, p)' PROVE WorksOn(worker[p], jobs[k])'
    <3>1. CASE p = q
      <4>1. k = i
        BY <1>8, <1>13, <1>14, <2>1, <3>1
      <4>2. DoneBefore(jobs[k], jobs[k].current, <<>>)'
        BY <1>11
      <4>3. /\ jobs'[k].from =< jobs'[k].current /\ jobs'[k].current = worker'[p].next
            /\ worker'[p].at \in {"failing", "working"} /\ worker'[p].blocks = <<>>
        BY <1>3, <1>4, <1>6, <1>8, <1>15, <3>1, <4>1 DEF ValidJob, SameJob
      <4>4. jobs'[k].from \in Int /\ jobs'[k].current \in Int
        <5>1. jobs'[k] \in JobRecord
          BY <1>8
        <5> QED
          BY <5>1 DEF JobRecord
      <4> QED
        BY <4>2, <4>3, <4>4 DEF WorksOn, Ascending, DoneBefore
    <3>2. CASE p # q
      <4>1. Active(k, p) /\ k # i
        BY <1>2, <1>8, <1>13, <2>1, <3>2 DEF Active
      <4>2. jobs'[k] = jobs[k] /\ worker'[p] = worker[p] /\ WorksOn(worker[p], jobs[k])
        BY <1>8, <1>15, <3>2, <4>1 DEF JobsInv, WorkInv
      <4>3. UNCHANGED Confirmed
        BY <1>1 DEF Confirmed
      <4> QED
        BY <1>1, <4>2, <4>3 DEF WorksOn, DoneBefore, Queued
    <3> QED
      BY <3>1, <3>2
  <2> QED
    BY <1>11, <2>1 DEF WorkInv
<1> QED
  BY <1>11, <1>16, <1>17, <1>18 DEF JobsInv

LEMMA CompleteKeeps ==
    ASSUME ChainInv, JobsInv, NEW q \in Queue, Complete(q)
    PROVE  JobsInv' /\ CoverKept
<1> DEFINE p == Place(q)
           L == Len(jobs)
<1>1. /\ worker[q].at = "completing" /\ jobs' = RemoveAt(jobs, p)
      /\ worker' = [worker EXCEPT ![q] = Idle] /\ UNCHANGED <<head, rebuilt, mode>>
  BY DEF Complete, chainVars
<1>2. /\ mode # "down" /\ p \in 1..L /\ Active(p, q)
      /\ \A i \in 1..L : Active(i, q) => i = p
      /\ ValidJob(jobs[p]) /\ WorksOn(worker[q], jobs[p])
  BY <1>1, PlaceOf
<1>3. jobs \in Seq(JobRecord) /\ L \in Nat /\ p \in DOMAIN jobs
  BY <1>2 DEF JobsInv, JobsType
<1> HIDE DEF p
<1>4. /\ jobs' \in Seq(JobRecord) /\ Len(jobs') = L - 1
      /\ \A k \in 1..(L - 1) : jobs'[k] = IF k < p THEN jobs[k] ELSE jobs[k + 1]
  BY <1>1, <1>3, JobTakenOut
<1> DEFINE old(k) == IF k < p THEN k ELSE k + 1
<1>5. \A k \in 1..(L - 1) : old(k) \in 1..L /\ old(k) # p /\ jobs'[k] = jobs[old(k)]
  BY <1>2, <1>3, <1>4
<1>6. \A k, l \in 1..(L - 1) : old(k) = old(l) => k = l
  BY <1>2, <1>3
<1>7. \A i \in 1..L : i # p => \E k \in 1..(L - 1) : old(k) = i
  <2> SUFFICES ASSUME NEW i \in 1..L, i # p PROVE \E k \in 1..(L - 1) : old(k) = i
    OBVIOUS
  <2>1. CASE i < p
    <3>1. i \in 1..(L - 1) /\ old(i) = i
      BY <1>2, <1>3, <2>1
    <3> QED
      BY <3>1
  <2>2. CASE i > p
    <3>1. i - 1 \in 1..(L - 1) /\ old(i - 1) = i
      BY <1>2, <1>3, <2>2
    <3> QED
      BY <3>1
  <2> QED
    BY <1>2, <1>3, <2>1, <2>2
<1> HIDE DEF old
<1>8. ASSUME NEW r \in Queue, NEW k \in 1..(L - 1) PROVE Active(k, r)' <=> Active(old(k), r)
  BY <1>4, <1>5 DEF Active
<1>9. /\ Idle \in [at : {"idle", "failing", "working", "updating", "completing"}, next : Nat, blocks : Seq(Block)]
      /\ Idle.at = "idle"
  BY DEF Idle
<1>10. /\ DOMAIN worker = Queue /\ worker'[q] = Idle
       /\ \A r \in Queue : r # q => worker'[r] = worker[r]
  BY <1>1 DEF JobsInv, JobsType
<1>11. UNCHANGED Confirmed
  BY <1>1 DEF Confirmed
<1>12. JobsType'
  <2>1. \A k \in 1..(L - 1) : ValidJob(jobs[k])'
    BY <1>5, <1>11 DEF JobsInv, JobsType, ValidJob
  <2> QED
    BY <1>1, <1>4, <1>9, <2>1 DEF JobsInv, JobsType
<1>13. AtOneWorker'
  <2>1. \A r \in Queue : \A k, l \in 1..(L - 1) : Active(k, r)' /\ Active(l, r)' => k = l
    BY <1>5, <1>6, <1>8 DEF JobsInv, AtOneWorker
  <2>2. ASSUME NEW r \in Queue PROVE worker'[r].at # "idle" <=> \E k \in 1..(L - 1) : Active(k, r)'
    <3>1. CASE r = q
      BY <1>2, <1>5, <1>8, <1>9, <1>10, <3>1
    <3>2. CASE r # q
      <4>1. worker[r].at # "idle" <=> \E i \in 1..L : Active(i, r)
        BY <1>2 DEF JobsInv, AtOneWorker
      <4>2. ~Active(p, r)
        BY <1>2, <3>2 DEF Active
      <4>3. (\E i \in 1..L : Active(i, r)) <=> \E k \in 1..(L - 1) : Active(old(k), r)
        BY <1>5, <1>7, <4>2
      <4> QED
        BY <1>8, <1>10, <3>2, <4>1, <4>3
    <3> QED
      BY <3>1, <3>2
  <2> QED
    BY <1>1, <1>2, <1>4, <2>1, <2>2 DEF AtOneWorker
<1>14. WorkInv'
  <2>1. ASSUME NEW r \in Queue, NEW k \in 1..(L - 1), Active(k, r)' PROVE WorksOn(worker[r], jobs[k])'
    <3>1. Active(old(k), r) /\ old(k) # p /\ old(k) \in 1..L /\ jobs'[k] = jobs[old(k)]
      BY <1>5, <1>8, <2>1
    <3>2. worker'[r] = worker[r] /\ WorksOn(worker[r], jobs[old(k)])
      BY <1>2, <1>10, <3>1 DEF JobsInv, WorkInv
    <3> QED
      BY <1>1, <1>11, <3>1, <3>2 DEF WorksOn, DoneBefore, Queued
  <2>2. \A k \in 1..(L - 1) : DoneBefore(jobs[k], jobs[k].current, <<>>)'
    BY <1>1, <1>5 DEF JobsInv, WorkInv, DoneBefore, Queued
  <2> QED
    BY <1>4, <2>1, <2>2 DEF WorkInv
<1>15. ASSUME NEW i \in 1..L, NEW m \in Model, NEW n \in Number \ Empty, LeftOver(jobs[i], n, m)
       PROVE  Queued(n, m)' \/ \E k \in 1..Len(jobs') : LeftOver(jobs'[k], n, m)
  <2>1. CASE i = p
    <3>1. DoneBefore(jobs[p], jobs[p].to + 1, <<>>)
      BY <1>1, <1>2 DEF WorksOn
    <3>2. /\ jobs[p].current \in Int /\ jobs[p].from \in Int /\ jobs[p].to \in Nat
          /\ jobs[p].from =< jobs[p].current
      BY <1>2 DEF ValidJob, JobRecord
    <3>3. m \in jobs[p].models /\ n \in jobs[p].current..jobs[p].to
      BY <1>15, <2>1 DEF LeftOver
    <3>4. jobs[p].from =< n /\ n < jobs[p].to + 1
      BY <3>2, <3>3
    <3>5. Queued(n, m) \/ Has(<<>>, n)
      BY <3>1, <3>3, <3>4 DEF DoneBefore
    <3> QED
      BY <1>1, <3>5 DEF Has, Queued
  <2>2. CASE i # p
    BY <1>4, <1>5, <1>7, <1>15, <2>2
  <2> QED
    BY <2>1, <2>2
<1>16. CoverKept
  BY <1>1, <1>15, CoveredWhile DEF CoverKept
<1> QED
  BY <1>12, <1>13, <1>14, <1>16 DEF JobsInv

LEMMA MinOfTwo ==
    ASSUME NEW a \in Int, NEW b \in Int
    PROVE  Min({a, b}) \in {a, b} /\ Min({a, b}) =< a /\ Min({a, b}) =< b
<1>1. \E x \in {a, b} : \A y \in {a, b} : x =< y
  <2>1. CASE a =< b
    BY <2>1
  <2>2. CASE b =< a
    BY <2>2
  <2> QED
    BY <2>1, <2>2
<1> QED
  BY <1>1 DEF Min

LEMMA LoadKeeps ==
    ASSUME ChainInv, ~Crosses, JobsInv, NEW q \in Queue, Load(q)
    PROVE  JobsInv' /\ CoverKept
<1> DEFINE j == JobOf(q)
           next == worker[q].next
           last == Min({next + Batch - 1, j.to})
           blocks == LoadRange(next, last)
           w == [at |-> "working", next |-> last + 1, blocks |-> blocks]
<1>1. /\ worker[q].at = "working" /\ worker[q].blocks = <<>> /\ next =< j.to
      /\ UNCHANGED <<head, rebuilt, mode, jobs>>
      /\ worker' = [worker EXCEPT ![q].next = last + 1, ![q].blocks = blocks]
  BY DEF Load, chainVars
<1>2. ValidJob(j) /\ WorksOn(worker[q], j)
  BY <1>1, PlaceOf
<1>3. /\ j.from \in Nat \ {0} /\ j.to \in Nat /\ j.to =< Confirmed
      /\ next \in Nat /\ j.from =< next
  BY <1>1, <1>2 DEF ValidJob, JobRecord, WorksOn, JobsInv, JobsType
<1>4. last \in Nat /\ next =< last /\ last =< j.to
  <2>1. next + Batch - 1 \in Nat /\ next + Batch - 1 >= next
    BY <1>3, HistoryConstants
  <2>2. last \in {next + Batch - 1, j.to} /\ last =< next + Batch - 1 /\ last =< j.to
    <3>1. \A a, b \in Int : Min({a, b}) \in {a, b} /\ Min({a, b}) =< a /\ Min({a, b}) =< b
      BY MinOfTwo
    <3>2. next + Batch - 1 \in Int /\ j.to \in Int
      BY <1>3, <2>1
    <3> HIDE DEF next, j
    <3> QED
      BY <3>1, <3>2
  <2> HIDE DEF last
  <2> QED
    BY <1>1, <1>3, <2>1, <2>2
<1> HIDE DEF last, j, next
<1>5. next \in Nat \ {0} /\ last =< Confirmed /\ Confirmed \in Nat
  BY <1>3, <1>4, ConfirmedRange
<1>6. /\ blocks \in Seq(Block) /\ Ascending(blocks)
      /\ \A i \in 1..Len(blocks) : blocks[i].number \in next..last
      /\ \A n \in Loaded(next, last) : Has(blocks, n)
  BY <1>4, <1>5, BlocksLoaded
<1> HIDE DEF blocks
<1>7. worker' = [worker EXCEPT ![q] = w]
  <2>1. worker[q] \in [at : {"idle", "failing", "working", "updating", "completing"},
                       next : Nat, blocks : Seq(Block)]
    BY DEF JobsInv, JobsType
  <2>2. [[worker[q] EXCEPT !.next = last + 1] EXCEPT !.blocks = blocks] = w
    <3> DEFINE new == [[worker[q] EXCEPT !.next = last + 1] EXCEPT !.blocks = blocks]
    <3>1. new = [k \in {"at", "next", "blocks"} |-> new[k]]
      BY <2>1
    <3>2. new.at = "working" /\ new.next = last + 1 /\ new.blocks = blocks
      BY <1>1, <2>1
    <3> HIDE DEF new
    <3>3. w = [k \in {"at", "next", "blocks"} |-> w[k]]
      OBVIOUS
    <3>4. \A k \in {"at", "next", "blocks"} : new[k] = w[k]
      BY <3>2
    <3> HIDE DEF w
    <3> QED
      BY <3>1, <3>3, <3>4 DEF new
  <2>3. worker' = [worker EXCEPT ![q] = [[worker[q] EXCEPT !.next = last + 1] EXCEPT !.blocks = blocks]]
    BY <1>1 DEF JobsInv, JobsType
  <2> QED
    BY <2>2, <2>3
<1>8. /\ w.at = "working" /\ w.next = last + 1 /\ w.blocks = blocks
      /\ w \in [at : {"idle", "failing", "working", "updating", "completing"},
                next : Nat, blocks : Seq(Block)]
  BY <1>4, <1>6
<1> HIDE DEF w
<1>9. DoneBefore(j, last + 1, blocks)
  <2> SUFFICES ASSUME NEW m \in j.models \cap Model, NEW n \in Number \ Empty, j.from =< n, n < last + 1
               PROVE  Queued(n, m) \/ Has(blocks, n)
    BY DEF DoneBefore
  <2>1. n \in Int
    BY HistoryConstants DEF Number
  <2>2. CASE n < next
    <3>1. DoneBefore(j, next, <<>>)
      BY <1>1, <1>2 DEF WorksOn, next
    <3>2. Queued(n, m) \/ Has(<<>>, n)
      BY <2>2, <3>1 DEF DoneBefore
    <3> QED
      BY <3>2 DEF Has
  <2>3. CASE ~(n < next)
    <3>1. n \in next..last
      BY <1>3, <1>4, <2>1, <2>3
    <3>2. n \in Loaded(next, last)
      BY <3>1 DEF Loaded
    <3> QED
      BY <1>6, <3>2
  <2> QED
    BY <2>2, <2>3
<1>10. \A i \in 1..Len(blocks) : blocks[i].number \in j.from..Confirmed /\ blocks[i].number < last + 1
  BY <1>3, <1>4, <1>5, <1>6
<1>11. WorksOn(w, j)
  BY <1>3, <1>4, <1>6, <1>8, <1>9, <1>10 DEF WorksOn
<1>12. JobOf(q)' = j /\ UNCHANGED Confirmed
  BY <1>1 DEF j, JobOf, Place, Confirmed
<1>13. worker'[q] = w /\ w.at # "idle"
  BY <1>7, <1>8 DEF JobsInv, JobsType
<1>14. WorksOn(worker[q], JobOf(q))'
  <2>1. \A n, m : Queued(n, m) => Queued(n, m)'
    BY <1>1 DEF Queued
  <2>2. DoneBefore(JobOf(q), worker[q].next, worker[q].blocks)'
    BY <1>8, <1>9, <1>12, <1>13, <2>1 DEF DoneBefore
  <2> QED
    BY <1>3, <1>4, <1>6, <1>8, <1>10, <1>12, <1>13, <2>2 DEF WorksOn
<1> QED
  BY <1>1, <1>7, <1>8, <1>13, <1>14, WorkerGetsOn

LEMMA AddRebuildJobsKeeps ==
    ASSUME ChainInv, JobsInv, NEW q \in Queue, AddRebuildJobs(q)
    PROVE  JobsInv' /\ CoverKept
<1> DEFINE j == JobOf(q)
           block == Head(worker[q].blocks)
           w == [worker[q] EXCEPT !.at = "updating"]
<1>1. /\ worker[q].at = "working" /\ worker[q].blocks # <<>>
      /\ UNCHANGED <<head, mode, jobs>>
      /\ rebuilt' = IF block.number \in Empty THEN rebuilt
                    ELSE rebuilt \cup {<<block.number, block.hash[2], m>> : m \in j.models \cap Model}
      /\ worker' = [worker EXCEPT ![q].at = "updating"]
  BY DEF AddRebuildJobs, chainVars
<1>2. ValidJob(j) /\ WorksOn(worker[q], j)
  BY <1>1, PlaceOf
<1>3. /\ worker[q] \in [at : {"idle", "failing", "working", "updating", "completing"},
                        next : Nat, blocks : Seq(Block)]
      /\ worker' = [worker EXCEPT ![q] = w]
  BY <1>1 DEF JobsInv, JobsType
<1>4. /\ w.at = "updating" /\ w.next = worker[q].next /\ w.blocks = worker[q].blocks
      /\ w \in [at : {"idle", "failing", "working", "updating", "completing"},
                next : Nat, blocks : Seq(Block)]
  BY <1>3
<1>5. block \in Block /\ block = worker[q].blocks[1]
  BY <1>1, <1>3
<1>6. block.number = block.hash[1] /\ block.hash[2] \in 1..(MaxReorgs + 1)
  BY <1>5 DEF Block, Fork
<1> HIDE DEF w, j, block
<1>7. rebuilt \subseteq rebuilt'
  BY <1>1
<1>8. \A n, m : Queued(n, m) => Queued(n, m)'
  BY <1>7 DEF Queued
<1>9. ASSUME NEW m \in j.models \cap Model, NEW n, n = block.number, n \notin Empty PROVE Queued(n, m)'
  <2>1. <<n, block.hash[2], m>> \in rebuilt'
    BY <1>1, <1>9
  <2> QED
    BY <1>6, <2>1 DEF Queued
<1>10. UNCHANGED Confirmed /\ JobOf(q)' = j
  BY <1>1 DEF Confirmed, JobOf, Place, j
<1>11. worker'[q] = w
  BY <1>3 DEF JobsInv, JobsType
<1>12. WorksOn(worker[q], JobOf(q))'
  <2>1. \A v, k, l : DoneBefore(v, k, l) => DoneBefore(v, k, l)'
    BY <1>8 DEF DoneBefore
  <2>2. /\ worker[q].next >= j.from /\ Ascending(worker[q].blocks)
        /\ DoneBefore(j, worker[q].next, worker[q].blocks)
        /\ \A i \in 1..Len(worker[q].blocks) : worker[q].blocks[i].number \in j.from..Confirmed
                                               /\ worker[q].blocks[i].number < worker[q].next
    BY <1>1, <1>2 DEF WorksOn
  <2>3. DoneBefore(JobOf(q), worker[q].next, worker[q].blocks)'
    BY <1>4, <1>8, <1>10, <1>11, <2>2 DEF DoneBefore
  <2>4. \A m \in j.models \cap Model : block.number \in Number \ Empty => \A n : n = block.number => Queued(n, m)'
    BY <1>9
  <2>5. /\ worker'[q].at = "updating" /\ worker'[q].blocks = worker[q].blocks
        /\ worker'[q].next = worker[q].next /\ worker'[q].blocks[1] = block
    BY <1>4, <1>5, <1>11
  <2>6. \A m \in j.models \cap Model : worker'[q].blocks[1].number \in Number \ Empty
                            => Queued(worker[q].blocks[1].number, m)'
    BY <2>4, <2>5 DEF Queued
  <2> QED
    BY <1>1, <1>10, <2>2, <2>3, <2>5, <2>6 DEF WorksOn
<1> QED
  BY <1>1, <1>3, <1>4, <1>7, <1>12, WorkerGetsOn

LEMMA UpdateJobKeeps ==
    ASSUME ChainInv, JobsInv, NEW q \in Queue, UpdateJob(q)
    PROVE  JobsInv' /\ CoverKept
<1> DEFINE p == Place(q)
           j == jobs[p]
           blocks == worker[q].blocks
           new == [j EXCEPT !.current = Head(blocks).number + 1]
           w == [[worker[q] EXCEPT !.at = "working"] EXCEPT !.blocks = Tail(blocks)]
<1>1. /\ worker[q].at = "updating" /\ UNCHANGED <<head, rebuilt, mode>>
      /\ jobs' = [jobs EXCEPT ![p].current = Head(blocks).number + 1]
      /\ worker' = [worker EXCEPT ![q].at = "working", ![q].blocks = Tail(@)]
  BY DEF UpdateJob, chainVars
<1>2. /\ mode # "down" /\ p \in 1..Len(jobs) /\ Active(p, q)
      /\ \A i \in 1..Len(jobs) : Active(i, q) => i = p
      /\ ValidJob(j) /\ WorksOn(worker[q], j)
  BY <1>1, PlaceOf
<1>3. /\ blocks # <<>> /\ worker[q].next \in Int /\ worker[q].next >= j.from /\ Ascending(blocks)
      /\ DoneBefore(j, worker[q].next, blocks)
      /\ \A i \in 1..Len(blocks) : blocks[i].number \in j.from..Confirmed /\ blocks[i].number < worker[q].next
      /\ \A m \in j.models \cap Model : blocks[1].number \in Number \ Empty => Queued(blocks[1].number, m)
  BY <1>1, <1>2 DEF WorksOn, JobsInv, JobsType
<1>4. j \in JobRecord /\ j.from \in Int /\ Confirmed \in Int
  BY <1>2, ConfirmedRange DEF ValidJob, JobRecord
<1>5. /\ blocks \in Seq(Block) /\ Head(blocks) = blocks[1] /\ Tail(blocks) \in Seq(Block)
      /\ Len(blocks) \in Nat \ {0} /\ Len(Tail(blocks)) = Len(blocks) - 1
      /\ \A i \in 1..(Len(blocks) - 1) : Tail(blocks)[i] = blocks[i + 1]
  <2>1. blocks \in Seq(Block)
    BY DEF JobsInv, JobsType
  <2> HIDE DEF blocks
  <2> QED
    BY <1>3, <2>1
<1>6. blocks[1].number \in j.from..Confirmed /\ blocks[1].number < worker[q].next
  BY <1>3, <1>5
<1>7. /\ new \in JobRecord /\ SameJob(j, new) /\ new.current = blocks[1].number + 1
      /\ new.state = j.state /\ new.current \in Int /\ new.current >= j.from
  <2>1. Head(blocks).number + 1 = blocks[1].number + 1 /\ blocks[1].number + 1 \in Int
        /\ blocks[1].number + 1 >= j.from
    BY <1>4, <1>5, <1>6
  <2> HIDE DEF blocks, p
  <2>2. new \in JobRecord /\ new.current = blocks[1].number + 1
    BY <1>4, <2>1 DEF JobRecord
  <2>3. new.state = j.state /\ SameJob(j, new)
    BY <1>4 DEF JobRecord, SameJob
  <2> HIDE DEF new, j
  <2> QED
    BY <2>1, <2>2, <2>3
<1>8. /\ w.at = "working" /\ w.next = worker[q].next /\ w.blocks = Tail(blocks)
      /\ w \in [at : {"idle", "failing", "working", "updating", "completing"},
                next : Nat, blocks : Seq(Block)]
  BY <1>5 DEF JobsInv, JobsType
<1>9. jobs' = [jobs EXCEPT ![p] = new] /\ jobs \in Seq(JobRecord)
  BY <1>1 DEF JobsInv, JobsType
<1>10. worker' = [worker EXCEPT ![q] = w]
  BY <1>1 DEF JobsInv, JobsType
<1> HIDE DEF new, w, blocks, p
<1>11. /\ jobs' \in Seq(JobRecord) /\ Len(jobs') = Len(jobs) /\ jobs'[p] = new
       /\ \A i \in 1..Len(jobs) : i # p => jobs'[i] = jobs[i]
  BY <1>2, <1>7, <1>9
<1>12. /\ DOMAIN worker = Queue /\ worker'[q] = w
       /\ \A r \in Queue : r # q => worker'[r] = worker[r]
  BY <1>10 DEF JobsInv, JobsType
<1>13. UNCHANGED Confirmed
  BY <1>1 DEF Confirmed
<1>14. ASSUME NEW n \in Number, NEW i \in 1..Len(blocks), blocks[i].number = n, n =< blocks[1].number
       PROVE  i = 1
  <2>1. i # 1 => 1 < i /\ 1 \in 1..Len(blocks)
    BY <1>5
  <2>2. n >= DefaultStart /\ n \in Int /\ blocks[1].number \in Int
    BY <1>4, <1>6, HistoryConstants DEF Number
  <2> QED
    BY <1>3, <1>14, <2>1, <2>2 DEF Ascending
<1>15. DoneBefore(j, new.current, <<>>)
  <2> SUFFICES ASSUME NEW m \in j.models \cap Model, NEW n \in Number \ Empty, j.from =< n, n < new.current
               PROVE  Queued(n, m)
    BY DEF DoneBefore
  <2>1. n \in Int /\ blocks[1].number \in Int /\ n =< blocks[1].number
    BY <1>4, <1>6, <1>7, HistoryConstants DEF Number
  <2>2. n < worker[q].next
    BY <1>3, <1>6, <2>1
  <2>3. Queued(n, m) \/ Has(blocks, n)
    BY <1>3, <2>2 DEF DoneBefore
  <2>4. Has(blocks, n) => n = blocks[1].number
    BY <1>14, <2>1 DEF Has
  <2> QED
    BY <1>3, <2>3, <2>4
<1>16. \A i \in 1..Len(jobs) :
         /\ SameJob(jobs[i], jobs'[i]) /\ jobs'[i].current >= jobs[i].from
         /\ DoneBefore(jobs[i], jobs'[i].current, <<>>)
  BY <1>7, <1>11, <1>15 DEF JobsInv, JobsType, WorkInv, ValidJob, SameJob
<1>17. /\ \A i \in 1..Len(jobs') : ValidJob(jobs[i])'
       /\ \A i \in 1..Len(jobs') : DoneBefore(jobs[i], jobs[i].current, <<>>)'
       /\ CoverKept
  BY <1>1, <1>11, <1>16, JobsGetOn
<1>18. ASSUME NEW r \in Queue, NEW i \in 1..Len(jobs) PROVE Active(i, r)' <=> Active(i, r)
  <2>1. jobs'[i].state = jobs[i].state /\ QueueFor(jobs'[i]) = QueueFor(jobs[i])
    BY <1>7, <1>11, <1>16 DEF QueueFor, SameJob
  <2> QED
    BY <1>11, <2>1 DEF Active
<1>19. JobsType'
  BY <1>8, <1>10, <1>11, <1>17 DEF JobsInv, JobsType
<1>20. AtOneWorker'
  <2>1. \A r \in Queue : worker'[r].at # "idle" <=> worker[r].at # "idle"
    BY <1>1, <1>8, <1>12
  <2> QED
    BY <1>1, <1>2, <1>11, <1>18, <2>1 DEF JobsInv, AtOneWorker
<1>21. p' = p
  <2>1. \A i \in 1..Len(jobs) : jobs'[i].state = jobs[i].state /\ QueueFor(jobs'[i]) = QueueFor(jobs[i])
    BY <1>7, <1>11, <1>16 DEF QueueFor, SameJob
  <2>2. \E i \in 1..Len(jobs) : jobs[i].state = "active" /\ QueueFor(jobs[i]) = q
    BY <1>2 DEF Active
  <2>3. \A i \in 1..Len(jobs) : jobs[i].state = "active" /\ QueueFor(jobs[i]) = q => i = p
    BY <1>2 DEF Active
  <2>4. \A i \in 1..Len(jobs') : jobs'[i].state = "active" /\ QueueFor(jobs'[i]) = q => i = p
    BY <1>11, <2>1, <2>3
  <2>5. p \in 1..Len(jobs') /\ jobs'[p].state = "active" /\ QueueFor(jobs'[p]) = q
    BY <1>2, <1>11, <2>1 DEF Active
  <2> QED
    BY <2>4, <2>5 DEF Place, p
<1>22. WorksOn(worker[q], jobs[p])'
  <2>2. Ascending(Tail(blocks))
    BY <1>3, <1>5 DEF Ascending
  <2>3. DoneBefore(j, worker[q].next, Tail(blocks))
    <3> SUFFICES ASSUME NEW m \in j.models \cap Model, NEW n \in Number \ Empty, j.from =< n, n < worker[q].next
                 PROVE  Queued(n, m) \/ Has(Tail(blocks), n)
      BY DEF DoneBefore
    <3>1. Queued(n, m) \/ Has(blocks, n)
      BY <1>3 DEF DoneBefore
    <3>2. ASSUME NEW i \in 1..Len(blocks), blocks[i].number = n PROVE Queued(n, m) \/ Has(Tail(blocks), n)
      <4>1. CASE i = 1
        BY <1>3, <3>2, <4>1
      <4>2. CASE i # 1
        <5>1. i - 1 \in 1..(Len(blocks) - 1) /\ (i - 1) + 1 = i
          BY <1>5, <4>2
        <5>2. Tail(blocks)[i - 1] = blocks[i]
          BY <1>5, <5>1
        <5> QED
          BY <1>5, <3>2, <5>1, <5>2 DEF Has
      <4> QED
        BY <4>1, <4>2
    <3> QED
      BY <3>1, <3>2 DEF Has
  <2>4. \A i \in 1..Len(Tail(blocks)) : Tail(blocks)[i].number \in j.from..Confirmed
                                         /\ Tail(blocks)[i].number < worker[q].next
    BY <1>3, <1>5
  <2>5. /\ worker'[q].at = "working" /\ worker'[q].next = worker[q].next /\ worker'[q].blocks = Tail(blocks)
        /\ jobs'[p].from = j.from /\ jobs'[p].models = j.models
    BY <1>7, <1>8, <1>11, <1>12 DEF SameJob
  <2>6. \A n, m : Queued(n, m) => Queued(n, m)'
    BY <1>1 DEF Queued
  <2>7. DoneBefore(jobs[p], worker[q].next, worker[q].blocks)'
    BY <1>21, <2>3, <2>5, <2>6 DEF DoneBefore
  <2> QED
    BY <1>3, <1>13, <1>21, <2>2, <2>4, <2>5, <2>7 DEF WorksOn
<1>23. WorkInv'
  <2>1. ASSUME NEW r \in Queue, NEW i \in 1..Len(jobs'), Active(i, r)' PROVE WorksOn(worker[r], jobs[i])'
    <3>1. CASE r = q
      <4>1. i = p
        BY <1>2, <1>11, <1>18, <2>1, <3>1
      <4>2. i = p'
        BY <1>21, <4>1
      <4> QED
        BY <1>22, <3>1, <4>2
    <3>2. CASE r # q
      <4>1. Active(i, r) /\ i # p
        BY <1>2, <1>11, <1>18, <2>1, <3>2 DEF Active
      <4>2. jobs'[i] = jobs[i] /\ worker'[r] = worker[r] /\ WorksOn(worker[r], jobs[i])
        BY <1>11, <1>12, <3>2, <4>1 DEF JobsInv, WorkInv
      <4>3. \A n, m : Queued(n, m) => Queued(n, m)'
        BY <1>1 DEF Queued
      <4>4. \A k, l, c : DoneBefore(k, l, c) => DoneBefore(k, l, c)'
        BY <4>3 DEF DoneBefore
      <4> QED
        BY <1>13, <4>2, <4>3, <4>4 DEF WorksOn
    <3> QED
      BY <3>1, <3>2
  <2> QED
    BY <1>17, <2>1 DEF WorkInv
<1> QED
  BY <1>17, <1>19, <1>20, <1>23 DEF JobsInv

LEMMA FinishKeeps ==
    ASSUME ChainInv, JobsInv, NEW q \in Queue, Finish(q)
    PROVE  JobsInv' /\ CoverKept
<1> DEFINE w == [worker[q] EXCEPT !.at = "completing"]
<1>1. /\ worker[q].at = "working" /\ worker[q].blocks = <<>> /\ worker[q].next > JobOf(q).to
      /\ UNCHANGED <<head, rebuilt, mode, jobs>>
      /\ worker' = [worker EXCEPT ![q] = w]
  BY DEF Finish, chainVars
<1>2. /\ ValidJob(JobOf(q)) /\ WorksOn(worker[q], JobOf(q))
      /\ worker[q] \in [at : {"idle", "failing", "working", "updating", "completing"},
                        next : Nat, blocks : Seq(Block)]
  BY <1>1, PlaceOf DEF JobsInv, JobsType
<1>3. /\ w.at = "completing" /\ w \in [at : {"idle", "failing", "working", "updating", "completing"},
                                     next : Nat, blocks : Seq(Block)]
  BY <1>2
<1> HIDE DEF w
<1>4. worker'[q] = w /\ JobOf(q)' = JobOf(q)
  BY <1>1 DEF JobsInv, JobsType, JobOf, Place
<1>5. DoneBefore(JobOf(q), JobOf(q).to + 1, <<>>)
  <2> SUFFICES ASSUME NEW m \in JobOf(q).models \cap Model, NEW n \in Number \ Empty,
                      JobOf(q).from =< n, n < JobOf(q).to + 1
               PROVE  Queued(n, m) \/ Has(<<>>, n)
    BY DEF DoneBefore
  <2>1. n \in Int /\ JobOf(q).to \in Int /\ worker[q].next \in Int
    BY <1>2, HistoryConstants DEF Number, ValidJob, JobRecord
  <2>2. n < worker[q].next
    BY <1>1, <2>1
  <2>3. DoneBefore(JobOf(q), worker[q].next, <<>>)
    BY <1>1, <1>2 DEF WorksOn
  <2> QED
    BY <2>2, <2>3 DEF DoneBefore
<1>6. DoneBefore(JobOf(q), JobOf(q).to + 1, <<>>)'
  BY <1>1, <1>4, <1>5 DEF DoneBefore, Queued
<1>7. WorksOn(worker[q], JobOf(q))'
  BY <1>3, <1>4, <1>6 DEF WorksOn
<1> QED
  BY <1>1, <1>3, <1>7, WorkerGetsOn

LEMMA BootKeepsJobs ==
    ASSUME ChainInv, JobsInv, Boot
    PROVE  JobsInv' /\ CoverKept
<1> DEFINE new(i) == [jobs[i] EXCEPT !.state = IF @ = "active" THEN "created" ELSE @]
<1>1. /\ mode = "down" /\ mode' = "booting" /\ UNCHANGED <<head, rebuilt, worker>>
      /\ jobs' = [i \in 1..Len(jobs) |-> new(i)]
  BY DEF Boot, chainVars
<1>2. \A i \in 1..Len(jobs) : new(i) \in JobRecord /\ SameJob(jobs[i], new(i))
                              /\ new(i).current = jobs[i].current /\ new(i).state # "active"
  <2> SUFFICES ASSUME NEW i \in 1..Len(jobs)
               PROVE  new(i) \in JobRecord /\ SameJob(jobs[i], new(i))
                      /\ new(i).current = jobs[i].current /\ new(i).state # "active"
    OBVIOUS
  <2>1. jobs[i] \in JobRecord
    BY DEF JobsInv, JobsType
  <2>2. CASE jobs[i].state = "active"
    BY <2>1, <2>2 DEF JobRecord, SameJob
  <2>3. CASE jobs[i].state # "active"
    BY <2>1, <2>3 DEF JobRecord, SameJob
  <2> QED
    BY <2>2, <2>3
<1>3. /\ jobs' \in Seq(JobRecord) /\ Len(jobs') = Len(jobs)
      /\ \A i \in 1..Len(jobs) : jobs'[i] = new(i)
  <2>1. Len(jobs) \in Nat
    BY DEF JobsInv, JobsType
  <2>2. jobs' \in [1..Len(jobs) -> JobRecord] /\ \A i \in 1..Len(jobs) : jobs'[i] = new(i)
    BY <1>1, <1>2
  <2> QED
    BY <2>1, <2>2
<1>4. \A i \in 1..Len(jobs) :
         /\ SameJob(jobs[i], jobs'[i]) /\ jobs'[i].current >= jobs[i].from
         /\ DoneBefore(jobs[i], jobs'[i].current, <<>>)
  BY <1>2, <1>3 DEF JobsInv, JobsType, WorkInv, ValidJob
<1>5. /\ \A i \in 1..Len(jobs') : ValidJob(jobs[i])'
      /\ \A i \in 1..Len(jobs') : DoneBefore(jobs[i], jobs[i].current, <<>>)'
      /\ CoverKept
  BY <1>1, <1>3, <1>4, JobsGetOn
<1>6. \A i \in 1..Len(jobs'), q \in Queue : ~Active(i, q)'
  BY <1>2, <1>3 DEF Active
<1>7. JobsType'
  BY <1>1, <1>3, <1>5 DEF JobsInv, JobsType
<1>8. AtOneWorker'
  BY <1>1, <1>6 DEF JobsInv, AtOneWorker
<1>9. WorkInv'
  BY <1>5, <1>6 DEF WorkInv
<1> QED
  BY <1>5, <1>7, <1>8, <1>9 DEF JobsInv

LEMMA CrashKeepsJobs ==
    ASSUME ChainInv, JobsInv, Crash
    PROVE  JobsInv' /\ CoverKept
<1>1. mode' = "down" /\ UNCHANGED <<head, rebuilt, jobs>> /\ worker' = [q \in Queue |-> Idle]
  BY DEF Crash, chainVars
<1>2. /\ Idle \in [at : {"idle", "failing", "working", "updating", "completing"}, next : Nat, blocks : Seq(Block)]
      /\ Idle.at = "idle"
  BY DEF Idle
<1>3. UNCHANGED Confirmed
  BY <1>1 DEF Confirmed
<1>4. \A i, q : Active(i, q)' <=> Active(i, q)
  BY <1>1 DEF Active
<1>5. JobsType'
  BY <1>1, <1>2, <1>3 DEF JobsInv, JobsType, ValidJob
<1>6. AtOneWorker'
  BY <1>1, <1>2, <1>4 DEF JobsInv, AtOneWorker
<1>7. WorkInv'
  <2>1. \A i \in 1..Len(jobs) : DoneBefore(jobs[i], jobs[i].current, <<>>)'
    BY <1>1 DEF JobsInv, WorkInv, DoneBefore, Queued
  <2>2. \A q \in Queue : worker'[q].at = "idle"
    BY <1>1, <1>2
  <2> QED
    BY <1>1, <2>1, <2>2 DEF WorkInv, WorksOn
<1>8. CoverKept
  BY <1>1 DEF CoverKept, Cov, Queued
<1> QED
  BY <1>5, <1>6, <1>7, <1>8 DEF JobsInv

-----------------------------------------------------------------------------
(* The chain grows.                                                        *)
LEMMA ChainGrows ==
    ASSUME HistoryInv, Calmly, NewBlock \/ \E d \in 1..(2 * Confirmations) : Reorg(d)
    PROVE  HistoryInv'
<1>1. /\ head < setting.length /\ head' = head + 1
      /\ UNCHANGED <<setting, processed, found, mode, indexed, modelsToSync, call, jobs, rebuilt, worker,
                     listener, handlers, followed>>
      /\ reorgs' \in 0..MaxReorgs /\ reorgs' >= reorgs
      /\ chain' \in [0..MaxHead -> Nat]
      /\ \A n \in 0..MaxHead : chain'[n] = chain[n] \/ chain'[n] = reorgs' + 1
      /\ chain'[head + 1] = reorgs' + 1
      /\ Unheard => head =< found.latest + 2 * Confirmations
  <2>0. /\ head \in Nat /\ head =< MaxHead /\ reorgs \in 0..MaxReorgs /\ chain \in [0..MaxHead -> Nat]
        /\ setting.length \in 0..MaxHead /\ MaxReorgs \in Nat /\ MaxHead \in Nat
        /\ Confirmations \in Nat \ {0}
    <3>1. setting \in Exposures
      BY HistorySyncAssumption DEF HistoryInv, ChainInv
    <3> QED
      BY <3>1, HistoryConstants DEF HistoryInv, ChainInv, Exposures
  <2>1. CASE NewBlock
    <3>1. /\ head < setting.length /\ head' = head + 1 /\ UNCHANGED reorgs
          /\ chain' = [chain EXCEPT ![head + 1] = reorgs + 1]
          /\ Unheard => head =< found.latest + 2 * Confirmations
          /\ UNCHANGED <<setting, processed, found, mode, indexed, modelsToSync, call, jobs, rebuilt, worker,
                         listener, handlers, followed>>
      BY <2>1 DEF NewBlock, Calmly, apiVars, listening, faultVars
    <3>2. head + 1 \in 0..MaxHead /\ reorgs + 1 \in Nat
      BY <2>0, <3>1
    <3> QED
      BY <2>0, <3>1, <3>2
  <2>2. CASE \E d \in 1..(2 * Confirmations) : Reorg(d)
    <3>0. PICK d \in 1..(2 * Confirmations) : Reorg(d)
      BY <2>2
    <3>1. /\ reorgs < MaxReorgs /\ head < setting.length /\ ~Unheard
          /\ head' = head + 1 /\ reorgs' = reorgs + 1
          /\ chain' = [n \in 0..MaxHead |->
                          IF n \in (head - d + 1)..(head + 1) THEN reorgs + 2 ELSE chain[n]]
          /\ UNCHANGED <<setting, processed, found, mode, indexed, modelsToSync, call, jobs, rebuilt, worker,
                         listener, handlers, followed>>
      BY <3>0 DEF Reorg, Calmly, apiVars, listening, faultVars
    <3>2. head + 1 \in 0..MaxHead /\ reorgs + 2 = reorgs' + 1 /\ reorgs + 2 \in Nat
          /\ reorgs' \in 0..MaxReorgs /\ reorgs' >= reorgs /\ head + 1 \in (head - d + 1)..(head + 1)
      BY <2>0, <3>1
    <3>3. chain' \in [0..MaxHead -> Nat]
      BY <2>0, <3>1, <3>2
    <3>4. \A n \in 0..MaxHead : chain'[n] = chain[n] \/ chain'[n] = reorgs' + 1
      BY <2>0, <3>1, <3>2
    <3>5. chain'[head + 1] = reorgs' + 1
      BY <3>1, <3>2
    <3> QED
      BY <3>1, <3>2, <3>3, <3>4, <3>5
  <2> QED
    BY <2>1, <2>2
<1>2. /\ ChainInv /\ setting.length \in 0..MaxHead
  <2>1. setting \in Exposures
    BY HistorySyncAssumption DEF HistoryInv, ChainInv
  <2> QED
    BY <2>1 DEF HistoryInv, Exposures
<1>3. head' >= head /\ head \in Nat /\ head' \in Nat /\ Confirmed' = Confirmed + 1 /\ Confirmed \in Nat
  <2>1. Confirmed = head - Confirmations /\ Confirmed' = head' - Confirmations
    BY DEF Confirmed
  <2> QED
    BY <1>1, <1>2, <2>1, ConfirmedRange, HistoryConstants DEF ChainInv
<1>4. ChainInv'
  <2>1. \A n \in 0..head' : chain'[n] \in 1..(reorgs' + 1)
    <3> SUFFICES ASSUME NEW n \in 0..head' PROVE chain'[n] \in 1..(reorgs' + 1)
      OBVIOUS
    <3>1. reorgs \in Nat /\ reorgs' \in Nat /\ reorgs' >= reorgs /\ MaxHead \in Nat
      BY <1>1, <1>2, HistoryConstants DEF ChainInv
    <3>2. CASE n = head + 1
      BY <1>1, <3>1, <3>2
    <3>3. CASE n # head + 1
      <4>1. n \in 0..head /\ n \in 0..MaxHead
        BY <1>1, <1>2, <1>3, <3>1, <3>3
      <4>2. chain[n] \in 1..(reorgs + 1)
        BY <1>2, <4>1 DEF ChainInv
      <4>3. chain'[n] = chain[n] \/ chain'[n] = reorgs' + 1
        BY <1>1, <4>1
      <4> QED
        BY <3>1, <4>2, <4>3
    <3> QED
      BY <3>2, <3>3
  <2>2. /\ head' >= DefaultStart + Confirmations /\ head' =< MaxHead /\ head' =< setting.length
    BY <1>1, <1>2, <1>3, HistoryConstants DEF ChainInv
  <2>3. processed' \in 0..Confirmed'
    BY <1>1, <1>2, <1>3 DEF ChainInv
  <2>4. mode' # "down" => found'.latest >= DefaultStart /\ found'.latest =< Confirmed'
    BY <1>1, <1>2, <1>3, HistoryConstants DEF ChainInv
  <2> QED
    BY <1>1, <1>2, <1>3, <2>1, <2>2, <2>3, <2>4 DEF ChainInv
<1>5. CallsInv'
  BY <1>1, CallsFrame DEF HistoryInv
<1>6. JobsInv' /\ CoverKept
  BY <1>1, <1>2, <1>3, <1>4, JobsFrame DEF HistoryInv
<1>7. ListenerInv'
  BY <1>1, <1>2, <1>3, <1>4, ListenerFrame DEF HistoryInv
<1>8. PromiseInv'
  <2>1. LastNumber' = LastNumber
    BY <1>1 DEF LastNumber
  <2>2. \A limit : Promised(limit) => Promised(limit)'
    BY <1>1, <1>6 DEF Promised, CoverKept
  <2>3. \A job : PromisedWith(job) => PromisedWith(job)'
    BY <1>1, <1>6, <2>1 DEF PromisedWith, CoverKept
  <2>4. mode # "down" => Heard'
    <3> SUFFICES ASSUME mode # "down" PROVE Heard'
      OBVIOUS
    <3>1. Heard
      BY DEF HistoryInv, PromiseInv
    <3>2. LastNumber' \in Number /\ LastNumber' =< Confirmed'
      BY <1>3, <2>1, <3>1, HistoryConstants DEF Heard, Number
    <3>3. Unheardof'
      <4>1. listener.highest = NoBlock => head =< found.latest + 2 * Confirmations
        BY <1>1 DEF Unheard
      <4>2. listener.highest = NoBlock => head' =< found.latest + 2 * Confirmations + 1
        BY <1>1, <1>2, <4>1, HistoryConstants DEF ChainInv
      <4> QED
        BY <1>1, <2>1, <3>1, <4>2 DEF Heard, Unheardof
    <3>4. InTurn' /\ ToCome'
      BY <1>1, <2>1, <3>1 DEF Heard, InTurn, ToCome, InRanges, Skipped
    <3> QED
      BY <3>2, <3>3, <3>4 DEF Heard
  <2>6. Promised(LastNumber) => Promised(LastNumber)'
    BY <2>1, <2>2 DEF Promised
  <2> QED
    BY <1>1, <2>1, <2>3, <2>4, <2>6 DEF HistoryInv, PromiseInv
<1>9. KeptInv'
  BY <1>1, <1>6, FollowedKept DEF HistoryInv
<1> QED
  BY <1>4, <1>5, <1>6, <1>7, <1>8, <1>9 DEF HistoryInv

(* The node starts: the last block is the latest one confirmed.            *)
LEMMA BootKeeps ==
    ASSUME HistoryInv, Calmly, Boot
    PROVE  HistoryInv'
<1>1. /\ mode = "down" /\ mode' = "booting" /\ handlers = {} /\ handlers' = {}
      /\ found' = [latest |-> Confirmed, processed |-> processed]
      /\ modelsToSync' \subseteq SyncName /\ listener' = NewListener(BlockAt(Confirmed).hash)
      /\ UNCHANGED <<setting, head, chain, reorgs, processed, indexed, call, rebuilt, worker, followed>>
  <2>1. /\ mode = "down" /\ mode' = "booting" /\ found' = [latest |-> Confirmed, processed |-> processed]
        /\ modelsToSync' \subseteq SyncName /\ listener' = NewListener(BlockAt(found'.latest).hash)
        /\ UNCHANGED <<setting, head, chain, reorgs, processed, indexed, call, rebuilt, worker, handlers,
                       followed>>
    BY DEF Boot, InitModelsToSync, SyncName, chainVars, faultVars, Confirmed
  <2>2. found'.latest = Confirmed
    BY <2>1
  <2> QED
    BY <2>1, <2>2 DEF HistoryInv, PromiseInv
<1>2. /\ Confirmed \in Number /\ Confirmed \in Nat \ {0} /\ Confirmed =< head /\ head \in Nat
      /\ head = Confirmed + Confirmations /\ Confirmations \in Nat \ {0} /\ UNCHANGED Confirmed
      /\ Confirmed >= DefaultStart /\ DefaultStart \in Nat
  BY <1>1, ConfirmedRange, HistoryConstants DEF Confirmed, HistoryInv, ChainInv, Number
<1>3. chain[Confirmed] \in Nat
  BY <1>2, HistoryConstants DEF HistoryInv, ChainInv, Number
<1>4. /\ listener'.highest = NoBlock /\ listener'.ranges = <<>> /\ listener'.blocks = <<>>
      /\ listener'.last = <<Confirmed, chain[Confirmed]>>
      /\ listener' \in [highest : Nat, last : Nat \X Nat, ranges : Seq(Nat \X Nat), blocks : Seq(Block)]
  BY <1>1, <1>2, <1>3 DEF NewListener, BlockAt, NoBlock
<1>5. ChainInv'
  BY <1>1, <1>2 DEF HistoryInv, ChainInv
<1>6. CallsInv'
  BY <1>1 DEF HistoryInv, CallsInv
<1>7. JobsInv' /\ CoverKept
  BY BootKeepsJobs DEF HistoryInv
<1>8. ListenerInv'
  BY <1>1, <1>2, <1>4 DEF ListenerInv, NoBlock
<1>9. PromiseInv'
  <2>1. LastNumber' = Confirmed /\ found'.latest = Confirmed
    BY <1>1, <1>4 DEF LastNumber
  <2>2. Promised(LastNumber)'
    BY <1>1 DEF HistoryInv, CallsInv, Promised
  <2>3. Unheardof'
    BY <1>1, <1>2, <1>4, <2>1 DEF Unheardof
  <2>4. InTurn'
    BY <1>4 DEF InTurn, Ascending
  <2>5. ToCome'
    BY <1>2, <1>4, <2>1 DEF ToCome, NoBlock, Number
  <2>6. Heard'
    BY <1>1, <1>2, <2>1, <2>3, <2>4, <2>5 DEF Heard, Number
  <2> QED
    BY <1>1, <2>1, <2>2, <2>6 DEF PromiseInv
<1>10. KeptInv'
  BY <1>1, <1>7, FollowedKept DEF HistoryInv
<1> QED
  BY <1>5, <1>6, <1>7, <1>8, <1>9, <1>10 DEF HistoryInv

(* What the listener has read stays in turn.                               *)
LEMMA HeardFrame ==
    ASSUME Heard, UNCHANGED <<head, found, listener>>
    PROVE  Heard'
  BY DEF Heard, Confirmed, LastNumber, Unheardof, InTurn, ToCome, InRanges, Skipped

(* The catch-up job joins the queue, whichever models it is for.           *)
LEMMA CatchUpKeeps ==
    ASSUME HistoryInv, Calmly, CatchUp
    PROVE  HistoryInv'
<1>1. /\ mode = "booting" /\ mode' = "running"
      /\ UNCHANGED <<setting, head, chain, reorgs, processed, found, indexed, modelsToSync, call,
                     rebuilt, worker, listener, handlers, followed>>
  BY DEF CatchUp, chainVars, apiVars, listening, faultVars
<1>2. /\ found.latest \in Nat /\ found.latest =< Confirmed
      /\ found.processed \in Nat /\ modelsToSync \subseteq SyncName
      /\ DefaultStart \in Nat \ {0} /\ UNCHANGED Confirmed
  BY <1>1, HistoryConstants DEF HistoryInv, ChainInv, CallsInv, Confirmed
<1>3. LastNumber' = LastNumber
  BY <1>1 DEF LastNumber
<1>4. ASSUME NEW from \in Nat \ {0}, AddHistoricJob(Job("catchup", from, found.latest, modelsToSync))
      PROVE  JobsInv' /\ CoverKept
  <2> DEFINE job == Job("catchup", from, found.latest, modelsToSync)
  <2>1. job \in NewJobs
    BY <1>2 DEF Job, NewJobs, Historic
  <2>2. AddJob(job)
    BY <1>4 DEF AddHistoricJob
  <2> HIDE DEF job
  <2> QED
    BY <1>1, <2>1, <2>2, JobAdded DEF HistoryInv
<1>5. ChainInv'
  BY <1>1, <1>2 DEF HistoryInv, ChainInv
<1>6. head' >= head
  BY <1>1 DEF HistoryInv, ChainInv
<1>7. JobsInv' /\ CoverKept
  <2>1. CASE found.processed = NoBlock
    BY <1>2, <1>4, <2>1 DEF CatchUp
  <2>2. CASE found.processed # NoBlock /\ found.processed < found.latest
    <3>1. found.processed \in Nat \ {0}
      BY <1>2, <2>2 DEF NoBlock
    <3>2. AddHistoricJob(Job("catchup", found.processed, found.latest, modelsToSync))
      BY <2>2 DEF CatchUp
    <3> QED
      BY <1>4, <3>1, <3>2
  <2>3. CASE found.processed # NoBlock /\ ~(found.processed < found.latest)
    <3>1. UNCHANGED jobs
      BY <2>3 DEF CatchUp
    <3> QED
      BY <1>1, <1>5, <1>6, <3>1, JobsFrame DEF HistoryInv
  <2> QED
    BY <2>1, <2>2, <2>3
<1>8. CallsInv'
  BY <1>1 DEF HistoryInv, CallsInv
<1>9. ListenerInv'
  BY <1>1, <1>5, <1>6, ListenerFrame DEF HistoryInv
<1>10. \A m \in Model : call'[m] # "started"
  BY <1>1 DEF HistoryInv, CallsInv
<1>11. Heard'
  BY <1>1, HeardFrame DEF HistoryInv, PromiseInv
<1>12. PromiseInv'
  <2>1. ASSUME NEW h \in handlers
        PROVE  /\ handlers = {h} /\ h.number = LastNumber
               /\ Promised(LastNumber)' /\ PromisedWith(h.job)'
    BY <1>10, <2>1 DEF HistoryInv, PromiseInv, Promised, PromisedWith
  <2>2. Promised(LastNumber)'
    BY <1>10 DEF Promised
  <2> QED
    BY <1>1, <1>3, <1>11, <2>1, <2>2 DEF PromiseInv
<1>13. KeptInv'
  BY <1>1, <1>7, FollowedKept DEF HistoryInv
<1> QED
  BY <1>5, <1>7, <1>8, <1>9, <1>12, <1>13 DEF HistoryInv

-----------------------------------------------------------------------------
(* The listener reads on, and no block is emitted.                         *)
LEMMA ListensOn ==
    ASSUME HistoryInv, mode # "down", Heard', ListenerInv', LastNumber' = LastNumber,
           UNCHANGED <<setting, head, chain, reorgs, processed, found, mode, indexed, modelsToSync,
                       call, jobs, rebuilt, worker, handlers, followed>>
    PROVE  HistoryInv'
<1>1. ChainInv'
  BY ChainFrame DEF HistoryInv
<1>2. head' >= head
  BY DEF HistoryInv, ChainInv
<1>3. CallsInv'
  BY CallsFrame DEF HistoryInv
<1>4. JobsInv' /\ CoverKept
  BY <1>1, <1>2, JobsFrame DEF HistoryInv
<1>5. \A limit : Promised(limit) => Promised(limit)'
  BY <1>4 DEF Promised, CoverKept
<1>6. \A job : PromisedWith(job) => PromisedWith(job)'
  BY <1>4 DEF PromisedWith, CoverKept
<1>7. KeptInv'
  BY <1>4, FollowedKept DEF HistoryInv
<1>8. Promised(LastNumber) => Promised(LastNumber)'
  BY <1>5 DEF Promised
<1> QED
  BY <1>1, <1>3, <1>4, <1>6, <1>7, <1>8 DEF HistoryInv, PromiseInv

LEMMA Appended ==
    ASSUME NEW S, NEW seq \in Seq(S), NEW e \in S
    PROVE  /\ Append(seq, e) \in Seq(S) /\ Len(Append(seq, e)) = Len(seq) + 1
           /\ \A i \in 1..Len(seq) : Append(seq, e)[i] = seq[i]
           /\ Append(seq, e)[Len(seq) + 1] = e
           /\ \A i \in 1..(Len(seq) + 1) : i \in 1..Len(seq) \/ i = Len(seq) + 1
  OBVIOUS

LEMMA BlockEventKeeps ==
    ASSUME HistoryInv, Calmly, BlockEvent
    PROVE  HistoryInv'
<1> DEFINE highest == listener.highest
           ranges == listener.ranges
           L == Len(ranges)
           first == IF highest = NoBlock THEN Confirmed ELSE highest + 1
<1>1. /\ mode # "down" /\ Confirmed > highest
      /\ listener' = [listener EXCEPT !.highest = Confirmed, !.ranges = Append(ranges, <<first, Confirmed>>)]
      /\ UNCHANGED <<setting, head, chain, reorgs, processed, found, mode, indexed, modelsToSync,
                     call, jobs, rebuilt, worker, handlers, followed>>
  BY DEF BlockEvent, chainVars, apiVars, faultVars, Confirmed
<1>2. /\ Heard /\ ListenerInv /\ ChainInv /\ LastNumber \in Number /\ LastNumber =< Confirmed
      /\ highest \in Nat /\ ranges \in Seq(Nat \X Nat) /\ L \in Nat
      /\ Confirmed \in Nat /\ Confirmed \in Number /\ DefaultStart \in Nat \ {0}
      /\ LastNumber \in Nat /\ LastNumber >= DefaultStart /\ Confirmed >= DefaultStart
      /\ Confirmations \in Nat \ {0} /\ head = Confirmed + Confirmations /\ UNCHANGED Confirmed
  <2>1. Heard /\ ListenerInv /\ ChainInv
    BY <1>1 DEF HistoryInv, PromiseInv
  <2>2. head = Confirmed + Confirmations
    BY <2>1, HistoryConstants DEF Confirmed, ChainInv
  <2> QED
    BY <1>1, <2>1, <2>2, ConfirmedRange, HistoryConstants DEF Heard, ListenerInv, Number, Confirmed
<1>3. /\ highest # NoBlock => LastNumber =< highest
      /\ highest = NoBlock => /\ ranges = <<>> /\ listener.blocks = <<>> /\ LastNumber = found.latest
                              /\ head =< LastNumber + 2 * Confirmations + 1
  BY <1>2 DEF Heard, Unheardof, InTurn
<1>4. /\ first \in Nat /\ first >= DefaultStart /\ first =< Confirmed /\ first >= LastNumber
      /\ highest # NoBlock => first = highest + 1
      /\ highest = NoBlock => first = Confirmed
  BY <1>1, <1>2, <1>3
<1> HIDE DEF first
<1>5. /\ listener'.highest = Confirmed /\ listener'.ranges = Append(ranges, <<first, Confirmed>>)
      /\ listener'.blocks = listener.blocks /\ listener'.last = listener.last
      /\ listener' \in [highest : Nat, last : Nat \X Nat, ranges : Seq(Nat \X Nat), blocks : Seq(Block)]
  <2>1. listener \in [highest : Nat, last : Nat \X Nat, ranges : Seq(Nat \X Nat), blocks : Seq(Block)]
    BY <1>2 DEF ListenerInv
  <2>2. Append(ranges, <<first, Confirmed>>) \in Seq(Nat \X Nat)
    BY <1>2, <1>4
  <2> QED
    BY <1>1, <1>2, <2>1, <2>2
<1>6. /\ Len(listener'.ranges) = L + 1 /\ listener'.ranges # <<>>
      /\ \A i \in 1..L : listener'.ranges[i] = ranges[i]
      /\ listener'.ranges[L + 1] = <<first, Confirmed>>
      /\ listener'.ranges[L + 1][1] = first /\ listener'.ranges[L + 1][2] = Confirmed
      /\ \A i \in 1..(L + 1) : i \in 1..L \/ i = L + 1
      /\ \A i \in 1..L : ranges[i] \in Nat \X Nat
  <2> DEFINE e == <<first, Confirmed>>
  <2>1. e \in Nat \X Nat /\ e[1] = first /\ e[2] = Confirmed
    BY <1>2, <1>4
  <2>2. listener'.ranges = Append(ranges, e) /\ e = <<first, Confirmed>>
    BY <1>5
  <2> HIDE DEF e
  <2>3. \A i \in 1..L : ranges[i] \in Nat \X Nat
    BY <1>2
  <2> HIDE DEF ranges
  <2>4. /\ Len(Append(ranges, e)) = L + 1 /\ Append(ranges, e)[L + 1] = e
        /\ \A i \in 1..L : Append(ranges, e)[i] = ranges[i]
        /\ \A i \in 1..(L + 1) : i \in 1..L \/ i = L + 1
    BY <1>2, <2>1, Appended
  <2>5. Append(ranges, e) # <<>>
    BY <1>2, <2>4
  <2> QED
    BY <2>1, <2>2, <2>3, <2>4, <2>5
<1>7. LastNumber' = LastNumber
  BY <1>5 DEF LastNumber
<1>8. \A i \in 1..L : /\ DefaultStart =< ranges[i][1] /\ ranges[i][1] =< ranges[i][2] /\ ranges[i][2] =< highest
                      /\ ranges[i][1] \in Nat /\ ranges[i][2] \in Nat
  BY <1>2, <1>6 DEF ListenerInv
<1>9. ListenerInv'
  <2>1. ASSUME NEW i \in 1..(L + 1)
        PROVE  /\ DefaultStart =< listener'.ranges[i][1] /\ listener'.ranges[i][1] =< listener'.ranges[i][2]
               /\ listener'.ranges[i][2] =< Confirmed
    <3>1. CASE i \in 1..L
      <4>1. listener'.ranges[i] = ranges[i]
        BY <1>6, <3>1
      <4>2. /\ DefaultStart =< ranges[i][1] /\ ranges[i][1] =< ranges[i][2] /\ ranges[i][2] =< highest
            /\ ranges[i][2] \in Nat
        BY <1>8, <3>1
      <4>3. ranges[i][2] =< Confirmed
        <5>1. highest \in Nat /\ Confirmed \in Nat /\ highest =< Confirmed
          BY <1>1, <1>2
        <5>2. \A x, h, c \in Nat : x =< h /\ h =< c => x =< c
          OBVIOUS
        <5> QED
          BY <4>2, <5>1, <5>2
      <4> QED
        BY <4>1, <4>2, <4>3
    <3>2. CASE i = L + 1
      <4>1. listener'.ranges[i][1] = first /\ listener'.ranges[i][2] = Confirmed
        BY <1>6, <3>2
      <4> QED
        BY <1>2, <1>4, <4>1
    <3> QED
      BY <1>6, <3>1, <3>2
  <2>2. \A i \in 1..Len(listener.blocks) :
          DefaultStart =< listener.blocks[i].number /\ listener.blocks[i].number =< Confirmed
    <3>1. listener.blocks \in Seq(Block)
      BY <1>2 DEF ListenerInv
    <3>2. \A i \in 1..Len(listener.blocks) : listener.blocks[i].number \in Nat
      BY <3>1 DEF Block
    <3> QED
      BY <1>1, <1>2, <3>2 DEF ListenerInv
  <2>3. handlers' \subseteq HandlerRecord
        /\ \A h \in handlers' : h.number = h.job.to /\ h.job.from =< h.number /\ h.number =< Confirmed'
    BY <1>1, <1>2 DEF ListenerInv, HandlerRecord
  <2>4. \A i \in 1..Len(listener'.ranges) :
          /\ DefaultStart =< listener'.ranges[i][1] /\ listener'.ranges[i][1] =< listener'.ranges[i][2]
          /\ listener'.ranges[i][2] =< listener'.highest
    BY <1>5, <1>6, <2>1
  <2>5. \A i \in 1..Len(listener'.blocks) :
          DefaultStart =< listener'.blocks[i].number /\ listener'.blocks[i].number =< listener'.highest
    BY <1>5, <2>2
  <2>6. listener'.highest =< Confirmed'
    BY <1>2, <1>5
  <2> QED
    BY <1>5, <2>3, <2>4, <2>5, <2>6 DEF ListenerInv
<1>10. InTurn'
  <2>1. listener.blocks \in Seq(Block)
    BY <1>2 DEF ListenerInv
  <2>2. \A i \in 1..Len(listener.blocks) : listener.blocks[i].number \in Nat
    BY <2>1 DEF Block
  <2>3. \A i, k \in 1..(L + 1) : i < k => listener'.ranges[i][2] < listener'.ranges[k][1]
    <3> SUFFICES ASSUME NEW i \in 1..(L + 1), NEW k \in 1..(L + 1), i < k
                 PROVE  listener'.ranges[i][2] < listener'.ranges[k][1]
      OBVIOUS
    <3>1. i \in 1..L
      BY <1>2
    <3>2. CASE k \in 1..L
      BY <1>2, <1>6, <3>1, <3>2 DEF Heard, InTurn
    <3>3. CASE k = L + 1
      <4>1. highest # NoBlock
        BY <1>2, <1>3, <3>1
      <4>2. listener'.ranges[i] = ranges[i] /\ listener'.ranges[k][1] = highest + 1
        BY <1>4, <1>6, <3>1, <3>3, <4>1
      <4>3. ranges[i][2] =< highest /\ ranges[i][2] \in Nat
        BY <1>8, <3>1
      <4>4. ranges[i][2] < highest + 1
        BY <1>2, <4>3
      <4> QED
        BY <4>2, <4>4
    <3> QED
      BY <1>6, <3>2, <3>3
  <2>4. ASSUME NEW i \in 1..Len(listener.blocks), NEW k \in 1..(L + 1)
        PROVE  listener.blocks[i].number < listener'.ranges[k][1]
    <3>1. CASE k \in 1..L
      BY <1>2, <1>6, <3>1 DEF Heard, InTurn
    <3>2. CASE k = L + 1
      <4>1. highest # NoBlock
        BY <1>3, <2>1
      <4>2. listener.blocks[i].number =< highest
        BY <1>2 DEF ListenerInv
      <4>3. listener'.ranges[k][1] = highest + 1
        BY <1>4, <1>6, <3>2, <4>1
      <4>4. listener.blocks[i].number < highest + 1
        BY <1>2, <2>2, <4>2
      <4> QED
        BY <4>3, <4>4
    <3> QED
      BY <1>6, <3>1, <3>2
  <2>5. \A k \in 1..(L + 1) : listener'.ranges[k][1] >= LastNumber
    BY <1>2, <1>4, <1>6 DEF Heard, InTurn
  <2> QED
    BY <1>2, <1>5, <1>6, <1>7, <2>3, <2>4, <2>5 DEF Heard, InTurn
<1>11. ToCome'
  <2> SUFFICES ASSUME NEW n \in Number \ Empty, LastNumber < n, n =< Confirmed
               PROVE  Has(listener.blocks, n) \/ InRanges(n)' \/ Skipped(n)'
    BY <1>5, <1>7 DEF ToCome
  <2>0. n \in Nat /\ L + 1 \in 1..Len(listener'.ranges)
    BY <1>2, <1>6 DEF Number
  <2>1. CASE first =< n
    <3>1. listener'.ranges[L + 1][1] =< n /\ n =< listener'.ranges[L + 1][2]
      BY <1>6, <2>1
    <3> QED
      BY <2>0, <3>1 DEF InRanges
  <2>2. CASE n < first /\ highest # NoBlock
    <3>1. n =< highest
      BY <1>2, <1>4, <2>0, <2>2
    <3>2. Has(listener.blocks, n) \/ InRanges(n) \/ Skipped(n)
      BY <1>2, <3>1 DEF Heard, ToCome
    <3>3. InRanges(n) => InRanges(n)'
      <4> SUFFICES ASSUME NEW i \in 1..L, ranges[i][1] =< n, n =< ranges[i][2]
                   PROVE  InRanges(n)'
        BY DEF InRanges
      <4>1. i \in 1..Len(listener'.ranges)
        BY <1>2, <1>6
      <4>2. listener'.ranges[i][1] =< n /\ n =< listener'.ranges[i][2]
        BY <1>6
      <4> QED
        BY <4>1, <4>2 DEF InRanges
    <3>4. Skipped(n) => Skipped(n)'
      <4>1. ranges # <<>> => 1 \in 1..L
        BY <1>2
      <4> QED
        BY <1>5, <1>6, <4>1 DEF Skipped
    <3> QED
      BY <3>2, <3>3, <3>4
  <2>3. CASE n < first /\ highest = NoBlock
    <3>1. first = Confirmed /\ listener'.blocks = <<>> /\ L = 0
      BY <1>3, <1>4, <1>5, <2>3
    <3>2. listener'.ranges[1][1] = Confirmed
      BY <1>6, <3>1
    <3>3. Confirmed - Confirmations =< n
      <4>1. Confirmed + Confirmations =< LastNumber + 2 * Confirmations + 1
        BY <1>2, <1>3, <2>3
      <4> QED
        BY <1>2, <2>0, <4>1
    <3> QED
      BY <1>2, <1>6, <2>3, <3>1, <3>2, <3>3 DEF Skipped
  <2> QED
    BY <1>4, <2>0, <2>1, <2>2, <2>3
<1>12. Heard'
  <2>1. Unheardof'
    BY <1>2, <1>5 DEF Unheardof, NoBlock
  <2> QED
    BY <1>2, <1>7, <1>10, <1>11, <2>1 DEF Heard
<1> QED
  BY <1>1, <1>7, <1>9, <1>12, ListensOn

LEMMA WithoutFirst ==
    ASSUME NEW S, NEW seq \in Seq(S), seq # <<>>
    PROVE  /\ Len(seq) \in Nat /\ 1 \in 1..Len(seq)
           /\ Tail(seq) \in Seq(S) /\ Len(Tail(seq)) = Len(seq) - 1
           /\ \A i \in 1..(Len(seq) - 1) : Tail(seq)[i] = seq[i + 1] /\ i + 1 \in 2..Len(seq)
           /\ \A i \in 2..Len(seq) : i - 1 \in 1..(Len(seq) - 1) /\ Tail(seq)[i - 1] = seq[i]
           /\ \A i \in 1..Len(seq) : seq[i] \in S /\ (i = 1 \/ i \in 2..Len(seq))
           /\ \A i \in 2..Len(seq) : i \in 1..Len(seq) /\ 1 < i
<1>1. Len(seq) \in Nat /\ Len(seq) >= 1
  OBVIOUS
<1>2. Tail(seq) \in Seq(S) /\ Len(Tail(seq)) = Len(seq) - 1
  OBVIOUS
<1>3. \A i \in 1..(Len(seq) - 1) : Tail(seq)[i] = seq[i + 1]
  OBVIOUS
<1>4. \A i \in 2..Len(seq) : i - 1 \in 1..(Len(seq) - 1) /\ (i - 1) + 1 = i
  BY <1>1
<1>5. \A i \in 2..Len(seq) : Tail(seq)[i - 1] = seq[i]
  BY <1>3, <1>4
<1> QED
  BY <1>1, <1>2, <1>3, <1>4, <1>5

LEMMA LoadBlocksKeeps ==
    ASSUME HistoryInv, Calmly, LoadBlocks
    PROVE  HistoryInv'
<1> DEFINE ranges == listener.ranges
           L == Len(ranges)
           from == ranges[1][1]
           to == ranges[1][2]
           blocks == LoadRange(from, to)
<1>1. /\ mode # "down" /\ ranges # <<>> /\ listener.blocks = <<>>
      /\ listener' = [listener EXCEPT !.ranges = Tail(ranges), !.blocks = blocks]
      /\ UNCHANGED <<setting, head, chain, reorgs, processed, found, mode, indexed, modelsToSync,
                     call, jobs, rebuilt, worker, handlers, followed>>
  <2>1. Head(listener.ranges) = listener.ranges[1]
    OBVIOUS
  <2> QED
    BY <2>1 DEF LoadBlocks, chainVars, apiVars, faultVars
<1>2. /\ Heard /\ ListenerInv /\ ChainInv /\ LastNumber \in Nat
      /\ listener.highest \in Nat /\ listener.highest =< Confirmed /\ ranges \in Seq(Nat \X Nat) /\ L \in Nat
      /\ Confirmed \in Nat /\ DefaultStart \in Nat \ {0} /\ UNCHANGED Confirmed
  <2>1. Heard /\ ListenerInv /\ ChainInv
    BY <1>1 DEF HistoryInv, PromiseInv
  <2>2. UNCHANGED Confirmed
    BY <1>1 DEF Confirmed
  <2> QED
    BY <2>1, <2>2, ConfirmedRange, HistoryConstants DEF Heard, ListenerInv, Number
<1>3. /\ 1 \in 1..L /\ Tail(ranges) \in Seq(Nat \X Nat) /\ Len(Tail(ranges)) = L - 1
      /\ \A i \in 1..(L - 1) : Tail(ranges)[i] = ranges[i + 1] /\ i + 1 \in 1..L /\ i + 1 \in 2..L
      /\ \A i \in 2..L : i - 1 \in 1..(L - 1) /\ Tail(ranges)[i - 1] = ranges[i]
      /\ \A i \in 1..L : ranges[i] \in Nat \X Nat /\ (i = 1 \/ i \in 2..L)
      /\ \A i \in 2..L : i \in 1..L /\ 1 < i
  <2> HIDE DEF ranges
  <2> QED
    BY <1>1, <1>2, WithoutFirst DEF L
<1>4. \A i \in 1..L : /\ DefaultStart =< ranges[i][1] /\ ranges[i][1] =< ranges[i][2]
                      /\ ranges[i][2] =< listener.highest
                      /\ ranges[i][1] \in Nat /\ ranges[i][2] \in Nat /\ ranges[i][1] >= LastNumber
  BY <1>2, <1>3 DEF ListenerInv, Heard, InTurn
<1>5. /\ from \in Nat \ {0} /\ to \in Nat /\ from =< to /\ to =< Confirmed /\ from >= DefaultStart
      /\ from >= LastNumber /\ to =< listener.highest
  BY <1>2, <1>3, <1>4
<1>6. \A k \in 2..L : to < ranges[k][1]
  BY <1>2, <1>3 DEF Heard, InTurn
<1> HIDE DEF ranges, L, from, to
<1>7. /\ blocks \in Seq(Block) /\ Ascending(blocks)
      /\ \A i \in 1..Len(blocks) : blocks[i].number \in from..to
      /\ \A n \in Loaded(from, to) : Has(blocks, n)
  BY <1>2, <1>5, BlocksLoaded DEF Calmly
<1> HIDE DEF blocks
<1>8. /\ listener'.highest = listener.highest /\ listener'.ranges = Tail(ranges)
      /\ listener'.blocks = blocks /\ listener'.last = listener.last
      /\ listener' \in [highest : Nat, last : Nat \X Nat, ranges : Seq(Nat \X Nat), blocks : Seq(Block)]
  <2>1. listener \in [highest : Nat, last : Nat \X Nat, ranges : Seq(Nat \X Nat), blocks : Seq(Block)]
    BY <1>2 DEF ListenerInv
  <2> QED
    BY <1>1, <1>3, <1>7, <2>1
<1>9. LastNumber' = LastNumber
  BY <1>8 DEF LastNumber
<1>10. Len(blocks) \in Nat /\ \A i \in 1..Len(blocks) : blocks[i].number \in Nat
                              /\ from =< blocks[i].number /\ blocks[i].number =< to
  BY <1>5, <1>7
<1>11. /\ blocks # <<>> /\ 1 \in 1..Len(blocks) /\ blocks[1].number = from
  <2>1. PICK i \in 1..Len(blocks) : blocks[i].number = from
    BY <1>5, <1>7 DEF Loaded, Has
  <2>2. 1 \in 1..Len(blocks)
    BY <1>10
  <2>3. CASE i = 1
    BY <2>1, <2>2, <2>3
  <2>4. CASE i # 1
    <3>1. 1 < i
      BY <1>10, <2>4
    <3>2. blocks[1].number < blocks[i].number
      BY <1>5, <1>7, <2>1, <2>2, <3>1 DEF Ascending
    <3> QED
      BY <1>5, <1>10, <2>1, <2>2, <3>2
  <2> QED
    BY <2>3, <2>4
<1>12. ListenerInv'
  <2>1. \A i \in 1..(L - 1) :
          /\ DefaultStart =< Tail(ranges)[i][1] /\ Tail(ranges)[i][1] =< Tail(ranges)[i][2]
          /\ Tail(ranges)[i][2] =< listener.highest
    BY <1>3, <1>4
  <2>2. \A i \in 1..Len(blocks) :
          DefaultStart =< blocks[i].number /\ blocks[i].number =< listener.highest
    BY <1>2, <1>5, <1>10
  <2>3. handlers' \subseteq HandlerRecord
        /\ \A h \in handlers' : h.number = h.job.to /\ h.job.from =< h.number /\ h.number =< Confirmed'
    BY <1>1, <1>2 DEF ListenerInv, HandlerRecord
  <2>4. listener'.highest =< Confirmed'
    BY <1>2, <1>8
  <2> QED
    BY <1>3, <1>8, <2>1, <2>2, <2>3, <2>4 DEF ListenerInv
<1>13. InTurn'
  <2>1. \A i, k \in 1..(L - 1) : i < k => Tail(ranges)[i][2] < Tail(ranges)[k][1]
    <3> SUFFICES ASSUME NEW i \in 1..(L - 1), NEW k \in 1..(L - 1), i < k
                 PROVE  Tail(ranges)[i][2] < Tail(ranges)[k][1]
      OBVIOUS
    <3>1. i + 1 \in 1..L /\ k + 1 \in 1..L /\ i + 1 < k + 1
      <4>1. i \in Int /\ k \in Int
        BY <1>2
      <4>2. i + 1 < k + 1
        BY <4>1
      <4>3. i + 1 \in 1..L /\ k + 1 \in 1..L
        BY <1>3
      <4> QED
        BY <4>2, <4>3
    <3>2. ranges[i + 1][2] < ranges[k + 1][1]
      BY <1>2, <3>1 DEF Heard, InTurn, ranges, L
    <3> QED
      BY <1>3, <3>2
  <2>2. ASSUME NEW i \in 1..Len(blocks), NEW k \in 1..(L - 1)
        PROVE  blocks[i].number < Tail(ranges)[k][1]
    <3>1. Tail(ranges)[k] = ranges[k + 1] /\ k + 1 \in 1..L /\ k + 1 \in 2..L
      BY <1>3
    <3>2. to < ranges[k + 1][1] /\ ranges[k + 1][1] \in Nat
      BY <1>4, <1>6, <3>1
    <3>3. blocks[i].number \in Nat /\ blocks[i].number =< to
      BY <1>10
    <3>4. blocks[i].number < ranges[k + 1][1]
      BY <1>5, <3>2, <3>3
    <3> QED
      BY <3>1, <3>4
  <2>3. \A i \in 1..Len(blocks) : blocks[i].number >= LastNumber
    BY <1>2, <1>5, <1>10
  <2>4. \A k \in 1..(L - 1) : Tail(ranges)[k][1] >= LastNumber
    BY <1>3, <1>4
  <2>5. listener.highest # NoBlock => LastNumber =< listener.highest
    BY <1>2 DEF Heard, InTurn
  <2> QED
    BY <1>3, <1>7, <1>8, <1>9, <2>1, <2>2, <2>3, <2>4, <2>5 DEF InTurn
<1>14. ToCome'
  <2> SUFFICES ASSUME NEW n \in Number \ Empty, LastNumber < n, n =< listener.highest
               PROVE  Has(blocks, n) \/ InRanges(n)' \/ Skipped(n)'
    BY <1>8, <1>9 DEF ToCome
  <2>1. Has(listener.blocks, n) \/ InRanges(n) \/ Skipped(n)
    BY <1>2 DEF Heard, ToCome
  <2>2. ~Has(listener.blocks, n)
    BY <1>1 DEF Has
  <2>3. CASE InRanges(n)
    <3>1. PICK i \in 1..L : ranges[i][1] =< n /\ n =< ranges[i][2]
      BY <2>3 DEF InRanges, ranges, L
    <3>2. CASE i = 1
      <4>1. n \in (from..to) \ Empty
        BY <1>5, <3>1, <3>2, HistoryConstants DEF Number, from, to
      <4> QED
        BY <1>7, <4>1 DEF Loaded
    <3>3. CASE i \in 2..L
      <4>1. i - 1 \in 1..(L - 1) /\ Tail(ranges)[i - 1] = ranges[i]
        BY <1>3, <3>3
      <4>2. InRanges(n)'
        BY <1>3, <1>8, <3>1, <4>1 DEF InRanges
      <4> QED
        BY <4>2
    <3> QED
      BY <1>3, <3>2, <3>3
  <2>4. CASE Skipped(n)
    <3>1. from \in Number /\ n < from /\ from - Confirmations =< n
      BY <1>1, <2>4 DEF Skipped, ranges, from
    <3>2. Skipped(n)'
      BY <1>8, <1>11, <3>1 DEF Skipped
    <3> QED
      BY <3>2
  <2> QED
    BY <2>1, <2>2, <2>3, <2>4
<1>15. Heard'
  <2>1. Unheardof'
    BY <1>1, <1>2, <1>8 DEF Heard, Unheardof, ranges
  <2> QED
    BY <1>2, <1>9, <1>13, <1>14, <2>1 DEF Heard
<1> QED
  BY <1>1, <1>9, <1>12, <1>15, ListensOn

-----------------------------------------------------------------------------
(* A block is emitted: a job for it, that reaches back to what was skipped *)
(* before it, is about to be added.                                        *)
LEMMA EmitKeeps ==
    ASSUME HistoryInv, Calmly, Emit
    PROVE  HistoryInv'
<1> DEFINE blocks == listener.blocks
           L == Len(blocks)
           block == blocks[1]
           b == block.number
<1>0. PICK job, h : /\ job = JobFor(block, block.parentHash # listener.last)
                    /\ h = [at |-> "adding", number |-> b, job |-> job]
  OBVIOUS
<1>1. /\ mode # "down" /\ handlers = {} /\ blocks # <<>> /\ handlers' = {h}
      /\ listener' = [listener EXCEPT !.blocks = Tail(blocks), !.last = block.hash]
      /\ UNCHANGED <<setting, head, chain, reorgs, processed, found, mode, indexed, modelsToSync,
                     call, jobs, rebuilt, worker, followed>>
  <2>1. Head(listener.blocks) = listener.blocks[1]
    OBVIOUS
  <2> QED
    BY <1>0, <2>1 DEF Emit, MayHandle, Calmly, chainVars, apiVars, faultVars
<1>2. /\ Heard /\ ListenerInv /\ ChainInv /\ UNCHANGED Confirmed
      /\ listener \in [highest : Nat, last : Nat \X Nat, ranges : Seq(Nat \X Nat), blocks : Seq(Block)]
      /\ listener.highest \in Nat /\ listener.highest =< Confirmed /\ blocks \in Seq(Block)
  BY <1>1 DEF Confirmed, HistoryInv, PromiseInv, ListenerInv
<1>3. /\ Confirmed \in Nat /\ Confirmed \in Number /\ DefaultStart \in Nat \ {0}
      /\ Confirmations \in Nat \ {0} /\ DefaultStart > Confirmations
      /\ LastNumber \in Nat /\ LastNumber \in Number /\ MaxHead \in Nat
  BY <1>2, ConfirmedRange, HistoryConstants DEF Heard, Number
<1>4. /\ L \in Nat /\ 1 \in 1..L /\ Tail(blocks) \in Seq(Block) /\ Len(Tail(blocks)) = L - 1
      /\ \A i \in 1..(L - 1) : Tail(blocks)[i] = blocks[i + 1] /\ i + 1 \in 2..L
      /\ \A i \in 2..L : i - 1 \in 1..(L - 1) /\ Tail(blocks)[i - 1] = blocks[i]
      /\ \A i \in 1..L : blocks[i] \in Block /\ (i = 1 \/ i \in 2..L)
      /\ \A i \in 2..L : i \in 1..L /\ 1 < i
  <2> HIDE DEF blocks
  <2> QED
    BY <1>1, <1>2, WithoutFirst DEF L
<1>5. \A i \in 1..L : /\ blocks[i].number \in Nat /\ DefaultStart =< blocks[i].number
                      /\ blocks[i].number =< listener.highest
  BY <1>2, <1>4 DEF ListenerInv, Block
<1>6. /\ b \in Nat /\ DefaultStart =< b /\ b =< listener.highest /\ LastNumber =< b /\ b =< Confirmed
      /\ b \in Number /\ b - Confirmations \in Nat \ {0}
      /\ block.hash \in Nat \X Nat /\ block.hash[1] = b /\ block.parentHash[1] = b - 1
  <2>1. b \in Nat /\ DefaultStart =< b /\ b =< listener.highest
    BY <1>4, <1>5
  <2>2. LastNumber =< b
    BY <1>2, <1>4 DEF Heard, InTurn
  <2>3. b =< Confirmed /\ b - Confirmations \in Nat \ {0}
    BY <1>2, <1>3, <2>1
  <2>4. b \in Number
    BY <1>3, <2>1, <2>3 DEF Number
  <2>5. block.hash \in Nat \X Nat /\ block.hash[1] = b /\ block.parentHash[1] = b - 1
    BY <1>4 DEF Block, Fork
  <2> QED
    BY <2>1, <2>2, <2>3, <2>4, <2>5
<1>7. \A i \in 2..L : b < blocks[i].number
  BY <1>2, <1>4, <1>5 DEF Heard, InTurn, Ascending
<1>8. /\ job.type \in {"reorg", "continuous"} /\ job.from \in Nat \ {0} /\ job.to = b
      /\ job.models = modelsToSync /\ job.from =< b /\ job.models \subseteq SyncName
      /\ job \in [type : {"reorg", "continuous"}, from : Nat \ {0}, to : Nat, models : SUBSET SyncName]
      /\ block.parentHash # listener.last => job.from = b - Confirmations
  <2>1. modelsToSync \subseteq SyncName /\ b \in Nat \ {0} /\ b - Confirmations =< b
    BY <1>3, <1>6 DEF HistoryInv, CallsInv
  <2>2. CASE block.parentHash # listener.last
    BY <1>0, <1>6, <2>1, <2>2 DEF JobFor, Job
  <2>3. CASE block.parentHash = listener.last
    BY <1>0, <1>6, <2>1, <2>3 DEF JobFor, Job
  <2> QED
    BY <2>2, <2>3
<1> HIDE DEF b, block, L, blocks
<1>9. /\ listener'.highest = listener.highest /\ listener'.ranges = listener.ranges
      /\ listener'.blocks = Tail(blocks) /\ listener'.last = block.hash
      /\ listener' \in [highest : Nat, last : Nat \X Nat, ranges : Seq(Nat \X Nat), blocks : Seq(Block)]
  BY <1>1, <1>2, <1>4, <1>6
<1>10. LastNumber' = b
  BY <1>6, <1>9 DEF LastNumber
<1>11. ChainInv'
  BY <1>1, <1>2, ChainFrame
<1>12. CallsInv'
  BY <1>1, CallsFrame DEF HistoryInv
<1>13. JobsInv' /\ CoverKept
  <2>1. head' >= head
    BY <1>1, <1>2 DEF ChainInv
  <2> QED
    BY <1>1, <1>2, <1>11, <2>1, JobsFrame DEF HistoryInv
<1>14. ListenerInv'
  <2>1. /\ h \in HandlerRecord /\ h.number = h.job.to /\ h.job.from =< h.number /\ h.number =< Confirmed'
    BY <1>0, <1>2, <1>6, <1>8 DEF HandlerRecord
  <2>2. \A i \in 1..(L - 1) :
          DefaultStart =< Tail(blocks)[i].number /\ Tail(blocks)[i].number =< listener.highest
    BY <1>4, <1>5
  <2>3. listener'.highest =< Confirmed'
    BY <1>2, <1>9
  <2>4. \A i \in 1..Len(listener'.ranges) :
          /\ DefaultStart =< listener'.ranges[i][1] /\ listener'.ranges[i][1] =< listener'.ranges[i][2]
          /\ listener'.ranges[i][2] =< listener'.highest
    BY <1>2, <1>9 DEF ListenerInv
  <2>5. /\ handlers' \subseteq HandlerRecord
        /\ \A g \in handlers' : g.number = g.job.to /\ g.job.from =< g.number /\ g.number =< Confirmed'
    BY <1>1, <2>1
  <2> QED
    BY <1>4, <1>9, <2>2, <2>3, <2>4, <2>5 DEF ListenerInv
<1>15. Heard'
  <2>1. /\ listener.highest # NoBlock
        /\ \A i \in 1..L, k \in 1..Len(listener.ranges) : blocks[i].number < listener.ranges[k][1]
        /\ \A k \in 1..Len(listener.ranges) : listener.ranges[k] \in Nat \X Nat
    BY <1>1, <1>2 DEF Heard, Unheardof, InTurn, blocks, L
  <2>2. Unheardof'
    BY <1>9, <2>1 DEF Unheardof
  <2>3. InTurn'
    <3>1. Ascending(Tail(blocks))
      <4> SUFFICES ASSUME NEW i \in 1..(L - 1), NEW k \in 1..(L - 1), i < k
                   PROVE  Tail(blocks)[i].number < Tail(blocks)[k].number
        BY <1>4 DEF Ascending
      <4>1. i + 1 \in 1..L /\ k + 1 \in 1..L /\ i + 1 < k + 1
        <5>1. i \in Int /\ k \in Int
          OBVIOUS
        <5> QED
          BY <1>4, <5>1
      <4>2. Ascending(blocks)
        BY <1>2 DEF Heard, InTurn, blocks
      <4>3. blocks[i + 1].number < blocks[k + 1].number
        BY <1>5, <4>1, <4>2 DEF Ascending, L
      <4> QED
        BY <1>4, <4>3
    <3>2. \A i \in 1..(L - 1), k \in 1..Len(listener.ranges) : Tail(blocks)[i].number < listener.ranges[k][1]
      BY <1>4, <2>1
    <3>3. \A i \in 1..(L - 1) : Tail(blocks)[i].number >= b
      BY <1>4, <1>5, <1>6, <1>7
    <3>4. \A k \in 1..Len(listener.ranges) : listener.ranges[k][1] >= b
      <4>1. \A k \in 1..Len(listener.ranges) : b < listener.ranges[k][1] /\ listener.ranges[k][1] \in Nat
        BY <1>4, <2>1 DEF b, block
      <4> QED
        BY <1>6, <4>1
    <3>5. \A i, k \in 1..Len(listener.ranges) : i < k => listener.ranges[i][2] < listener.ranges[k][1]
      BY <1>2 DEF Heard, InTurn
    <3> QED
      BY <1>4, <1>6, <1>9, <1>10, <3>1, <3>2, <3>3, <3>4, <3>5 DEF InTurn
  <2>4. ToCome'
    <3> SUFFICES ASSUME NEW n \in Number \ Empty, b < n, n =< listener.highest
                 PROVE  Has(Tail(blocks), n) \/ InRanges(n) \/ Skipped(n)'
      BY <1>9, <1>10 DEF ToCome, InRanges
    <3>1. LastNumber < n
      BY <1>3, <1>6 DEF Number
    <3>2. Has(blocks, n) \/ InRanges(n) \/ Skipped(n)
      BY <1>2, <3>1 DEF Heard, ToCome, blocks
    <3>3. ~Skipped(n)
      <4>1. ~(n < b)
        BY <1>3, <1>6 DEF Number
      <4> QED
        BY <1>1, <4>1 DEF Skipped, b, block, blocks
    <3>4. Has(blocks, n) => Has(Tail(blocks), n)
      <4> SUFFICES ASSUME NEW i \in 1..L, blocks[i].number = n PROVE Has(Tail(blocks), n)
        BY DEF Has, L
      <4>1. i \in 2..L
        BY <1>4, <1>6 DEF b, block
      <4> QED
        BY <1>4, <4>1 DEF Has
    <3> QED
      BY <3>2, <3>3, <3>4
  <2> QED
    BY <1>2, <1>6, <1>10, <2>2, <2>3, <2>4 DEF Heard
<1>16. PromisedWith(job)'
  <2> SUFFICES ASSUME NEW m \in Model, NEW n \in Number \ Empty, call[m] = "started", n =< b
               PROVE  Cov(n, m)' \/ (m \in job.models /\ job.from =< n)
    BY <1>1, <1>10 DEF PromisedWith
  <2>0. n \in Nat /\ n >= DefaultStart
    BY <1>3 DEF Number
  <2>1. m \in modelsToSync
    BY <1>1 DEF HistoryInv, CallsInv
  <2>2. CASE n =< LastNumber
    <3>1. Cov(n, m)
      BY <1>1, <2>2 DEF HistoryInv, PromiseInv, Promised
    <3> QED
      BY <1>13, <3>1 DEF CoverKept
  <2>3. CASE n = b
    BY <1>8, <2>1, <2>3
  <2>4. CASE LastNumber < n /\ n < b
    <3>1. Has(blocks, n) \/ InRanges(n) \/ Skipped(n)
      <4>1. n =< listener.highest
        BY <1>2, <1>6, <2>0, <2>4
      <4> QED
        BY <1>2, <2>4, <4>1 DEF Heard, ToCome, blocks
    <3>2. ~Has(blocks, n)
      <4> SUFFICES ASSUME NEW i \in 1..L, blocks[i].number = n PROVE FALSE
        BY DEF Has, L
      <4>1. i \in 2..L
        BY <1>4, <1>6, <2>0, <2>4 DEF b, block
      <4> QED
        BY <1>6, <1>7, <2>0, <2>4, <4>1
    <3>3. ~InRanges(n)
      <4> SUFFICES ASSUME NEW i \in 1..Len(listener.ranges), listener.ranges[i][1] =< n PROVE FALSE
        BY DEF InRanges
      <4>1. b < listener.ranges[i][1]
        BY <1>2, <1>4 DEF Heard, InTurn, b, block, blocks, L
      <4>2. listener.ranges[i][1] \in Nat
        BY <1>2
      <4> QED
        BY <1>6, <2>0, <2>4, <4>1, <4>2
    <3>4. b - Confirmations =< n
      BY <1>1, <3>1, <3>2, <3>3 DEF Skipped, b, block, blocks
    <3>5. block.parentHash # listener.last
      <4>1. LastNumber # b - 1
        BY <1>3, <1>6, <2>0, <2>4
      <4> QED
        BY <1>6, <4>1 DEF LastNumber
    <3> QED
      BY <1>8, <2>1, <3>4, <3>5
  <2> QED
    BY <1>3, <1>6, <2>0, <2>2, <2>3, <2>4
<1>17. PromiseInv'
  <2>2. h.number = LastNumber' /\ h.at = "adding" /\ h.job = job
    BY <1>0, <1>10
  <2> QED
    BY <1>1, <1>15, <1>16, <2>2 DEF PromiseInv
<1>18. KeptInv'
  BY <1>1, <1>13, FollowedKept DEF HistoryInv
<1> QED
  BY <1>11, <1>12, <1>13, <1>14, <1>17, <1>18 DEF HistoryInv

(* The job of a block is in the queue before its number is stored.         *)
LEMMA JobIsAddedKeeps ==
    ASSUME HistoryInv, Calmly, NEW h \in handlers, JobIsAdded(h)
    PROVE  HistoryInv'
<1>1. /\ h.at = "adding" /\ AddJob(h.job) /\ handlers = {h} /\ h \in HandlerRecord
      /\ h.number = LastNumber /\ h.number = h.job.to /\ h.number =< Confirmed
      /\ PromisedWith(h.job) /\ mode # "down"
      /\ UNCHANGED <<setting, head, chain, reorgs, processed, found, mode, indexed, modelsToSync,
                     call, rebuilt, worker, listener, followed>>
  BY DEF JobIsAdded, HistoryInv, PromiseInv, ListenerInv, chainVars, apiVars, faultVars, ChainInv
<1>2. PICK g : g = [h EXCEPT !.at = "storing"]
  OBVIOUS
<1>3. /\ handlers' = {g} /\ g \in HandlerRecord /\ g.at = "storing" /\ g.number = h.number /\ g.job = h.job
      /\ h.job \in NewJobs
  <2>1. handlers' = (handlers \ {h}) \cup {g}
    BY <1>2 DEF JobIsAdded
  <2>2. handlers' = {g}
    BY <1>1, <2>1
  <2>3. h.job \in NewJobs
    BY <1>1 DEF HandlerRecord, NewJobs
  <2> QED
    BY <1>1, <1>2, <2>2, <2>3 DEF HandlerRecord
<1>4. /\ JobsInv' /\ CoverKept
      /\ \A m \in h.job.models, n \in Number : h.job.from =< n /\ n =< h.job.to => Cov(n, m)'
  BY <1>1, <1>3, JobAdded DEF HistoryInv
<1>5. UNCHANGED <<Confirmed, LastNumber>>
  BY <1>1 DEF Confirmed, LastNumber
<1>6. ChainInv'
  BY <1>1, ChainFrame DEF HistoryInv
<1>7. CallsInv'
  BY <1>1, CallsFrame DEF HistoryInv
<1>8. ListenerInv'
  BY <1>1, <1>3, <1>5 DEF HistoryInv, ListenerInv
<1>9. Heard'
  BY <1>1, HeardFrame DEF HistoryInv, PromiseInv
<1>10. KeptInv'
  BY <1>1, <1>4, FollowedKept DEF HistoryInv
<1>11. Promised(LastNumber)'
  <2> SUFFICES ASSUME NEW m \in Model, NEW n \in Number \ Empty, call[m] = "started", n =< LastNumber
               PROVE  Cov(n, m)'
    BY <1>1, <1>5 DEF Promised
  <2>1. Cov(n, m) \/ (m \in h.job.models /\ h.job.from =< n)
    BY <1>1 DEF PromisedWith
  <2> QED
    BY <1>1, <1>4, <2>1 DEF CoverKept
<1> QED
  BY <1>1, <1>3, <1>4, <1>5, <1>6, <1>7, <1>8, <1>9, <1>10, <1>11 DEF HistoryInv, PromiseInv

LEMMA UpdateStoredStateKeeps ==
    ASSUME HistoryInv, Calmly, NEW h \in handlers, UpdateStoredState(h)
    PROVE  HistoryInv'
<1>1. /\ handlers = {h} /\ h.number = LastNumber /\ Promised(LastNumber) /\ mode # "down"
      /\ processed' = LastNumber
      /\ followed' = [m \in Model |-> IF call[m] = "started" THEN LastNumber ELSE followed[m]]
      /\ handlers' = {} /\ Heard
      /\ UNCHANGED <<setting, head, chain, reorgs, found, mode, indexed, modelsToSync,
                     call, jobs, rebuilt, worker, listener>>
  BY DEF UpdateStoredState, HistoryInv, PromiseInv, chainVars, apiVars, faultVars, ChainInv
<1>2. UNCHANGED <<Confirmed, LastNumber>>
  BY <1>1 DEF Confirmed, LastNumber
<1>3. LastNumber \in 0..Confirmed
  BY <1>1, HistoryConstants, ConfirmedRange DEF Heard, Number, HistoryInv
<1>4. ChainInv'
  BY <1>1, <1>2, <1>3 DEF HistoryInv, ChainInv
<1>5. CallsInv'
  BY <1>1, CallsFrame DEF HistoryInv
<1>6. JobsInv' /\ CoverKept
  <2>1. head' >= head
    BY <1>1 DEF HistoryInv, ChainInv
  <2> QED
    BY <1>1, <1>4, <2>1, JobsFrame DEF HistoryInv
<1>7. ListenerInv'
  BY <1>1, <1>2 DEF HistoryInv, ListenerInv
<1>8. Heard'
  BY <1>1, HeardFrame
<1>9. Promised(LastNumber)'
  BY <1>1, <1>2, <1>6 DEF Promised, CoverKept
<1>10. KeptInv'
  <2>1. followed' \in [Model -> 0..MaxHead]
    BY <1>1, HistoryConstants DEF HistoryInv, KeptInv, Heard, Number
  <2>2. ASSUME NEW m \in Model, NEW n \in Number \ Empty, n =< followed'[m] PROVE Cov(n, m)'
    <3>1. CASE call[m] = "started"
      BY <1>1, <1>6, <2>2, <3>1 DEF Promised, CoverKept
    <3>2. CASE call[m] # "started"
      BY <1>1, <1>6, <2>2, <3>2 DEF HistoryInv, KeptInv, CoverKept
    <3> QED
      BY <3>1, <3>2
  <2> QED
    BY <2>1, <2>2 DEF KeptInv
<1> QED
  BY <1>1, <1>4, <1>5, <1>6, <1>7, <1>8, <1>9, <1>10 DEF HistoryInv, PromiseInv

-----------------------------------------------------------------------------
(* What leaves the chain, the listener and its handlers alone.             *)
LEMMA RestKept ==
    ASSUME HistoryInv, CallsInv', JobsInv', CoverKept, StartsCovered, KeptInv',
           UNCHANGED <<setting, head, chain, reorgs, processed, found, mode, listener, handlers>>
    PROVE  HistoryInv'
<1>1. ChainInv'
  BY ChainFrame DEF HistoryInv
<1>2. ListenerInv'
  <2>1. head' >= head
    BY DEF HistoryInv, ChainInv
  <2> QED
    BY <1>1, <2>1, ListenerFrame DEF HistoryInv
<1>3. PromiseInv'
  BY PromiseFrame DEF HistoryInv
<1> QED
  BY <1>1, <1>2, <1>3 DEF HistoryInv

LEMMA CallsKeep ==
    ASSUME HistoryInv, Calmly, NEW m \in Model, IndexModel(m) \/ TrackModel(m) \/ StopModel(m)
    PROVE  HistoryInv'
<1>1. /\ mode = "running"
      /\ UNCHANGED <<setting, head, chain, reorgs, processed, found, mode, jobs, rebuilt, worker,
                     listener, handlers, followed>>
  BY DEF IndexModel, TrackModel, StopModel, chainVars, listening, faultVars
<1>2. CallsInv /\ call \in [Model -> {"new", "forgotten", "indexed", "tracked", "started", "stopped"}]
  BY DEF HistoryInv, CallsInv
<1>3. CallsInv'
  <2>1. CASE IndexModel(m)
    BY <1>1, <1>2, <2>1 DEF CallsInv, IndexModel
  <2>2. CASE TrackModel(m)
    BY <1>1, <1>2, <2>2 DEF CallsInv, TrackModel, SyncName
  <2>3. CASE StopModel(m)
    BY <1>1, <1>2, <2>3 DEF CallsInv, StopModel
  <2> QED
    BY <2>1, <2>2, <2>3
<1>4. \A k \in Model : call'[k] = "started" => call[k] = "started"
  BY <1>2 DEF IndexModel, TrackModel, StopModel
<1>5. JobsInv' /\ CoverKept
  <2>1. ChainInv' /\ head' >= head
    BY <1>1, ChainFrame DEF HistoryInv, ChainInv
  <2> QED
    BY <1>1, <2>1, JobsFrame DEF HistoryInv
<1>6. KeptInv'
  BY <1>1, <1>5, FollowedKept DEF HistoryInv
<1> QED
  BY <1>1, <1>3, <1>4, <1>5, <1>6, RestKept DEF StartsCovered

(* A model has started once its Full job is in the queue.                  *)
LEMMA AddFullJobKeeps ==
    ASSUME HistoryInv, Calmly, NEW m \in Model, AddFullJob(m)
    PROVE  HistoryInv'
<1>1. /\ mode = "running" /\ call[m] = "tracked" /\ call' = [call EXCEPT ![m] = "started"]
      /\ AddHistoricJob(Job("full", DefaultStart, Confirmed, {m}))
      /\ followed' = [followed EXCEPT ![m] = processed]
      /\ UNCHANGED <<setting, head, chain, reorgs, processed, found, mode, indexed, modelsToSync,
                     rebuilt, worker, listener, handlers>>
  BY DEF AddFullJob, chainVars, listening, faultVars, Confirmed
<1>2. CallsInv /\ call \in [Model -> {"new", "forgotten", "indexed", "tracked", "started", "stopped"}]
  BY DEF HistoryInv, CallsInv
<1>3. CallsInv'
  BY <1>1, <1>2 DEF CallsInv
<1>4. PICK job : job = Job("full", DefaultStart, Confirmed, {m})
  OBVIOUS
<1>5. /\ job \in NewJobs /\ job.models = {m} /\ job.from = DefaultStart /\ job.to = Confirmed
      /\ Confirmed \in Nat
  BY <1>4, ConfirmedRange, HistoryConstants DEF HistoryInv, Job, NewJobs, Historic, SyncName
<1>6. AddJob(job)
  BY <1>1, <1>4 DEF AddHistoricJob
<1>7. /\ JobsInv' /\ CoverKept
      /\ \A k \in job.models, n \in Number : job.from =< n /\ n =< job.to => Cov(n, k)'
  BY <1>1, <1>5, <1>6, JobAdded DEF HistoryInv
<1>8. StartsCovered
  <2> SUFFICES ASSUME NEW k \in Model, call'[k] = "started", call[k] # "started",
                      NEW n \in Number \ Empty, n =< Confirmed
               PROVE  Cov(n, k)'
    BY DEF StartsCovered
  <2>1. k = m
    BY <1>1, <1>2
  <2>2. DefaultStart =< n
    BY HistoryConstants DEF Number
  <2> QED
    BY <1>5, <1>7, <2>1, <2>2
<1>9. KeptInv'
  <2>1. processed \in Nat /\ processed =< Confirmed /\ Confirmed =< MaxHead
        /\ followed \in [Model -> 0..MaxHead]
    BY <1>5, ConfirmedRange, HistoryConstants DEF HistoryInv, ChainInv, KeptInv, Number
  <2>2. followed' \in [Model -> 0..MaxHead]
    <3>1. processed \in 0..MaxHead
      BY <1>5, <2>1, HistoryConstants
    <3> QED
      BY <1>1, <2>1, <3>1
  <2>3. ASSUME NEW k \in Model, NEW n \in Number \ Empty, n =< followed'[k] PROVE Cov(n, k)'
    <3>1. CASE k = m
      <4>1. DefaultStart =< n /\ n =< Confirmed
        BY <1>1, <1>5, <2>1, <2>3, <3>1, HistoryConstants DEF Number
      <4> QED
        BY <1>5, <1>7, <3>1, <4>1
    <3>2. CASE k # m
      BY <1>1, <1>7, <2>1, <2>3, <3>2 DEF HistoryInv, KeptInv, CoverKept
    <3> QED
      BY <3>1, <3>2
  <2> QED
    BY <2>2, <2>3 DEF KeptInv
<1> QED
  BY <1>1, <1>3, <1>7, <1>8, <1>9, RestKept

LEMMA WorkersKeep ==
    ASSUME HistoryInv, Calmly, NEW q \in Queue, Work(q) \/ WorkerFails(q)
    PROVE  HistoryInv'
<1>1. UNCHANGED <<setting, head, chain, reorgs, processed, found, mode, indexed, modelsToSync, call,
                  listener, handlers, followed>>
  BY DEF Work, Fetch, Load, AddRebuildJobs, UpdateJob, Finish, Complete, NothingLoaded, WorkerFails,
         JobFails, chainVars, apiVars, listening, faultVars
<1>2. JobsInv' /\ CoverKept
  <2>0. ChainInv /\ JobsInv /\ ~Crosses
    BY DEF HistoryInv, Calmly
  <2>1. CASE Fetch(q)
    BY <2>0, <2>1, FetchKeeps
  <2>2. CASE Load(q)
    BY <2>0, <2>2, LoadKeeps
  <2>3. CASE AddRebuildJobs(q)
    BY <2>0, <2>3, AddRebuildJobsKeeps
  <2>4. CASE UpdateJob(q)
    BY <2>0, <2>4, UpdateJobKeeps
  <2>5. CASE Finish(q)
    BY <2>0, <2>5, FinishKeeps
  <2>6. CASE Complete(q)
    BY <2>0, <2>6, CompleteKeeps
  <2>7. CASE NothingLoaded(q)
    <3>1. JobFails(q) /\ worker[q].at # "idle"
      BY <2>7 DEF NothingLoaded
    <3> QED
      BY <2>0, <3>1, JobFailsKeeps
  <2>8. CASE WorkerFails(q)
    <3>1. JobFails(q) /\ worker[q].at # "idle"
      BY <2>8 DEF WorkerFails, AtWork
    <3> QED
      BY <2>0, <3>1, JobFailsKeeps
  <2> QED
    BY <2>1, <2>2, <2>3, <2>4, <2>5, <2>6, <2>7, <2>8 DEF Work
<1>3. CallsInv'
  BY <1>1, CallsFrame DEF HistoryInv
<1>4. StartsCovered
  BY <1>1 DEF StartsCovered
<1>5. KeptInv'
  BY <1>1, <1>2, FollowedKept DEF HistoryInv
<1> QED
  BY <1>1, <1>2, <1>3, <1>4, <1>5, RestKept

(* A crash loses what is not in the database.                              *)
LEMMA CrashKeeps ==
    ASSUME HistoryInv, Calmly, Crash
    PROVE  HistoryInv'
<1>1. /\ mode' = "down" /\ modelsToSync' = {} /\ found' = NothingRead
      /\ listener' = NewListener(<<NoBlock, 0>>) /\ handlers' = {}
      /\ call' = [m \in Model |-> IF m \in indexed THEN "forgotten" ELSE call[m]]
      /\ UNCHANGED <<setting, head, chain, reorgs, processed, indexed, jobs, rebuilt, followed>>
  BY DEF Crash, chainVars
<1>2. JobsInv' /\ CoverKept
  BY CrashKeepsJobs DEF HistoryInv
<1>3. UNCHANGED Confirmed /\ Confirmed \in Nat
  BY <1>1, ConfirmedRange DEF Confirmed, HistoryInv
<1>4. ChainInv'
  BY <1>1, <1>3 DEF HistoryInv, ChainInv, NothingRead, NoBlock
<1>5. CallsInv'
  BY <1>1 DEF HistoryInv, CallsInv
<1>6. ListenerInv'
  BY <1>1, <1>3 DEF ListenerInv, NewListener, NoBlock
<1>7. KeptInv'
  BY <1>1, <1>2, FollowedKept DEF HistoryInv
<1> QED
  BY <1>1, <1>2, <1>4, <1>5, <1>6, <1>7 DEF HistoryInv, PromiseInv

LEMMA HistoryStarts ==
    ASSUME Init
    PROVE  HistoryInv
<1>1. /\ setting \in Exposures
  BY HistorySyncAssumption DEF Init
<1>2. ChainInv
  <2>1. head \in Nat /\ head = DefaultStart + Confirmations /\ head =< MaxHead
    BY HistoryConstants DEF Init
  <2>2. processed \in 0..Confirmed
    <3>1. Confirmed \in Nat
      BY <2>1, HistoryConstants DEF Confirmed
    <3> QED
      BY <3>1 DEF Init, NoBlock
  <2>3. found \in [latest : Nat, processed : Nat]
    BY DEF Init, NothingRead, NoBlock
  <2>4. chain \in [0..MaxHead -> Nat] /\ \A n \in 0..head : chain[n] \in 1..(reorgs + 1)
    <3>1. \A n \in 0..head : n \in 0..MaxHead /\ n =< head
      BY <2>1, HistoryConstants
    <3> QED
      BY <2>1, <3>1 DEF Init
  <2> QED
    BY <2>1, <2>2, <2>3, <2>4, HistoryConstants DEF ChainInv, Init
<1>3. CallsInv
  BY <1>1 DEF CallsInv, Init, Exposures
<1>4. JobsInv
  <2>1. /\ Idle \in [at : {"idle", "failing", "working", "updating", "completing"}, next : Nat, blocks : Seq(Block)]
        /\ Idle.at = "idle"
    BY DEF Idle
  <2>2. jobs = <<>> /\ Len(jobs) = 0 /\ mode = "down" /\ worker = [q \in Queue |-> Idle]
    BY DEF Init
  <2>3. JobsType
    BY <2>1, <2>2 DEF JobsType
  <2>4. AtOneWorker
    BY <2>1, <2>2 DEF AtOneWorker
  <2>5. WorkInv
    BY <2>2 DEF WorkInv
  <2> QED
    BY <2>3, <2>4, <2>5 DEF JobsInv
<1>5. ListenerInv
  BY <1>2, ConfirmedRange DEF ListenerInv, Init, NewListener, NoBlock
<1>6. PromiseInv
  BY DEF PromiseInv, Init
<1>7. KeptInv
  <2>1. followed = [m \in Model |-> 0]
    BY DEF Init, NoBlock
  <2>2. \A n \in Number : ~(n =< 0)
    BY HistoryConstants DEF Number
  <2> QED
    BY <2>1, <2>2, HistoryConstants DEF KeptInv
<1> QED
  BY <1>2, <1>3, <1>4, <1>5, <1>6, <1>7 DEF HistoryInv

LEMMA HistoryStep ==
    ASSUME HistoryInv, Calmly, [Next]_vars
    PROVE  HistoryInv'
<1>1. CASE NewBlock \/ \E d \in 1..(2 * Confirmations) : Reorg(d)
  BY <1>1, ChainGrows
<1>2. CASE Boot
  BY <1>2, BootKeeps
<1>3. CASE CatchUp
  BY <1>3, CatchUpKeeps
<1>4. CASE Listen
  BY <1>4, BlockEventKeeps, LoadBlocksKeeps, EmitKeeps DEF Listen
<1>5. CASE Handle
  BY <1>5, JobIsAddedKeeps, UpdateStoredStateKeeps DEF Handle
<1>6. CASE \E m \in Model : IndexModel(m) \/ StartSync(m) \/ StopModel(m)
  BY <1>6, CallsKeep, AddFullJobKeeps DEF StartSync
<1>7. CASE \E q \in Queue : Work(q) \/ WorkerFails(q)
  BY <1>7, WorkersKeep
<1>8. CASE Crash
  BY <1>8, CrashKeeps
<1>9. CASE UNCHANGED vars
  <2>1. UNCHANGED <<setting, head, chain, reorgs, processed, found, mode, indexed, modelsToSync, call,
                    jobs, rebuilt, worker, listener, handlers, followed>>
    BY <1>9 DEF vars, chainVars, apiVars, listening, faultVars
  <2>2. ChainInv' /\ head' >= head
    BY <2>1, ChainFrame DEF HistoryInv, ChainInv
  <2>3. CallsInv'
    BY <2>1, CallsFrame DEF HistoryInv
  <2>4. JobsInv' /\ CoverKept
    BY <2>1, <2>2, JobsFrame DEF HistoryInv
  <2>5. StartsCovered
    BY <2>1 DEF StartsCovered
  <2>6. KeptInv'
    BY <2>1, <2>4, FollowedKept DEF HistoryInv
  <2> QED
    BY <2>1, <2>3, <2>4, <2>5, <2>6, RestKept
<1> QED
  BY <1>1, <1>2, <1>3, <1>4, <1>5, <1>6, <1>7, <1>8, <1>9 DEF Next

(* What the node says it has processed, while it syncs a model, is rebuilt *)
(* for the model or left to a job in the database, and stays so when the   *)
(* model is stopped and when the node crashes and starts again: whatever   *)
(* the order of workers, handlers, starts of models, crashes, failures and *)
(* forks, as long as one block is handled at a time, in the order of their *)
(* numbers (sync-api.ts:268-292, 403-432, index.ts:125-145 of the job      *)
(* queue).                                                                 *)
THEOREM ProcessedStaysCovered == Spec => []ProcessedIsCovered
<1> DEFINE Inv == Calmly => HistoryInv
<1>1. Init => Inv
  BY HistoryStarts
<1>2. Inv /\ [Next]_vars => Inv'
  <2>1. [Next]_vars => setting' = setting
    BY DEF Next, NewBlock, Reorg, Boot, CatchUp, Listen, BlockEvent, LoadBlocks, Emit, Handle, JobIsAdded,
           UpdateStoredState, IndexModel, StartSync, TrackModel, AddFullJob, StopModel, Work, Fetch, Load,
           AddRebuildJobs, UpdateJob, Finish, Complete, NothingLoaded, WorkerFails, JobFails, Crash,
           vars, faultVars
  <2>2. setting' = setting => (Calmly' <=> Calmly)
    BY DEF Calmly, Crosses
  <2> QED
    BY <2>1, <2>2, HistoryStep
<1>3. Inv => ProcessedIsCovered
  <2> SUFFICES ASSUME HistoryInv,
                      NEW m \in Model, NEW n \in (DefaultStart..followed[m]) \ Empty
               PROVE  Covered(n, m)
    BY DEF ProcessedIsCovered, Calmly
  <2>1. followed[m] \in Nat /\ followed[m] =< MaxHead
    BY DEF HistoryInv, KeptInv
  <2>2. n \in Number \ Empty /\ n =< followed[m]
    BY <2>1, HistoryConstants DEF Number
  <2>3. Cov(n, m)
    BY <2>2 DEF HistoryInv, KeptInv
  <2>4. \A i \in 1..Len(jobs) : jobs[i] \in ToSet(jobs)
    BY DEF ToSet, HistoryInv, JobsInv, JobsType
  <2> QED
    BY <2>3, <2>4 DEF Cov, Covered
<1> QED
  BY <1>1, <1>2, <1>3, PTL DEF Spec
=============================================================================
