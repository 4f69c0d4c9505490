---------------------------- MODULE TempLineage ----------------------------
(***************************************************************************)
(* derivation/v2/phase1_lineage.py: where the columns of session temps and *)
(* CTEs come from.  A column is traced to a column of a root table, and an  *)
(* UPDATE of a temp leaves a checkpoint, the text of the new value.        *)
(*                                                                         *)
(* A reference to a column of another table, Entity::Column in the code,   *)
(* is the qualified column.                                                *)
(***************************************************************************)
EXTENDS SqlScan

IsTemp(table) == table \in DOMAIN Temps
BareTable(table) == IF IsTemp(table) THEN Temps[table] ELSE table

NoRef == [entity |-> "", column |-> "", source |-> "", derived |-> <<>>]
Ref(entity, column, source) == [entity |-> entity, column |-> column, source |-> source, derived |-> <<>>]

(* order: the columns as they were registered; roots: the table a temp or  *)
(* CTE is read from; schema: its column names.                             *)
NoLineage == [order |-> <<>>, refs |-> <<>>, roots |-> <<>>, schema |-> <<>>]

RefAt(lin, key) == IF Contains(lin.order, key) THEN lin.refs[key] ELSE NoRef
WithRef(lin, key, ref) ==
    [lin EXCEPT !.order = IF Contains(@, key) THEN @ ELSE Append(@, key), !.refs = (key :> ref) @@ @]

(* resolve_column, which remembers the answer for a temp.                   *)
ResolveColumn(lin, table, column) ==
    IF RefAt(lin, <<table, column>>) # NoRef THEN RefAt(lin, <<table, column>>)
    ELSE Ref(IF table \in DOMAIN lin.roots THEN lin.roots[table] ELSE BareTable(table), column, table)
Remember(lin, table, column) ==
    IF table \in DOMAIN lin.roots THEN WithRef(lin, <<table, column>>, ResolveColumn(lin, table, column)) ELSE lin

(* The tables of a statement by alias and by name; the last one counts.    *)
LastTable(hits, qual) == CASE hits # <<>> -> Last(hits).table
                           [] hits = <<>> /\ IsTemp(qual) -> qual
                           [] OTHER -> ""
TableOf(tables, qual) == LastTable(SelectSeq(tables, LAMBDA t : qual \in {t.alias, t.table}), qual)

TablesIn(from) == IF from = <<>> THEN <<>> ELSE FromTables(<<"FROM">> \o from)
Permanent(tables) == SelectSeq(tables, LAMBDA t : ~IsTemp(t.table))

-----------------------------------------------------------------------------
(* SELECT ... INTO, INSERT ... SELECT and WITH: one reference per column of *)
(* the SELECT list that is just a column.                                  *)

SourceTable(target, item, tables) ==
    LET others == SelectSeq(tables, LAMBDA t : t.table # target)
        pool == IF others = <<>> THEN tables ELSE others
    IN  IF item.qual # "" THEN IF TableOf(tables, item.qual) = "" THEN item.qual ELSE TableOf(tables, item.qual)
        ELSE (Permanent(pool) \o pool)[1].table

Register(lin, target, name, item, tables) ==
    IF ~IsColumnItem(item) \/ (item.qual = "" /\ tables = <<>>) THEN lin
    ELSE LET source == SourceTable(target, item, tables)
             found == ResolveColumn(lin, source, item.column)
         IN  WithRef(Remember(lin, source, item.column), <<target, name>>, Ref(found.entity, found.column, source))

Ingest(lin, target, list, from, columns) ==
    LET tables == TablesIn(from)
        items == SelectList(list)
        named == columns # <<>> /\ Len(columns) = Len(items)
        names == IF named THEN columns ELSE [i \in DOMAIN items |-> NameOf(items[i])]
        root == IF Permanent(tables) # <<>> THEN Permanent(tables)[1].table ELSE BareTable(tables[1].table)
        rooted == IF tables = <<>> THEN lin ELSE [lin EXCEPT !.roots = (target :> root) @@ @]
        given == SelectSeq(names, LAMBDA n : n # NoName)
        known == IF target \in DOMAIN lin.schema \/ given = <<>> THEN rooted
                 ELSE [rooted EXCEPT !.schema = @ @@ (target :> given)]
    IN  FoldLeft(LAMBDA acc, i : Register(acc, target, names[i], items[i], tables),
                 known, [i \in DOMAIN items |-> i])

(* CREATE TABLE says which columns a temp has.                             *)
CreatesIn(s) ==
    Each(Positions(s, LAMBDA i : /\ At(s, i, <<"CREATE", "TABLE">>) /\ Filled(s, i + 3, "(")
                                 /\ s[i + 2] \in DOMAIN Temps),
         LAMBDA i : LET parts == SplitTop(Slice(s, i + 4, NextOf(s, i, ")")), ",")
                    IN  [target |-> s[i + 2], columns |-> [k \in DOMAIN parts |-> parts[k][1]]])

IngestCreate(lin, created) ==
    [lin EXCEPT !.roots = @ @@ (created.target :> created.target),
                !.schema = @ @@ (created.target :> created.columns)]

IngestSelectInto(lin, st) == Ingest(lin, st.target, st.list, st.from, <<>>)
IngestInsert(lin, st) == IF IsTemp(st.target) THEN Ingest(lin, st.target, st.list, st.from, st.columns) ELSE lin
IngestCte(lin, cte) == Ingest(lin, cte.name, cte.list, cte.from, cte.columns)

-----------------------------------------------------------------------------
(* UPDATE of a temp: its column is what the text says from now on.         *)

QualifiersIn(text) == Positions(text, LAMBDA i : i < Len(text) - 1 /\ text[i + 1] = ".")

(* Every qualified column, as what Marker makes of the table and column.   *)
Rewritten(text, tables, Marker(_, _)) ==
    LET at == Range(QualifiersIn(text))
        Known(i) == i \in at /\ TableOf(tables, text[i]) # ""
    IN  FlattenSeq([i \in DOMAIN text |->
            CASE Known(i) -> Marker(TableOf(tables, text[i]), text[i + 2])
              [] i > 1 /\ Known(i - 1) -> <<>>
              [] i > 2 /\ Known(i - 2) -> <<>>
              [] OTHER -> <<text[i]>>])

RememberAll(lin, text, tables) ==
    FoldLeft(LAMBDA acc, i : IF TableOf(tables, text[i]) = "" THEN acc
                             ELSE Remember(acc, TableOf(tables, text[i]), text[i + 2]),
             lin, QualifiersIn(text))

Parenthesized(text) == <<"(">> \o text \o <<")">>
Qualify(ref) == <<ref.entity, ".", ref.column>>

Traced(lin, text, tables) ==
    Rewritten(text, tables, LAMBDA table, column :
        LET ref == ResolveColumn(lin, table, column)
        IN  IF ref.derived # <<>> THEN Parenthesized(ref.derived) ELSE Qualify(ref))

UpdatedTemp(st) ==
    LET named == SelectSeq(TablesIn(st.from), LAMBDA t : t.alias = st.head[1] /\ t.alias # t.table)
    IN  CASE IsTemp(st.head[1]) -> st.head[1]
          [] ~IsTemp(st.head[1]) /\ Len(st.head) = 1 /\ named # <<>> /\ IsTemp(named[1].table) -> named[1].table
          [] OTHER -> ""

HeadTable(st) ==
    IF IsTemp(st.head[1]) THEN <<[table |-> st.head[1], alias |-> Last(st.head), type |-> "UPDATE", on |-> <<>>]>> ELSE <<>>

(* Mutant: the value of the rows that the WHERE leaves out is forgotten.   *)
MutCheckpoint(value, where, prior) == value

(* Without a WHERE the value, with one the value where it holds.            *)
Checkpoint(value, where, prior) ==
    IF where = <<>> THEN value
    ELSE <<"CASE", "WHEN">> \o where \o <<"THEN">> \o value \o <<"ELSE">> \o prior \o <<"END">>

Before(prior) == CASE prior = NoRef -> <<"NULL">>
                   [] prior.derived # <<>> -> prior.derived
                   [] OTHER -> Qualify(prior)
Stands(lin, temp, column, prior) ==
    IF prior = NoRef THEN Ref(IF temp \in DOMAIN lin.roots THEN lin.roots[temp] ELSE temp, column, temp) ELSE prior

CaptureIn(lin, st, a, tables, temp, prior) ==
    IF a.alias # "" /\ TableOf(tables, a.alias) \notin {"", temp} THEN lin
    ELSE WithRef(RememberAll(lin, a.value \o st.where, tables), <<temp, a.column>>,
             [Stands(lin, temp, a.column, prior) EXCEPT !.derived =
                 Checkpoint(Traced(lin, a.value, tables), Traced(lin, st.where, tables), Before(prior))])

CaptureAssignment(lin, st, a, tables, temp) ==
    CaptureIn(lin, st, a, tables, temp, RefAt(lin, <<temp, a.column>>))

Capture(lin, st) ==
    IF st.head = <<>> \/ UpdatedTemp(st) = "" THEN lin
    ELSE FoldLeft(LAMBDA acc, a : CaptureAssignment(acc, st, a, HeadTable(st) \o TablesIn(st.from), UpdatedTemp(st)),
                  lin, AssignmentsIn(st.set))

-----------------------------------------------------------------------------
(* A temp filled from a temp: the reference of the one it was filled from,  *)
(* which is looked for under the name the column has at the root.          *)

Upstreamed(lin, key) ==
    LET ref == lin.refs[key]
        up == RefAt(lin, <<ref.source, ref.column>>)
        root == IF ref.source \in DOMAIN lin.roots THEN lin.roots[ref.source] ELSE ref.entity
    IN  CASE ~IsTemp(ref.source) -> ref
          [] IsTemp(ref.source) /\ up = NoRef -> [ref EXCEPT !.entity = root]
          [] OTHER -> [ref EXCEPT !.entity = up.entity, !.column = up.column,
                                  !.derived = IF @ = <<>> THEN up.derived ELSE @]

MaxPasses == 8

ExpandOnce(lin) == FoldLeft(LAMBDA acc, key : WithRef(acc, key, Upstreamed(acc, key)), lin, lin.order)

RECURSIVE ExpandFor(_, _)
ExpandFor(lin, n) ==
    IF n = 0 \/ \A key \in Range(lin.order) : Upstreamed(lin, key) = lin.refs[key] THEN lin
    ELSE ExpandFor(ExpandOnce(lin), n - 1)

Expand(lin) == ExpandFor(lin, MaxPasses)
=============================================================================
