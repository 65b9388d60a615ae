------------------------------- MODULE TableCopy -------------------------------
(***************************************************************************)
(* What one table of a migration goes through before and in its engine     *)
(* run: accepted by the API, fields resolved, target table checked and     *)
(* perhaps created, rows counted, configuration rendered, rows copied.     *)
(* MigrationWorker has the same steps with their outcomes only; here is    *)
(* what they compute (worker/tasks.py, services/schema_discovery.py,       *)
(* services/yaml_generator.py, services/ddl_generator.py).                 *)
(*                                                                         *)
(* Both databases are the users': the owner may alter the source between   *)
(* two steps, and the target may be there, or be created by somebody else. *)
(***************************************************************************)
EXTENDS ColumnValues, RowFilters, FiniteSets

CONSTANTS Jobs,        \* a source, [engine, schema, table, columns, rows, nulls], and what is asked for,
                       \* [engine, schema, table, selected, mapping, filters, create, conflict]
          SampleSize,  \* MONGO_SAMPLE_SIZE
          Folded,      \* names in mixed case: unquoted, Postgres reads them in lower case
          Reserved,    \* words of the SQL grammar: unquoted they are no names
          Altered,     \* a value that MySQL or SQLite put in the place of one they do not take
          MaxAlters    \* bound on the changes made by others

Names(columns) == {c.name : c \in ToSet(columns)}
KeyNames(columns) == {c.name : c \in {k \in ToSet(columns) : k.pk}}

(* A table: the names of its columns are distinct, its rows have all of    *)
(* them, and two rows differ in the key, unless the key may be NULL. Where *)
(* a document has no value, it may have the field all the same, as a null. *)
IsTable(t) ==
  /\ DOMAIN t = {"engine", "schema", "table", "columns", "rows", "nulls"}
  /\ t.columns \in Seq(ToSet(t.columns))
  /\ \A c, d \in ToSet(t.columns) : c.name = d.name => c = d
  /\ t.rows \in Seq([Names(t.columns) -> Nat])
  /\ \A i, j \in DOMAIN t.rows : i # j /\ KeyNames(t.columns) # {} =>
       \E n \in KeyNames(t.columns) : t.rows[i][n] # t.rows[j][n] \/ t.rows[i][n] = NullValue
  /\ t.engine = "mongodb" => \A i \in DOMAIN t.rows, n \in KeyNames(t.columns) : t.rows[i][n] # NullValue

(* What is asked for: a sequence of columns, conditions, and one of the    *)
(* two ways to deal with conflicts.                                        *)
IsAsked(s) ==
  /\ s.selected \in Seq(ToSet(s.selected))
  /\ WellFormed(s.filters)
  /\ s.conflict \in {"error", "skip"}

(* What a database makes sure of: a column that is not nullable has values.*)
(* A document has an _id, which is its key, and no field is required.      *)
IsTyped(t) ==
  /\ t.engine \in Engines /\ t.columns # <<>>
  /\ \A c \in ToSet(t.columns) :
       /\ c.type \in NativeTypes(t.engine) /\ c.nullable \in BOOLEAN /\ c.pk \in BOOLEAN
       /\ ~c.nullable => \A i \in DOMAIN t.rows : t.rows[i][c.name] # NullValue
       /\ t.engine = "mongodb" => c.nullable /\ (c.pk <=> c.name = "_id")
  /\ t.engine = "mongodb" => "_id" \in Names(t.columns)

ASSUME CopyAssumption == SampleSize \in Nat \ {0} /\ MaxAlters \in Nat /\ Altered \in Nat
ASSUME JobsAssumption == \A job \in Jobs : IsTable(job.source) /\ IsAsked(job.spec)
ASSUME TypesAssumption == \A job \in Jobs : IsTyped(job.source) /\ job.spec.engine \in Engines

VARIABLES source,   \* the source table as it is now; no columns means it is gone
          spec,     \* the row of migration_tables, and the options
          target,   \* the target table: exists, columns, and the rows held before
          pc,       \* the next step
          pairs,    \* field_pairs of _run_table
          found,    \* the source columns read for the DDL
          counted,  \* rows_total: a singleton, or empty when counting failed
          written,  \* the rows the engine stored, with their positions in the source
          result,   \* how it ended
          made,     \* this task created the target table
          alters,   \* changes made by others
          edited    \* the tables came by an edit of the draft

vars == <<source, spec, target, pc, pairs, found, counted, written, result, made, alters, edited>>

Mapped(name) == IF name \in DOMAIN spec.mapping THEN spec.mapping[name] ELSE name
Pair(name) == [source |-> name, target |-> Mapped(name)]
TargetIsSql == spec.engine # "mongodb"
WholeDocument == ~TargetIsSql /\ spec.selected = <<>>

(* Mutant of End: the status is set and the function goes on.              *)
EndGoesOn(how) == pc' = "count" /\ result' = how

End(how) == pc' = "ended" /\ result' = how

(***************************************************************************)
(* schema_discovery. Columns of an SQL table come from the catalogue, all  *)
(* of them; those of a collection from its first documents, in an order    *)
(* that does not matter, each with the type of its first value. An         *)
(* explicit null is a value too, of a type that no map knows.              *)
(***************************************************************************)
Sample(rows) == 1..(IF Len(rows) < SampleSize THEN Len(rows) ELSE SampleSize)

Holders(c, rows, nulls) == {i \in Sample(rows) : rows[i][c.name] # NullValue \/ <<i, c.name>> \in nulls}

SeenAs(c, rows, nulls) ==
  LET first == CHOOSE i \in Holders(c, rows, nulls) : \A j \in Holders(c, rows, nulls) : i <= j
  IN  IF rows[first][c.name] # NullValue THEN c
      ELSE [name |-> c.name, type |-> "NoneType", nullable |-> TRUE, pk |-> c.pk]

SampledFields(columns, rows, nulls) ==
  SetToSeq(IF Sample(rows) = {} THEN {c \in ToSet(columns) : c.name = "_id"}
           ELSE {SeenAs(c, rows, nulls) : c \in {d \in ToSet(columns) : Holders(d, rows, nulls) # {}}})

ListColumns ==
  IF source.engine = "mongodb" THEN SampledFields(source.columns, source.rows, source.nulls) ELSE source.columns

ListColumnsRaises ==
  \/ source.engine = "sqlite" /\ ~StrictIdent(source.table)
  \/ source.engine # "mongodb" /\ source.columns = <<>>

Selects(conditions, row) ==
  IF source.engine = "mongodb" THEN MongoSelects(RenderMongo(conditions), row)
                               ELSE SqlSelects(RenderEngineSql(conditions), row)
Counts(conditions, row) ==
  IF source.engine = "mongodb" THEN MongoSelects(RenderMongo(conditions), row)
                               ELSE SqlSelects(RenderNativeSql(conditions, source.engine), row)

FilterRaises(conditions) ==
  IF source.engine = "mongodb" THEN MongoRaises(conditions) ELSE SqlRaises(conditions)

(* The database itself refuses the filter: a field that is gone, a list    *)
(* operator without a list, a placeholder that is not the driver's.        *)
FilterRefused(conditions, rendered, placeholder) ==
  IF source.engine = "mongodb" THEN MongoRefuses(RenderMongo(conditions))
  ELSE \/ SqlRefuses(rendered, placeholder)
       \/ \E i \in DOMAIN conditions : conditions[i].column \notin Names(source.columns)

(* Discovery looks for a table in the schema that the connection names;    *)
(* count, DDL and engine say no schema and get the default one.            *)
Reached(engine, schema) == engine = "postgres" => schema = "public"
SourceUnread == ~Reached(source.engine, source.schema) \/ source.columns = <<>>

CountRaises ==
  \/ FilterRaises(spec.filters)
  \/ source.engine # "mongodb" /\ (~StrictIdent(source.table) \/ SourceUnread)
  \/ FilterRefused(spec.filters, RenderNativeSql(spec.filters, source.engine), NativePlaceholder(source.engine))

CountRows == Cardinality({i \in DOMAIN source.rows : Counts(spec.filters, source.rows[i])})

(* A collection without a filter is not counted but estimated.             *)
Estimated == source.engine = "mongodb" /\ spec.filters = <<>>
Answers == IF Estimated THEN 0..(Len(source.rows) + 1) ELSE {CountRows}

(***************************************************************************)
(* The API. create_migration refuses to infer the fields of a collection   *)
(* for an SQL target; update_migration replaces the tables unseen. The     *)
(* schemas admit safe identifiers only.                                    *)
(***************************************************************************)
SchemaAccepts(s) ==
  \A name \in {s.table, source.table} \cup ToSet(s.selected) \cup DOMAIN s.mapping
                \cup {s.mapping[n] : n \in DOMAIN s.mapping} \cup {s.filters[i].column : i \in DOMAIN s.filters} :
     SafeIdent(name)

(* Mutant of CreateAccepts: the check for collections is dropped.          *)
CreateAcceptsAll(s) == TRUE

CreateAccepts(s) == ~(source.engine = "mongodb" /\ s.engine # "mongodb" /\ s.selected = <<>>)

Accept ==
  /\ pc = "submitted" /\ SchemaAccepts(spec)
  /\ \/ CreateAccepts(spec) /\ UNCHANGED edited
     \/ edited' = TRUE
  /\ pc' = "resolve"
  /\ UNCHANGED <<source, spec, target, pairs, found, counted, written, result, made, alters>>

Refuse ==
  /\ pc = "submitted" /\ ~(SchemaAccepts(spec) /\ CreateAccepts(spec))
  /\ End("refused")
  /\ UNCHANGED <<source, spec, target, pairs, found, counted, written, made, alters, edited>>

(***************************************************************************)
(* _run_table up to the engine.                                            *)
(***************************************************************************)
ResolveFieldPairs ==
  /\ pc = "resolve"
  /\ IF spec.selected = <<>> /\ TargetIsSql /\ ListColumnsRaises
     THEN End("raised") /\ UNCHANGED pairs
     ELSE /\ pairs' = CASE spec.selected # <<>> -> [i \in DOMAIN spec.selected |-> Pair(spec.selected[i])]
                        [] spec.selected = <<>> /\ TargetIsSql -> [i \in DOMAIN ListColumns |-> Pair(ListColumns[i].name)]
                        [] OTHER -> <<>>
          /\ pc' = "preflight"
          /\ UNCHANGED result
  /\ UNCHANGED <<source, spec, target, found, counted, written, made, alters, edited>>

TableExistsRaises == ~StrictIdent(spec.table)

(* In another schema there may or may not be a table of the same name.     *)
TableExists == IF Reached(spec.engine, spec.schema) THEN {target.exists} ELSE BOOLEAN

Preflight ==
  /\ pc = "preflight"
  /\ CASE ~TargetIsSql -> pc' = "count" /\ UNCHANGED result
       [] TargetIsSql /\ TableExistsRaises -> End("raised")
       [] OTHER -> \/ TRUE \in TableExists /\ pc' = "count" /\ UNCHANGED result
                   \/ FALSE \in TableExists /\ IF spec.create /\ pairs # <<>>
                                                THEN pc' = "discover" /\ UNCHANGED result
                                                ELSE End("target_missing")
  /\ UNCHANGED <<source, spec, target, pairs, found, counted, written, made, alters, edited>>

Discover ==
  /\ pc = "discover"
  /\ IF ListColumnsRaises THEN End("raised") /\ UNCHANGED found
                          ELSE found' = ListColumns /\ pc' = "create" /\ UNCHANGED result
  /\ UNCHANGED <<source, spec, target, pairs, counted, written, made, alters, edited>>

(* CREATE TABLE IF NOT EXISTS: a table that somebody created since the     *)
(* check stays as it is.                                                   *)
ExecuteDdl(columns) ==
  IF target.exists THEN UNCHANGED <<target, made>>
                   ELSE target' = [exists |-> TRUE, columns |-> columns, held |-> {}] /\ made' = TRUE

CreateTable ==
  /\ pc = "create"
  /\ LET defs == PlanTargetColumns(pairs, found, source.engine)
         columns == CreateTableSql(spec.engine, defs)
     IN  IF DdlRaises(spec.table, defs) \/ \E c \in columns : c.pk /\ NoKeyOn(spec.engine, c.type)
         THEN End("raised") /\ UNCHANGED <<target, made>>
         ELSE ExecuteDdl(columns) /\ pc' = "count" /\ UNCHANGED result
  /\ UNCHANGED <<source, spec, pairs, found, counted, written, alters, edited>>

(* Counting is best effort.                                                *)
Count ==
  /\ pc = "count"
  /\ IF CountRaises THEN counted' = {} ELSE \E n \in Answers : counted' = {n}
  /\ pc' = "engine"
  /\ UNCHANGED <<source, spec, target, pairs, found, written, result, made, alters, edited>>

(***************************************************************************)
(* The configuration and the engine.                                       *)
(***************************************************************************)
RenderRaises ==
  \/ FilterRaises(spec.filters)
  \/ source.engine # "mongodb" /\ \E p \in ToSet(pairs) : ~SafeIdent(p.source)
  \/ TargetIsSql /\ \E p \in ToSet(pairs) : ~SafeIdent(p.target)

(* The engine's own statements do not quote names, as all others do.       *)
Bare(engine, name) == name \notin Reserved /\ (engine = "postgres" => name \notin Folded)

(* The SELECT of the engine's input, and the positions of what it yields.  *)
InputRefused ==
  \/ FilterRefused(spec.filters, RenderEngineSql(spec.filters), "?")
  \/ source.engine # "mongodb"
       /\ \/ SourceUnread \/ ~Bare(source.engine, source.table)
          \/ \E p \in ToSet(pairs) : p.source \notin Names(source.columns) \/ ~Bare(source.engine, p.source)

SelectedRows == {i \in DOMAIN source.rows : Selects(spec.filters, source.rows[i])}

(* The document or row stored for a source row; of two pairs with the same *)
(* target, a document keeps the last.                                      *)
Stored(row) ==
  IF WholeDocument THEN row
  ELSE [name \in {p.target : p \in ToSet(pairs)} |->
         Field(row, pairs[SelectLastInSeq(pairs, LAMBDA p : p.target = name)].source)]

Colliding == \E i, j \in DOMAIN pairs : i # j /\ pairs[i].target = pairs[j].target

(* The key of a collection is the _id, and a document that brings none is  *)
(* given one. In a table of somebody else a key may be generated too.      *)
Keys == IF TargetIsSql THEN {c.name : c \in {k \in target.columns : k.pk}} ELSE {"_id"}
SameKey(row1, row2) ==
  /\ Keys # {} /\ Keys \subseteq DOMAIN row1 /\ Keys \subseteq DOMAIN row2
  /\ \A n \in Keys : row1[n] = row2[n] /\ (TargetIsSql => row1[n] # NullValue)

(* The value classes a pair carries: _id is coerced to a scalar, and what  *)
(* is nested in a document becomes JSON text.                              *)
Carried(pair) ==
  LET known == {c \in ToSet(source.columns) : c.name = pair.source}
  IN  IF source.engine = "mongodb" /\ pair.source = "_id" THEN {"short"}
      ELSE UNION {ValuesOf(source.engine, c.type) : c \in known}

(* A value that a column does not take is refused or damaged; the model    *)
(* does not tell these apart.                                              *)
Suits(c, row) ==
  /\ ~c.nullable => Field(row, c.name) # NullValue
  /\ \A p \in ToSet(pairs) : p.target = c.name => Carried(p) \subseteq Takes(spec.engine, c.type)
Unfit(row) == TargetIsSql /\ \E c \in target.columns : ~Suits(c, row)
Adjusted(row) ==
  IF ~Unfit(row) THEN row
  ELSE [n \in DOMAIN row |-> IF \E c \in target.columns : c.name = n /\ ~Suits(c, row) THEN Altered ELSE row[n]]

(* on_conflict: ON CONFLICT DO NOTHING leaves out the rows whose key is    *)
(* there. IGNORE and OR IGNORE also pass over what would be an error: the  *)
(* row is left out, or altered until the table takes it. A collection      *)
(* knows no such option.                                                   *)
Skips == TargetIsSql /\ spec.conflict = "skip"
Ignores == Skips /\ spec.engine # "postgres"

(* What is sent for a row of the source, and with what it competes.        *)
Sent(i) == Stored(source.rows[i])
AtOdds(i, j) == i # j /\ SameKey(Sent(i), Sent(j))
HeldAlready(i) == \E row \in target.held : SameKey(Sent(i), row)

InsertRefused ==
  \/ /\ TargetIsSql
     /\ \/ ~target.exists \/ pairs = <<>> \/ Colliding \/ ~Bare(spec.engine, spec.table)
        \/ \E p \in ToSet(pairs) : p.target \notin {c.name : c \in target.columns} \/ ~Bare(spec.engine, p.target)
  \/ ~Ignores /\ \E i \in SelectedRows : Unfit(Sent(i))
  \/ ~Skips /\ \E i \in SelectedRows : HeldAlready(i) \/ \E j \in SelectedRows : AtOdds(i, j)

(* Why the insert may leave out a row when it stores these: it does not    *)
(* fit, its key is there, or one that was altered has taken it.            *)
LeftOut(i, stored) ==
  \/ Ignores /\ Unfit(Sent(i))
  \/ Skips /\ (HeldAlready(i) \/ \E j \in stored : AtOdds(i, j) \/ (Ignores /\ Unfit(Sent(j))))

Inserted(stored) ==
  /\ \A i \in SelectedRows \ stored : LeftOut(i, stored)
  /\ \A i \in stored : Unfit(Sent(i)) \/ ~(HeldAlready(i) \/ \E j \in stored : ~Unfit(Sent(j)) /\ AtOdds(i, j))

RunEngine ==
  /\ pc = "engine"
  /\ CASE RenderRaises -> End("raised") /\ UNCHANGED written
       [] ~RenderRaises /\ (InputRefused \/ InsertRefused) -> End("engine_failed") /\ UNCHANGED written
       [] OTHER -> /\ \E stored \in SUBSET SelectedRows :
                        Inserted(stored) /\ written' = {<<i, Adjusted(Sent(i))>> : i \in stored}
                   /\ End("ok")
  /\ UNCHANGED <<source, spec, target, pairs, found, counted, made, alters, edited>>

(***************************************************************************)
(* The owners of the two databases.                                        *)
(***************************************************************************)
Altering == pc # "ended" /\ alters < MaxAlters /\ alters' = alters + 1

(* A column that is not in the key is dropped, or the whole table.         *)
DropSource ==
  /\ Altering /\ source.engine # "mongodb" /\ source.columns # <<>>
  /\ \E rest \in {<<>>, Front(source.columns)} :
       /\ rest = <<>> \/ ~Last(source.columns).pk
       /\ source' = [source EXCEPT !.columns = rest]
  /\ UNCHANGED <<spec, target, pc, pairs, found, counted, written, result, made, edited>>

(* Somebody else's table: with a column for whatever the job may send, and *)
(* perhaps a key and a row; or with the columns of the source only, narrow *)
(* and all of them required. A collection may hold documents already.      *)
ForeignNames(columns, s) == Names(columns) \cup ToSet(s.selected) \cup {s.mapping[n] : n \in DOMAIN s.mapping}
Roomy(names, key) == {[name |-> n, type |-> "any", nullable |-> TRUE, pk |-> n \in key] : n \in names}
Narrow(names) == {[name |-> n, type |-> "smallint", nullable |-> FALSE, pk |-> FALSE] : n \in names}

ForeignTables(columns, s) ==
  LET names == ForeignNames(columns, s)
  IN  IF s.engine = "mongodb"
      THEN {[exists |-> TRUE, columns |-> {}, held |-> rows] : rows \in {{}, {[n \in {"_id"} |-> 1]}}}
      ELSE {[exists |-> TRUE, columns |-> Roomy(names, {}), held |-> {}],
            [exists |-> TRUE, columns |-> Narrow(Names(columns)), held |-> {}]}
           \cup {[exists |-> TRUE, columns |-> Roomy(names, {n}), held |-> rows] :
                    n \in names, rows \in {{}, {[m \in names |-> 1]}}}

NoTable == [exists |-> FALSE, columns |-> {}, held |-> {}]

CreateElsewhere ==
  /\ Altering /\ ~target.exists
  /\ target' \in ForeignTables(source.columns, spec)
  /\ UNCHANGED <<source, spec, pc, pairs, found, counted, written, result, made, edited>>

Init ==
  /\ \E job \in Jobs :
       /\ source = job.source /\ spec = job.spec
       /\ target \in {NoTable} \cup ForeignTables(job.source.columns, job.spec)
  /\ pc = "submitted" /\ result = "none"
  /\ pairs = <<>> /\ found = <<>> /\ counted = {} /\ written = {}
  /\ made = FALSE /\ alters = 0 /\ edited = FALSE

Next ==
  \/ Accept \/ Refuse \/ ResolveFieldPairs \/ Preflight \/ Discover \/ CreateTable \/ Count \/ RunEngine
  \/ DropSource \/ CreateElsewhere

Spec == Init /\ [][Next]_vars

(***************************************************************************)
(* Properties.                                                             *)
(***************************************************************************)
Steps == {"submitted", "resolve", "preflight", "discover", "create", "count", "engine", "ended"}
Results == {"none", "refused", "raised", "target_missing", "engine_failed", "ok"}

(* Every variable has its type, and a result is given exactly at the end.  *)
TypeOK ==
  /\ pc \in Steps /\ result \in Results /\ (pc = "ended" <=> result # "none")
  /\ target.exists \in BOOLEAN /\ made \in BOOLEAN /\ edited \in BOOLEAN
  /\ alters \in 0..MaxAlters /\ counted \subseteq Nat
  /\ \A w \in written : w[1] \in DOMAIN source.rows

(* What the user asked for: "List of row filters AND-combined"             *)
(* (schemas/migration.py:20), with the meaning the source database gives   *)
(* to each condition.                                                      *)
Wanted(row) ==
  \A i \in DOMAIN spec.filters :
     LET f == spec.filters[i]
     IN  IF source.engine = "mongodb" THEN MongoHolds(f, Field(row, f.column)) ELSE SqlHolds(f.op, Field(row, f.column), f.value)

(* Known loss: a query document has room for one condition per column and  *)
(* operator.                                                               *)
Overwritten ==
  source.engine = "mongodb" /\
  \E i, j \in DOMAIN spec.filters : i < j /\ spec.filters[i].column = spec.filters[j].column
                                         /\ spec.filters[i].op = spec.filters[j].op

(* Known loss: the new table takes its key from those source key columns   *)
(* that are copied, so that rows may collide.                              *)
KeyCut == KeyNames(source.columns) \ {p.source : p \in ToSet(pairs)} # {}

(* Known losses of "skip": rows of a key that was cut, rows for a table    *)
(* that this task did not create, and, with MySQL and SQLite, any of a     *)
(* copy in which some row does not fit.                                    *)
SkipLoses == Skips /\ (KeyCut \/ ~made \/ (Ignores /\ \E i \in SelectedRows : Unfit(Sent(i))))

(* The rows of a finished copy are those the user asked for: none that a   *)
(* condition excludes, and none is missing but for the known losses.       *)
CopiesTheSelection ==
  result = "ok" /\ ~Overwritten =>
    \A i \in DOMAIN source.rows :
       LET copies == {w \in written : w[1] = i}
       IN  /\ ~Wanted(source.rows[i]) => copies = {}
           /\ Wanted(source.rows[i]) /\ ~SkipLoses => copies # {}

(* rows_total, which the pages show as the goal, is the number of rows the *)
(* engine's own query yields, although the worker counts through another   *)
(* driver with other placeholders. Not so for a collection without a       *)
(* filter, whose size the database only estimates.                         *)
CountIsTheCopy ==
  result = "ok" /\ alters = 0 /\ counted # {} /\ ~Estimated => counted = {Cardinality(SelectedRows)}

(* "All columns" means all of them: without a selection every field of a   *)
(* row arrives, under the name the mapping gives it. Exceptions: a draft   *)
(* that was edited (update_migration does not repeat the check of          *)
(* create_migration, and a sample of the documents decides), whole         *)
(* documents for MongoDB, which keep their names, and rows that IGNORE     *)
(* alters because they do not fit.                                         *)
AllColumnsArrive ==
  result = "ok" /\ spec.selected = <<>> /\ ~edited =>
    \A w \in written, n \in Names(source.columns) :
       LET row == source.rows[w[1]]
           name == IF WholeDocument THEN n ELSE Mapped(n)
       IN  row[n] # NullValue /\ ~(Ignores /\ Unfit(Sent(w[1]))) => name \in DOMAIN w[2] /\ w[2][name] = row[n]

(* Known reasons why an accepted table is not copied. Names of the tables  *)
(* or of copied fields that the API takes and discovery or DDL do not.     *)
UnusualName ==
  \E n \in {source.table, spec.table} \cup {p.source : p \in ToSet(pairs)} \cup {p.target : p \in ToSet(pairs)} :
     ~StrictIdent(n)

(* Names that only quotes keep as they are, in the statements of the       *)
(* engine, and a connection that names a schema, which they do not.        *)
UnquotedName ==
  \/ source.engine # "mongodb"
       /\ \E n \in {source.table} \cup {p.source : p \in ToSet(pairs)} : ~Bare(source.engine, n)
  \/ TargetIsSql /\ \E n \in {spec.table} \cup {p.target : p \in ToSet(pairs)} : ~Bare(spec.engine, n)
OtherSchema == ~Reached(source.engine, source.schema) \/ ~Reached(spec.engine, spec.schema)

(* List operators without a list, and LIKE without a text, which the       *)
(* schemas let through; conditions on a column that is not there.          *)
OddFilter ==
  \E i \in DOMAIN spec.filters :
     LET f == spec.filters[i]
     IN  \/ f.op \in SqlList /\ (~f.list \/ f.value = <<>>)
         \/ f.op = "like" /\ f.value[1] \notin Text
         \/ source.engine # "mongodb" /\ f.column \notin Names(source.columns)

NoSuchField == source.engine # "mongodb" /\ ~({p.source : p \in ToSet(pairs)} \subseteq Names(source.columns))

(* The copied columns, but for the _id of a document, which is coerced to  *)
(* a string.                                                               *)
Copied ==
  {c \in ToSet(source.columns) : /\ \E p \in ToSet(pairs) : p.source = c.name
                                 /\ ~(source.engine = "mongodb" /\ c.name = "_id")}

(* The key of the new table takes no NULL; SQLite's takes some.            *)
NullInKey ==
  \E c \in Copied, i \in DOMAIN source.rows : c.pk /\ source.rows[i][c.name] = NullValue

(* A field that no sampled document has, or that the first to have it has  *)
(* as a null, is planned as a text.                                        *)
Unsampled ==
  \E c \in Copied : source.engine = "mongodb" /\ c \notin ToSet(ListColumns)
                      /\ ~(ValuesOf("mongodb", c.type) \subseteq Textual)

(* The new table is for SQLite without any but wide numbers. The others    *)
(* lose values that the type of the source has and the planned one has not.*)
Lost(c) ==
  LET values == ValuesOf(source.engine, c.type)
      canonical == ToCanonical(source.engine, c.type)
  IN  \/ "wide_numeric" \in values /\ spec.engine # "postgres"
      \/ spec.engine # "sqlite" /\
           \/ values \cap {"u32", "u64", "bits", "timetz"} # {}
           \/ "wrapped" \in values /\ canonical \notin {"varchar", "text"}
           \/ source.engine = "mysql" /\ c.type \in {"smallint", "geometry"}
           \/ source.engine = "sqlite" /\ c.type = "INTEGER"
      \/ spec.engine = "postgres" /\ "long_time" \in values
      \/ spec.engine = "mysql" /\ "timestamptz" \in values
      \/ spec.engine = "mysql" /\ (c.pk \/ canonical = "varchar") /\ values \cap {"long", "long_bytes"} # {}
      \/ spec.engine = "mysql" /\ c.pk /\ canonical = "json"

(* A table of somebody else, unless it has all columns and needs nothing.  *)
OthersTable ==
  TargetIsSql /\ target.exists /\ ~made /\
    \/ \E c \in target.columns : c.pk \/ ~c.nullable
    \/ \E p \in ToSet(pairs) : p.target \notin {c.name : c \in target.columns}

(* A collection with documents, or an _id that is not one of the source.   *)
ForeignId ==
  ~TargetIsSql /\
    \/ target.held # {}
    \/ WholeDocument /\ source.engine # "mongodb" /\ "_id" \in Names(source.columns)
    \/ \E p \in ToSet(pairs) : p.target = "_id" /\ (source.engine # "mongodb" \/ p.source # "_id")

KnownReason ==
  \/ UnusualName \/ UnquotedName \/ OtherSchema \/ OddFilter \/ NoSuchField \/ Colliding \/ NullInKey
  \/ Unsampled \/ KeyCut \/ OthersTable \/ ForeignId
  \/ \E c \in Copied : Lost(c)

(* Apart from these, a table that the API accepts is copied, every         *)
(* selected row of it as it was sent, when nobody changes the databases    *)
(* meanwhile: DDL, filter and configuration fit one another for every pair *)
(* of engines and every type the maps name.                                *)
AcceptedIsCopied ==
  alters = 0 /\ pc = "ended" /\ result # "refused" =>
    \/ KnownReason
    \/ result = "target_missing" /\ ~spec.create
    \/ result = "ok" /\ \A i \in SelectedRows : <<i, Sent(i)>> \in written
================================================================================
