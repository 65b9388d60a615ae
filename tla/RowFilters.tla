------------------------------ MODULE RowFilters ------------------------------
(***************************************************************************)
(* services/filters.py: the structured row filter of a table, rendered for *)
(* SQL (a WHERE clause with placeholders and one flat list of parameters)  *)
(* and for MongoDB (a query document), and the rows either one selects.    *)
(*                                                                         *)
(* A condition is [column, op, list, value]: value is the sequence of the  *)
(* values given, of which there is one unless list is TRUE. Values are     *)
(* naturals, 0 is NULL or a missing field. A LIKE pattern stands for the   *)
(* values it matches.                                                      *)
(***************************************************************************)
EXTENDS Naturals, Sequences, SequencesExt

CONSTANT Text  \* the values that are strings, the only ones LIKE accepts for MongoDB

SqlCmp == {"eq", "ne", "gt", "gte", "lt", "lte", "like"}
SqlList == {"in", "nin"}

(* Conditions as they are represented here: any number of values for a     *)
(* list operator, and one, whatever it is, for any other.                  *)
WellFormed(conditions) ==
  /\ Len(conditions) \in Nat /\ DOMAIN conditions = 1..Len(conditions)
  /\ \A i \in DOMAIN conditions :
       /\ conditions[i].value \in Seq(Nat)
       /\ conditions[i].op \notin SqlList => Len(conditions[i].value) = 1

NullValue == 0

(* The value of a field, NULL when the document has none of that name.     *)
Field(row, name) == IF name \in DOMAIN row THEN row[name] ELSE NullValue

Like(x, pattern) == x \in Text /\ x % 2 = pattern % 2

Compare(op, x, y) ==
  CASE op = "eq" -> x = y
    [] op = "ne" -> x # y
    [] op = "gt" -> x > y
    [] op = "gte" -> x >= y
    [] op = "lt" -> x < y
    [] op = "lte" -> x <= y
    [] op = "like" -> Like(x, y)

(***************************************************************************)
(* SQL. Databases compare with three truth values: a clause is true only   *)
(* if no NULL takes part, and IN may be true although the list has one.    *)
(***************************************************************************)
SqlHolds(op, x, args) ==
  /\ x # NullValue
  /\ CASE op = "in" -> x \in ToSet(args)
       [] op = "nin" -> NullValue \notin ToSet(args) /\ x \notin ToSet(args)
       [] OTHER -> args[1] # NullValue /\ Compare(op, x, args[1])

Holes(condition) == IF condition.op \in SqlList THEN Len(condition.value) ELSE 1

(* A scalar given to IN counts as a list of one; an empty list is refused. *)
SqlRaises(conditions) ==
  \E i \in DOMAIN conditions : conditions[i].op \in SqlList /\ conditions[i].value = <<>>

(* Mutant of RenderSql: the parameters are collected back to front.        *)
RenderSqlBackwards(conditions, placeholder) ==
  [placeholder |-> placeholder,
   clauses |-> [i \in DOMAIN conditions |->
                 [column |-> conditions[i].column, op |-> conditions[i].op, holes |-> Holes(conditions[i])]],
   params |-> FlattenSeq(Reverse([i \in DOMAIN conditions |-> conditions[i].value]))]

RenderSql(conditions, placeholder) ==
  [placeholder |-> placeholder,
   clauses |-> [i \in DOMAIN conditions |->
                 [column |-> conditions[i].column, op |-> conditions[i].op, holes |-> Holes(conditions[i])]],
   params |-> FlattenSeq([i \in DOMAIN conditions |-> conditions[i].value])]

(* psycopg2 and pymysql want %s, sqlite3 and the engine want ?             *)
NativePlaceholder(engine) == IF engine \in {"postgres", "mysql"} THEN "%s" ELSE "?"

(* Mutant of RenderNativeSql: only the first condition is rendered.        *)
RenderNativeFirst(conditions, engine) ==
  RenderSql(IF conditions = <<>> THEN <<>> ELSE <<conditions[1]>>, NativePlaceholder(engine))

RenderNativeSql(conditions, engine) == RenderSql(conditions, NativePlaceholder(engine))
RenderEngineSql(conditions) == RenderSql(conditions, "?")

(* What a database makes of it: parameters fill the holes from the left.   *)
SqlSelects(query, row) ==
  LET before[i \in 1..(Len(query.clauses) + 1)] ==
        IF i = 1 THEN 0 ELSE before[i - 1] + query.clauses[i - 1].holes
  IN  \A i \in DOMAIN query.clauses :
        SqlHolds(query.clauses[i].op, Field(row, query.clauses[i].column),
                 SubSeq(query.params, before[i] + 1, before[i + 1]))

SqlRefuses(query, placeholder) == query.clauses # <<>> /\ query.placeholder # placeholder

(***************************************************************************)
(* MongoDB. The query document has one entry per column, and in it one     *)
(* entry per operator: a second condition with the same column and         *)
(* operator takes the place of the first.                                  *)
(***************************************************************************)
MongoRaises(conditions) ==
  \E i \in DOMAIN conditions : conditions[i].op = "like" /\ conditions[i].value[1] \notin Text

RenderMongo(conditions) ==
  {conditions[i] : i \in {j \in DOMAIN conditions :
     \A k \in DOMAIN conditions : k > j => <<conditions[k].column, conditions[k].op>>
                                             # <<conditions[j].column, conditions[j].op>>}}

(* Equality and lists count a missing field as null; an order compares     *)
(* values of one type. A list operator refuses anything but a list.        *)
MongoHolds(condition, x) ==
  LET args == condition.value
  IN  CASE condition.op = "in" -> x \in ToSet(args)
        [] condition.op = "nin" -> x \notin ToSet(args)
        [] condition.op \in {"eq", "ne"} -> Compare(condition.op, x, args[1])
        [] condition.op \in {"gte", "lte"} /\ args[1] = NullValue -> x = NullValue
        [] OTHER -> x # NullValue /\ args[1] # NullValue /\ Compare(condition.op, x, args[1])

MongoRefuses(query) == \E c \in query : c.op \in SqlList /\ ~c.list
MongoSelects(query, row) == \A c \in query : MongoHolds(c, Field(row, c.column))
===============================================================================
