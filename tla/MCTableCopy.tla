----------------------------- MODULE MCTableCopy -----------------------------
(* Jobs for TableCopy: small tables, and what may be asked of them.        *)
EXTENDS TableCopy

Col(n, t, null, pk) == [name |-> n, type |-> t, nullable |-> null, pk |-> pk]
Rows(columns, table) == [i \in DOMAIN table |-> [n \in Names(columns) |->
                           table[i][CHOOSE c \in DOMAIN columns : columns[c].name = n]]]
Source(e, table, columns, rows) ==
  [engine |-> e, schema |-> "public", table |-> table, columns |-> columns, rows |-> Rows(columns, rows), nulls |-> {}]

IntType == [postgres |-> "bigint", mysql |-> "mediumint", sqlite |-> "BIGINT"]
TextType == [postgres |-> "text", mysql |-> "text", sqlite |-> "TEXT"]

(* Values 1 and 2 are numbers, 3 to 5 texts, 0 is NULL.                    *)
Plain(e) == Source(e, "t", <<Col("k", IntType[e], FALSE, TRUE), Col("v", TextType[e], TRUE, FALSE)>>,
                   << <<1, 3>>, <<2, 4>>, <<6, 0>> >>)
Composite(e) == Source(e, "t", <<Col("k", IntType[e], FALSE, TRUE), Col("v", IntType[e], FALSE, TRUE)>>,
                       << <<1, 1>>, <<1, 2>> >>)
Unusual(e) == {Source(e, "s.t", <<Col("k", IntType[e], FALSE, TRUE)>>, << <<1>> >>),
               Source(e, "t", <<Col("k", IntType[e], FALSE, TRUE), Col("a b", TextType[e], TRUE, FALSE)>>,
                      << <<1, 3>>, <<2, 4>> >>)}
Documents == Source("mongodb", "t", <<Col("_id", "ObjectId", TRUE, TRUE), Col("k", "int", TRUE, FALSE),
                                      Col("v", "str", TRUE, FALSE)>>,
                    << <<1, 1, 0>>, <<2, 0, 3>>, <<7, 2, 4>> >>)

None == [n \in {} |-> n]
Ask(e, table, selected, mapping, filters, create, conflict) ==
  [engine |-> e, schema |-> "public", table |-> table, selected |-> selected, mapping |-> mapping, filters |-> filters,
   create |-> create, conflict |-> conflict]

Selections == {<<>>, <<"k">>, <<"k", "v">>, <<"v", "k">>, <<"gone">>}
Mappings == {None, [n \in {"k"} |-> "x"], [n \in {"k"} |-> "v"], [n \in {"v"} |-> "x.y"]}

Shapes ==
  {[source |-> s, spec |-> Ask(e, t, sel, m, <<>>, create, conflict)] :
     s \in UNION {{Plain(x), Composite(x)} \cup Unusual(x) : x \in SqlEngines} \cup {Documents},
     e \in Engines, t \in {"t"}, sel \in Selections, m \in Mappings, create \in BOOLEAN,
     conflict \in {"error", "skip"}}

Renamed ==
  {[source |-> s, spec |-> Ask(e, "s.t", <<>>, None, <<>>, create, "error")] :
     s \in {Plain("postgres"), Documents}, e \in Engines, create \in BOOLEAN}

Conditions ==
  {[column |-> "k", op |-> op, list |-> FALSE, value |-> <<x>>] : op \in SqlCmp, x \in {2}}
  \cup {[column |-> "k", op |-> op, list |-> FALSE, value |-> <<0>>] : op \in {"ne", "lt", "gte"}}
  \cup {[column |-> "v", op |-> op, list |-> FALSE, value |-> <<3>>] : op \in SqlCmp \cup SqlList}
  \cup {[column |-> "k", op |-> op, list |-> TRUE, value |-> v] : op \in SqlList, v \in {<<>>, <<1, 2>>, <<2, 0>>}}
  \cup {[column |-> "gone", op |-> "eq", list |-> FALSE, value |-> <<1>>]}

Queries ==
  {[source |-> s, spec |-> Ask(e, "t", <<"k", "v">>, None, fs, TRUE, "error")] :
     s \in {Plain(x) : x \in SqlEngines} \cup {Documents}, e \in {"postgres"},
     fs \in {<<f>> : f \in Conditions} \cup
             {<<f, g>> : f \in Conditions, g \in {h \in Conditions : h.op \in {"ne", "in", "gte"} /\ h.value # <<0>>}}}

(* One column of each type, in the key or not; of a collection, beside the *)
(* _id or as the _id.                                                      *)
Single(e, native, pk) ==
  IF e # "mongodb" THEN Source(e, "t", <<Col("k", native, ~pk, pk)>>, << <<1>> >>)
  ELSE Source(e, "t", IF pk THEN <<Col("_id", native, TRUE, TRUE)>>
                            ELSE <<Col("k", native, TRUE, FALSE), Col("_id", "ObjectId", TRUE, TRUE)>>,
              << <<1, 2>> >>)

Typed ==
  UNION {{[source |-> Single(e, native, pk), spec |-> Ask(to, "t", <<>>, None, <<>>, TRUE, "error")] :
            native \in NativeTypes(e), pk \in BOOLEAN, to \in Engines} : e \in Engines}

(* Documents that differ, and a key that may be NULL.                      *)
Uneven == Source("mongodb", "t", <<Col("_id", "int", TRUE, TRUE), Col("k", "int", TRUE, FALSE),
                                   Col("v", "str", TRUE, FALSE)>>,
                 << <<1, 0, 0>>, <<2, 2, 3>> >>)
NullKeyed == Source("sqlite", "t", <<Col("k", "BIGINT", TRUE, TRUE), Col("v", "TEXT", TRUE, FALSE)>>,
                    << <<0, 3>>, <<2, 4>> >>)
Odd == {[source |-> s, spec |-> Ask(e, "t", sel, None, <<>>, TRUE, conflict)] :
          s \in {Uneven, NullKeyed}, e \in Engines, sel \in {<<"k">>, <<"v">>, <<"k", "v">>, <<"_id", "k">>},
          conflict \in {"error", "skip"}}

(* A field that the first document has as a null, names that need quotes,  *)
(* a schema that unqualified names do not reach, and an _id of one's own.  *)
Nulls == [Source("mongodb", "t", Uneven.columns, << <<1, 0, 0>> >>) EXCEPT !.nulls = {<<1, "k">>}]
Elsewhere(x) == [x EXCEPT !.schema = "other"]
Named(e, table, name) == Source(e, table, <<Col(name, IntType[e], FALSE, TRUE)>>, << <<1>> >>)

Special ==
  {[source |-> Nulls, spec |-> Ask(e, "t", sel, None, <<>>, TRUE, conflict)] :
     e \in Engines, sel \in {<<"_id", "k">>, <<"_id", "k", "v">>}, conflict \in {"error", "skip"}}
  \cup {[source |-> Named(x, s, n), spec |-> Ask(e, t, <<>>, None, <<>>, TRUE, "error")] :
          x \in SqlEngines, s \in {"t", "order", "Name"}, n \in {"k", "order", "Name"}, e \in Engines,
          t \in {"t", "order", "Name"}}
  \cup {[source |-> s, spec |-> a] :
          s \in {Plain("postgres"), Elsewhere(Plain("postgres"))},
          a \in {Elsewhere(Ask("postgres", "t", <<>>, None, <<>>, create, "skip")) : create \in BOOLEAN}
                 \cup {Ask("postgres", "t", <<>>, None, <<>>, TRUE, "skip")}}
  \cup {[source |-> s, spec |-> Ask("mongodb", "t", <<"k", "v">>, [n \in {from} |-> "_id"], <<>>, FALSE, "skip")] :
          s \in {Plain("mysql"), Composite("mysql"), Documents}, from \in {"k", "v"}}

MCJobs == Odd \cup Shapes \cup Renamed \cup Queries \cup Typed \cup Special
MCText == {3, 4, 5}
==============================================================================
