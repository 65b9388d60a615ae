----------------------------- MODULE ColumnTypes -----------------------------
(***************************************************************************)
(* services/ddl_generator.py: source column types to target column types,  *)
(* through the canonical types, and the CREATE TABLE statement.            *)
(*                                                                         *)
(* A type map is written the other way round, as the native names each     *)
(* canonical type stands for. Native types are bare names: discovery reads *)
(* them without length, precision or sign. A declared SQLite type is the   *)
(* set of the keywords that its text contains, which is what the rules ask.*)
(***************************************************************************)
EXTENDS Naturals, Sequences, SequencesExt

CONSTANTS Dotted,  \* names with a dot, which SAFE_IDENT admits and _IDENT_RE does not
          Spaced   \* names neither of them admits

SqlEngines == {"postgres", "mysql", "sqlite"}
Engines == SqlEngines \cup {"mongodb"}

(* The two allowlists for identifiers: SAFE_IDENT of filters.py and the    *)
(* stricter _IDENT_RE, _IDENTIFIER_RE of DDL and discovery.                *)
SafeIdent(name) == name \notin Spaced
StrictIdent(name) == name \notin Dotted \cup Spaced

(***************************************************************************)
(* Native type to canonical type.                                          *)
(***************************************************************************)
PostgresNames ==
  [integer |-> {"integer", "int", "int4", "serial"}, bigint |-> {"bigint", "int8", "bigserial"},
   smallint |-> {"smallint", "int2", "smallserial"}, numeric |-> {"numeric", "decimal", "money"},
   real |-> {"real", "double precision", "float4", "float8"}, boolean |-> {"boolean", "bool"},
   varchar |-> {"character varying", "varchar", "character", "char", "bpchar", "name"},
   text |-> {"text", "citext"}, uuid |-> {"uuid"}, json |-> {"json", "jsonb"},
   timestamp |-> {"timestamp without time zone", "timestamp"},
   timestamptz |-> {"timestamp with time zone", "timestamptz"}, date |-> {"date"},
   time |-> {"time without time zone", "time with time zone", "time"}, binary |-> {"bytea"}]

MysqlNames ==
  [integer |-> {"int", "integer", "mediumint", "year"}, bigint |-> {"bigint"},
   smallint |-> {"smallint", "tinyint"}, numeric |-> {"decimal", "numeric"},
   real |-> {"float", "double", "double precision", "real"}, boolean |-> {"bit", "bool", "boolean"},
   varchar |-> {"varchar", "char", "enum", "set"},
   text |-> {"text", "tinytext", "mediumtext", "longtext"}, json |-> {"json"},
   timestamp |-> {"datetime", "timestamp"}, date |-> {"date"}, time |-> {"time"},
   binary |-> {"blob", "tinyblob", "mediumblob", "longblob", "binary", "varbinary"}]

MongoNames ==
  [text |-> {"str"}, varchar |-> {"ObjectId"}, bigint |-> {"int", "Int64", "long"}, integer |-> {"int32"},
   real |-> {"float", "double"}, numeric |-> {"Decimal128"}, boolean |-> {"bool"},
   timestamp |-> {"datetime"}, json |-> {"dict", "list"}, binary |-> {"bytes", "binary"}, uuid |-> {"uuid"}]

SqliteKeywords ==
  [INTEGER |-> {"INT"}, BIGINT |-> {"INT", "BIGINT"}, VARCHAR |-> {"CHAR"}, CLOB |-> {"CLOB"},
   TEXT |-> {"TEXT"}, BLOB |-> {"BLOB"}, BOOLEAN |-> {"BOOL"}, UUID |-> {"UUID"}, JSON |-> {"JSON"},
   REAL |-> {"REAL"}, DOUBLE |-> {"DOUB"}, TIMESTAMP |-> {"TIMESTAMP", "TIME"},
   DATETIME |-> {"DATETIME", "DATE", "TIME"}, DATE |-> {"DATE"}, TIME |-> {"TIME"},
   DECIMAL |-> {"DEC"}, NUMERIC |-> {"NUM"}, GEOMETRY |-> {}]

(* The tests of _sqlite_canonical in their order: the first that matches.  *)
SqliteRules ==
  << <<{"BIGINT"}, "bigint">>, <<{"INT"}, "integer">>, <<{"CHAR", "CLOB", "TEXT"}, "text">>,
     <<{"BLOB"}, "binary">>, <<{"BOOL"}, "boolean">>, <<{"UUID"}, "uuid">>, <<{"JSON"}, "json">>,
     <<{"REAL", "FLOA", "DOUB"}, "real">>, <<{"TIMESTAMP", "DATETIME"}, "timestamp">>,
     <<{"DATE"}, "date">>, <<{"TIME"}, "time">>, <<{"DEC", "NUM", "MONEY"}, "numeric">> >>

SqliteCanonical(native) ==
  LET i == SelectInSeq(SqliteRules, LAMBDA rule : rule[1] \cap SqliteKeywords[native] # {})
  IN  IF i = 0 THEN "text" ELSE SqliteRules[i][2]

(* The canonical type whose names hold the native one; text when none does.*)
Lookup(names, native) ==
  LET matching == {c \in DOMAIN names : native \in names[c]}
  IN  IF matching = {} THEN "text" ELSE CHOOSE c \in matching : TRUE

ToCanonical(engine, native) ==
  CASE engine = "sqlite" -> SqliteCanonical(native)
    [] engine = "postgres" -> Lookup(PostgresNames, native)
    [] engine = "mysql" -> Lookup(MysqlNames, native)
    [] engine = "mongodb" -> Lookup(MongoNames, native)

(***************************************************************************)
(* Canonical type to the type of the target column.                        *)
(***************************************************************************)
PostgresType ==
  [text |-> "text", varchar |-> "text", integer |-> "integer", bigint |-> "bigint", smallint |-> "smallint",
   boolean |-> "boolean", real |-> "double precision", numeric |-> "numeric", uuid |-> "uuid", json |-> "jsonb",
   timestamp |-> "timestamp", timestamptz |-> "timestamptz", date |-> "date", time |-> "time", binary |-> "bytea"]

(* Mutant of MysqlType: a key column has the type of any other.            *)
MysqlTypeOfAny(isPk) ==
  [text |-> "longtext", binary |-> "longblob", varchar |-> "varchar(255)", integer |-> "int", bigint |-> "bigint",
   smallint |-> "smallint", boolean |-> "tinyint(1)", real |-> "double", numeric |-> "decimal(38,10)",
   uuid |-> "char(36)", json |-> "json", timestamp |-> "datetime", timestamptz |-> "datetime", date |-> "date",
   time |-> "time"]

MysqlType(isPk) ==
  [text |-> IF isPk THEN "varchar(255)" ELSE "longtext", binary |-> IF isPk THEN "varbinary(255)" ELSE "longblob",
   varchar |-> "varchar(255)", integer |-> "int", bigint |-> "bigint", smallint |-> "smallint",
   boolean |-> "tinyint(1)", real |-> "double", numeric |-> "decimal(38,10)", uuid |-> "char(36)", json |-> "json",
   timestamp |-> "datetime", timestamptz |-> "datetime", date |-> "date", time |-> "time"]

SqliteType ==
  [integer |-> "INTEGER", bigint |-> "INTEGER", smallint |-> "INTEGER", boolean |-> "INTEGER", real |-> "REAL",
   numeric |-> "NUMERIC", binary |-> "BLOB", text |-> "TEXT", varchar |-> "TEXT", uuid |-> "TEXT", json |-> "TEXT",
   timestamp |-> "TEXT", timestamptz |-> "TEXT", date |-> "TEXT", time |-> "TEXT"]

TargetType(engine, canonical, isPk) ==
  CASE engine = "postgres" -> PostgresType[canonical]
    [] engine = "mysql" -> MysqlType(isPk)[canonical]
    [] engine = "sqlite" -> SqliteType[canonical]

(***************************************************************************)
(* The columns of the new table. `pairs' are the copied fields, `columns'  *)
(* what discovery says of the source. Two sources mapped onto one target   *)
(* give one column, that of the first.                                     *)
(***************************************************************************)
PlanColumn(pair, columns, engine) ==
  LET known == {c \in ToSet(columns) : c.name = pair.source}
      src == CHOOSE c \in known : TRUE
  IN  [name |-> pair.target,
       canonical |-> IF engine = "mongodb" /\ pair.source = "_id" THEN "varchar"
                     ELSE IF known = {} THEN "text" ELSE ToCanonical(engine, src.type),
       nullable |-> known = {} \/ src.nullable,
       pk |-> known # {} /\ src.pk]

PlanTargetColumns(pairs, columns, engine) ==
  LET first == {i \in DOMAIN pairs : \A j \in 1..(i - 1) : pairs[j].target # pairs[i].target}
  IN  {PlanColumn(pairs[i], columns, engine) : i \in first}

(* The table that CREATE TABLE asks for, or why no statement is built. A   *)
(* key column is NOT NULL by being in the key.                             *)
DdlRaises(table, defs) == defs = {} \/ ~StrictIdent(table) \/ \E d \in defs : ~StrictIdent(d.name)

CreateTableSql(engine, defs) ==
  {[name |-> d.name, type |-> TargetType(engine, d.canonical, d.pk),
    nullable |-> d.nullable /\ ~d.pk, pk |-> d.pk] : d \in defs}
==============================================================================
