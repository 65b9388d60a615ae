----------------------------- MODULE ColumnValues -----------------------------
(***************************************************************************)
(* What the users' databases are: which values a native type of the source *)
(* may hold and which a column of the target takes, in classes coarse      *)
(* enough to tell the types apart. Not code of the repository: the         *)
(* reference against which its type maps are judged.                       *)
(*                                                                         *)
(* u32 and u64 are unsigned values past the signed range of their width;   *)
(* short and long strings have at most, or more than, 255 characters;      *)
(* numeric fits 38 digits with 10 decimals, wide_numeric does not;         *)
(* wrapped is a value that MongoDB's relaxed JSON writes as an object,     *)
(* which the task passes on as JSON text.                                  *)
(***************************************************************************)
EXTENDS ColumnTypes

(* The native types that are told apart: those the maps name, and one that *)
(* the map of its engine does not know.                                    *)
NativeTypes(engine) ==
  CASE engine = "postgres" -> (UNION {PostgresNames[c] : c \in DOMAIN PostgresNames}) \cup {"inet"}
    [] engine = "mysql" -> (UNION {MysqlNames[c] : c \in DOMAIN MysqlNames}) \cup {"geometry"}
    [] engine = "sqlite" -> DOMAIN SqliteKeywords
    [] engine = "mongodb" -> (UNION {MongoNames[c] : c \in DOMAIN MongoNames}) \cup {"regex"}

PostgresValues(native) ==
  CASE native \in PostgresNames.integer -> {"i32"}
    [] native \in PostgresNames.bigint -> {"i64"}
    [] native \in PostgresNames.smallint -> {"i16"}
    [] native = "money" -> {"numeric"}
    [] native \in {"numeric", "decimal"} -> {"numeric", "wide_numeric"}
    [] native \in PostgresNames.real -> {"float"}
    [] native \in PostgresNames.boolean -> {"bool"}
    [] native = "name" -> {"short"}
    [] native \in (PostgresNames.varchar \cup PostgresNames.text) \ {"name"} -> {"short", "long"}
    [] native \in PostgresNames.timestamptz -> {"timestamptz"}
    [] native = "time with time zone" -> {"timetz"}
    [] native = "bytea" -> {"bytes", "long_bytes"}
    [] native = "inet" -> {"short"}
    [] OTHER -> {Lookup(PostgresNames, native)}

MysqlValues(native) ==
  CASE native \in {"int", "integer"} -> {"i32", "u32"}
    [] native = "mediumint" -> {"i32"}
    [] native = "bigint" -> {"i64", "u64"}
    [] native = "smallint" -> {"i16", "i32"}
    [] native \in {"tinyint", "year"} -> {"i16"}
    [] native \in MysqlNames.numeric -> {"numeric", "wide_numeric"}
    [] native \in MysqlNames.real -> {"float"}
    [] native = "bit" -> {"bool", "bits"}
    [] native \in {"bool", "boolean"} -> {"bool"}
    [] native \in {"char", "enum", "tinytext"} -> {"short"}
    [] native \in ({"varchar", "set"} \cup MysqlNames.text) \ {"tinytext"} -> {"short", "long"}
    [] native = "time" -> {"time", "long_time"}
    [] native \in {"binary", "tinyblob"} -> {"bytes"}
    [] native \in MysqlNames.binary \ {"binary", "tinyblob"} -> {"bytes", "long_bytes"}
    [] native = "geometry" -> {"bytes"}
    [] OTHER -> {Lookup(MysqlNames, native)}

SqliteValues(native) ==
  CASE native \in {"INTEGER", "BIGINT"} -> {"i64"}
    [] native \in {"VARCHAR", "CLOB", "TEXT"} -> {"short", "long"}
    [] native = "BLOB" -> {"bytes", "long_bytes"}
    [] native = "BOOLEAN" -> {"bool"}
    [] native \in {"REAL", "DOUBLE"} -> {"float"}
    [] native = "GEOMETRY" -> {"short"}
    [] OTHER -> {SqliteCanonical(native)}

MongoValues(native) ==
  CASE native = "str" -> {"short", "long"}
    [] native \in MongoNames.bigint -> {"i64"}
    [] native = "int32" -> {"i32"}
    [] native \in MongoNames.real -> {"float"}
    [] native = "bool" -> {"bool"}
    [] native \in MongoNames.json -> {"json"}
    [] OTHER -> {"wrapped"}

ValuesOf(engine, native) ==
  CASE engine = "postgres" -> PostgresValues(native)
    [] engine = "mysql" -> MysqlValues(native)
    [] engine = "sqlite" -> SqliteValues(native)
    [] engine = "mongodb" -> MongoValues(native)

Textual == {"short", "long", "uuid", "json", "wrapped"}
Everything == Textual \cup {"i16", "i32", "u32", "i64", "u64", "float", "numeric", "wide_numeric", "bool", "bits",
                            "timestamp", "timestamptz", "date", "time", "timetz", "long_time", "bytes", "long_bytes"}

(* SQLite stores any value in any column, but a NUMERIC one is a float.    *)
Takes(engine, type) ==
  CASE engine = "sqlite" -> IF type = "NUMERIC" THEN Everything \ {"wide_numeric"} ELSE Everything
    [] type = "any" -> Everything
    [] type = "smallint" -> {"i16"}
    [] type \in {"integer", "int"} -> {"i16", "i32"}
    [] type = "bigint" -> {"i16", "i32", "u32", "i64"}
    [] type \in {"boolean", "tinyint(1)"} -> {"bool"}
    [] type \in {"double precision", "double"} -> {"float"}
    [] type = "numeric" -> {"numeric", "wide_numeric"}
    [] type = "decimal(38,10)" -> {"numeric"}
    [] type \in {"text", "longtext"} -> Textual
    [] type = "varchar(255)" -> Textual \ {"long", "json"}
    [] type \in {"uuid", "char(36)"} -> {"uuid"}
    [] type \in {"jsonb", "json"} -> {"json", "wrapped"}
    [] type \in {"timestamp", "datetime"} -> {"timestamp"}
    [] type = "timestamptz" -> {"timestamp", "timestamptz"}
    [] type = "date" -> {"date"}
    [] type = "time" -> IF engine = "mysql" THEN {"time", "long_time"} ELSE {"time"}
    [] type \in {"bytea", "longblob"} -> {"bytes", "long_bytes"}
    [] type = "varbinary(255)" -> {"bytes"}
    [] OTHER -> {}

(* MySQL has no key on a JSON column, nor on one of unbounded length.      *)
NoKeyOn(engine, type) == engine = "mysql" /\ type \in {"json", "longtext", "longblob"}
===============================================================================
