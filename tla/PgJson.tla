-------------------------------- MODULE PgJson --------------------------------
(***************************************************************************)
(* The row encoding of PostgresHost::query_json (src/booster/src/         *)
(* postgres.rs): each row the driver returns becomes a JSON object built   *)
(* in a BTreeMap from column name to JSON value, and the objects form the  *)
(* array pg_query writes to the guest.                                     *)
(*                                                                         *)
(* A column name is represented by its rank in byte order (BTreeMap order  *)
(* on String), so the names are natural numbers.  A cell is "null" or "v" *)
(* (a non-null value of the column's type); a float cell may also be      *)
(* "nan", and a cell of a type the encoder does not list may be           *)
(* "unreadable" (try_get::<String> fails on it).  A JSON value is a pair   *)
(* <<kind, cell>>.                                                         *)
(***************************************************************************)
EXTENDS Naturals, Sequences, SequencesExt

CONSTANTS
    Names,    \* column names, as ranks in byte order
    MaxCols,  \* the most columns a result has
    MaxRows   \* the most rows a result has

ASSUME Names \subseteq Nat /\ MaxCols \in Nat /\ MaxRows \in Nat

\* The declared type families the encoder tells apart.
Types == {"bool", "int2", "int4", "int8", "float4", "float8", "text",
          "uuid", "json", "bytea", "other"}

CellsOf(ty) ==
    CASE ty \in {"float4", "float8"} -> {"null", "v", "nan"}
      [] ty = "other"                -> {"null", "v", "unreadable"}
      [] OTHER                       -> {"null", "v"}

Column == [name : Names, type : Types]

Null == <<"null", "null">>

\* The match on col.type_(): try_get of the type's Rust counterpart, an SQL
\* NULL or a failed try_get giving Null.  JsonValue::from(f64) is Null for a
\* non-finite float; BYTEA is base64-encoded; any other type is read as a
\* String when the driver allows it.
EncodeCell(ty, c) ==
    CASE c \in {"null", "nan", "unreadable"}    -> Null
      [] ty = "bool"                            -> <<"bool", c>>
      [] ty \in {"int2", "int4", "int8",
                 "float4", "float8"}            -> <<"number", c>>
      [] ty \in {"text", "uuid", "other"}       -> <<"string", c>>
      [] ty = "json"                            -> <<"json", c>>
      [] ty = "bytea"                           -> <<"base64", c>>

\* One row: obj.insert(name, v) for each column in turn, a later column of
\* the same name replacing an earlier one; the object is then collected
\* from the BTreeMap, so its keys come out in name order.
RowObject(cols, row) ==
    LET obj == FoldLeft(LAMBDA m, i : (cols[i].name :> EncodeCell(cols[i].type, row[i])) @@ m,
                        <<>>, [i \in DOMAIN cols |-> i])
        keys == SetToSortSeq(DOMAIN obj, <)
    IN  [j \in DOMAIN keys |-> <<keys[j], obj[keys[j]]>>]

\* The loop over the rows: one object pushed per row, in row order.
QueryJson(cols, rows) == [r \in DOMAIN rows |-> RowObject(cols, rows[r])]

\* Spec section 4.4: keys are the column names in the order the driver
\* reports them, each valued by the table of JSON encodings.
SpecRowObject(cols, row) ==
    [i \in DOMAIN cols |-> <<cols[i].name, EncodeCell(cols[i].type, row[i])>>]

-----------------------------------------------------------------------------
VARIABLES
    result,  \* the columns and rows conn.query returned
    json     \* the array query_json built from them

vars == <<result, json>>

Results ==
    UNION { {[cols |-> cs, rows |-> rs] :
               rs \in UNION {[1..n -> {row \in [DOMAIN cs -> UNION {CellsOf(t) : t \in Types}] :
                                         \A i \in DOMAIN cs : row[i] \in CellsOf(cs[i].type)}]
                             : n \in 0..MaxRows}}
            : cs \in UNION {[1..k -> Column] : k \in 1..MaxCols} }

Init ==
    /\ result = [cols |-> <<>>, rows |-> <<>>]
    /\ json = <<>>

\* A query_json call: conn.query returns a result, which is encoded.
Query ==
    \E r \in Results :
        /\ result' = r
        /\ json' = QueryJson(r.cols, r.rows)

Next == Query

Spec == Init /\ [][Next]_vars

-----------------------------------------------------------------------------
(* Properties *)

\* Spec section 4.4 (relational query-to-JSON): each row object has one key
\* per column, the column names in the order the driver reports them.
\* query_json collects the object from a BTreeMap, which sorts the keys
\* and keeps one entry for columns that share a name.
KeysInDriverOrder ==
    \A r \in DOMAIN json :
        [j \in DOMAIN json[r] |-> json[r][j][1]]
            = [j \in DOMAIN SpecRowObject(result.cols, result.rows[r]) |->
                  SpecRowObject(result.cols, result.rows[r])[j][1]]

=============================================================================
