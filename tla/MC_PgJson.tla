------------------------------- MODULE MC_PgJson -------------------------------
(***************************************************************************)
(* Model-checking instance of PgJson: two column names ("id" < "name" in  *)
(* byte order), results of up to two columns and one row.                 *)
(***************************************************************************)
EXTENDS PgJson

MCNames == {1, 2}
=============================================================================
