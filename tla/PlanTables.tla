----------------------------- MODULE PlanTables -----------------------------
(***************************************************************************)
(* The tables a plan is made for and runs over (the definitions the        *)
(* converter is given, and ScalarDB's metadata at run time).               *)
(***************************************************************************)

CONSTANTS
  Tables,
  Rows,       \* the rows that each table may have: functions of its columns
  Columns,    \* the columns of each table
  KeyColumn   \* its primary key, which is its partition key

Key(t, r)      == r[KeyColumn[t]]
Image(r, cols) == [c \in cols |-> r[c]]
=============================================================================
