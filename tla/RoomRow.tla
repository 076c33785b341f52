------------------------------- MODULE RoomRow -------------------------------
(***************************************************************************)
(* What TypeORM's repository.save does to one row of the Room table.       *)
(*                                                                         *)
(* The entity a handler saves is the snapshot its findOne read, plus the   *)
(* handler's own assignments.  save first SELECTs the row again and keeps  *)
(* the columns in which the entity differs from it; then it UPDATEs those  *)
(* columns, all in one statement, and no others.  There is no version      *)
(* column and no lock, so another handler can write between any two of     *)
(* these three queries.  A row is a record with one field per column.      *)
(***************************************************************************)

\* The columns in which an entity differs from a row: what save will write.
Changed(entity, row) == {col \in DOMAIN row : entity[col] # row[col]}

\* The row after an UPDATE that sets the columns cols to the entity's values.
Updated(row, entity, cols) ==
  [col \in DOMAIN row |-> IF col \in cols THEN entity[col] ELSE row[col]]
=============================================================================
