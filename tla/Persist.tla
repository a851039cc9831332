------------------------------ MODULE Persist ------------------------------
(***************************************************************************)
(* What EntityManager.save(Entity, object) does to a row, as the services  *)
(* use it (TypeORM itself is not part of the repository).  save reads the  *)
(* row again, compares it column by column with the object, and issues an  *)
(* UPDATE that names only the columns that differ.  A column the object    *)
(* does not carry - a relation that was never loaded - is left alone.      *)
(* A column the object does carry is written back even when the handler    *)
(* never touched it, which is how a value read long ago overwrites one     *)
(* that was committed since.                                               *)
(***************************************************************************)

\* The SET clause of the UPDATE: the columns of entity that differ from row.
Changed(entity, row) ==
    [col \in {k \in DOMAIN entity : entity[k] # row[k]} |-> entity[col]]

\* The row once an UPDATE with this SET clause has been applied to it.
Overlay(row, changes) ==
    [col \in DOMAIN row |-> IF col \in DOMAIN changes THEN changes[col] ELSE row[col]]

NoChange == [col \in {} |-> col]
=============================================================================
