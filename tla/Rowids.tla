------------------------------- MODULE Rowids -------------------------------
(***************************************************************************)
(* SQLite tables keyed by an INTEGER PRIMARY KEY.                           *)
(*                                                                         *)
(* The tables bins and items (0001_init.sql) declare "id INTEGER PRIMARY   *)
(* KEY" without AUTOINCREMENT.  SQLite then gives a new row the largest id *)
(* in the table plus one, and 1 in an empty table, so the ids of deleted   *)
(* rows come back.  A table is a function from the ids in use to rows.     *)
(***************************************************************************)
EXTENDS Integers, Functions

CONSTANT MaxRowid   \* bound: the largest id a table of the model can use

ASSUME MaxRowidAssumption == MaxRowid \in Nat \ {0}

Rowids == 1..MaxRowid

EmptyTable == [id \in {} |-> id]

IsTable(table, Row) ==
    /\ DOMAIN table \subseteq Rowids
    /\ table \in [DOMAIN table -> Row]

(***************************************************************************)
(* The id SQLite picks: the least number above every id in use.            *)
(***************************************************************************)
NextRowid(table) ==
    CHOOSE id \in 1..(MaxRowid + 1) :
        /\ \A used \in DOMAIN table : used < id
        /\ id = 1 \/ id - 1 \in DOMAIN table

(***************************************************************************)
(* Whether the model has an id left; an INSERT without one fails the way a *)
(* full disk makes it fail.                                                *)
(***************************************************************************)
HasRoom(table) == NextRowid(table) \in Rowids

Insert(table, row) ==
    [id \in DOMAIN table \cup {NextRowid(table)} |->
        IF id = NextRowid(table) THEN row ELSE table[id]]

(***************************************************************************)
(* UPDATE ... WHERE id = ?, which changes nothing when the row is gone.    *)
(***************************************************************************)
Update(table, id, row) ==
    [i \in DOMAIN table |-> IF i = id THEN row ELSE table[i]]

Delete(table, ids) == Restrict(table, DOMAIN table \ ids)
=============================================================================
