------------------------------- MODULE Storage -------------------------------
(***************************************************************************)
(* What the calls of persistence.Storage (persistence/gorm/gorm.go) do to  *)
(* a table, each in a transaction of its own.  A table is the sequence of  *)
(* its rows in the order in which the database returns them when no order  *)
(* is asked for; a row has an id.  A call that changes a table is an       *)
(* operator with the set of the tables it may lead to: the database is     *)
(* free to keep an updated row in its place or to move it to the end.      *)
(***************************************************************************)
EXTENDS Naturals, Sequences

Ids(table) == {table[i].id : i \in DOMAIN table}
Has(table, id) == id \in Ids(table)
RowAt(table, id) == CHOOSE i \in DOMAIN table : table[i].id = id
RowOf(table, id) == table[RowAt(table, id)]

\* the rows behind the one with this id, of which there is one, move up
Without(table, id) ==
  [i \in 1..(Len(table) - 1) |-> table[IF i < RowAt(table, id) THEN i ELSE i + 1]]

(***************************************************************************)
(* Create fails on a key that is taken, Update and Delete on one that is   *)
(* not there: the set is empty.                                            *)
(***************************************************************************)
Create(table, row) == IF Has(table, row.id) THEN {} ELSE {Append(table, row)}

Update(table, row) ==
  IF Has(table, row.id)
  THEN {[i \in DOMAIN table |-> IF table[i].id = row.id THEN row ELSE table[i]],
        Append(Without(table, row.id), row)}
  ELSE {}

Delete(table, id) == IF Has(table, id) THEN {Without(table, id)} ELSE {}

(***************************************************************************)
(* Save writes all columns and inserts a row that is not there.            *)
(***************************************************************************)
Save(table, row) == Update(table, row) \cup Create(table, row)

(***************************************************************************)
(* List: of the rows that satisfy the conditions, at most limit of those   *)
(* behind the offset.                                                      *)
(***************************************************************************)
List(rows, offset, limit) ==
  SubSeq(rows, offset + 1, IF offset + limit < Len(rows) THEN offset + limit ELSE Len(rows))
=============================================================================
