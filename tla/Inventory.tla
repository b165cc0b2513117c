----------------------------- MODULE Inventory -----------------------------
(***************************************************************************)
(* The inventory table as its repository reads and writes it               *)
(* (inventory/infra/gorm.go).  A table is a function from row ids to rows; *)
(* ids are auto-incremented and never reused.  Remove is two statements, a *)
(* read of the row and a write computed from what was read, so it is split *)
(* into RemoveOk (on the table as read) and RemoveWrite (on the table as   *)
(* it is by then).                                                         *)
(***************************************************************************)
EXTENDS Sums

CONSTANTS
    Chars,      \* characters, the owners of rows
    Names       \* item ids of item_db

Row == [owner : Chars, name : Names, amount : Nat, equip : BOOLEAN]

\* LoadByChar: the ids of a character's rows.
Owned(rows, c) == {i \in DOMAIN rows : rows[i].owner = c}

\* Add: always a new row, never a stack on an existing one.
AddRow(rows, id, c, n, k) ==
    [i \in DOMAIN rows \cup {id} |->
        IF i = id THEN [owner |-> c, name |-> n, amount |-> k, equip |-> FALSE]
                  ELSE rows[i]]

\* Remove's first statement finds the row with enough units in it.
RemoveOk(rows, id, k) == id \in DOMAIN rows /\ rows[id].amount >= k

\* Mutant of RemoveWrite: the row is deleted even when units are left in it.
RemoveWholeRow(rows, id, loaded, k) == [i \in DOMAIN rows \ {id} |-> rows[i]]

\* Remove's second statement, given the amount its first one read: delete the
\* row, or overwrite its amount.  On a row that has vanished neither fails.
RemoveWrite(rows, id, loaded, k) ==
    IF loaded = k
    THEN [i \in DOMAIN rows \ {id} |-> rows[i]]
    ELSE [i \in DOMAIN rows |->
             IF i = id THEN [rows[i] EXCEPT !.amount = loaded - k] ELSE rows[i]]

\* SetEquip: overwrites the equip column of a row that is still there.
SetEquip(rows, id, worn) == [rows EXCEPT ![id].equip = worn]

\* Units of item n that c holds, over all of c's rows.
Held(rows, c, n) == UnitsIn(rows, Owned(rows, c), n)

=============================================================================
