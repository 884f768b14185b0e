------------------------------- MODULE Rows --------------------------------
(***************************************************************************)
(* What the modules of the smaller services share: the requests and jobs   *)
(* that work at the same time, and how a unit of work looks between two of *)
(* its statements.  Most services read a row without a lock, change the    *)
(* copy and write every column back.                                       *)
(***************************************************************************)
EXTENDS Integers, FiniteSets

CONSTANTS
    Desks,         \* requests and jobs running at the same time
    NoRow          \* no such row, or NULL

Free == [op |-> "free"]     \* a desk that works on nothing

(* The rows of a table kept as a function from ids to rows.                *)
Present(table) == {i \in DOMAIN table : table[i] # NoRow}

(* The next free id of a table numbered from one; empty when it is full.   *)
Fresh(table) == {i \in DOMAIN table : table[i] = NoRow /\ \A j \in DOMAIN table : j < i => table[j] # NoRow}
=============================================================================
