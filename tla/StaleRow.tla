------------------------------ MODULE StaleRow ------------------------------
(***************************************************************************)
(* What a row promises when every handler reads it whole, changes the      *)
(* columns it is responsible for, and saves the object it has read.        *)
(*                                                                         *)
(* A write changes the columns of one handler as it likes.  Every other    *)
(* column keeps its value or goes back to the value it had in ONE earlier  *)
(* version of the row: such a write can undo what others have written, but *)
(* it never makes a column up and never mixes two old versions.            *)
(***************************************************************************)
CONSTANTS
    Rows,       \* the identifiers of the rows
    Columns,    \* the columns of a row
    Duties,     \* Duties: the sets of columns one handler is responsible for
    Created     \* the contents a new row can have

VARIABLES
    row,        \* row[r]: the committed columns
    versions    \* versions[r]: every committed version of the row

rowVars == <<row, versions>>

Init == /\ DOMAIN row = Rows
        /\ DOMAIN versions = Rows
        /\ \A r \in Rows : versions[r] \subseteq {row[r]}

Recorded(r) == versions' = [versions EXCEPT ![r] = @ \cup {row'[r]}]
OthersKept(r) == \A s \in Rows \ {r} : row'[s] = row[s]

Create(r) ==
    /\ versions[r] = {}
    /\ row'[r] \in Created
    /\ OthersKept(r)
    /\ Recorded(r)

Write(r, duty) ==
    /\ \E version \in versions[r] :
        \A k \in Columns \ duty : row'[r][k] \in {row[r][k], version[k]}
    /\ OthersKept(r)
    /\ Recorded(r)

Next == \E r \in Rows : Create(r) \/ \E duty \in Duties : Write(r, duty)

Spec == Init /\ [][Next]_rowVars
=============================================================================
