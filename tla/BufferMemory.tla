---------------------------- MODULE BufferMemory ----------------------------
(***************************************************************************)
(* What a buffer promises the program: the buffer and its sub-buffers are  *)
(* one memory, whatever copies of it the runtime keeps.  A command, or the *)
(* host through a pointer it has mapped, reads what was last written and   *)
(* writes; nothing else changes the contents.                              *)
(***************************************************************************)
CONSTANTS
    Cells,      \* places in the buffer
    Values,
    Undefined   \* what a place holds before it is written

VARIABLES
    contents,   \* of each cell
    last        \* what the last access read and wrote: sets of <<cell, value>>

Known == Values \cup {Undefined}
NoAccess == [read |-> {}, wrote |-> {}]

(* A buffer is created with undefined contents, or with those of the       *)
(* pointer it is given.                                                    *)
Init ==
    /\ contents \in {[c \in Cells |-> v] : v \in Known}
    /\ last = NoAccess

Access(R, W) ==
    \E written \in [W -> Known] :
        /\ last' = [read  |-> {<<c, contents[c]>> : c \in R},
                    wrote |-> {<<c, written[c]>> : c \in W}]
        /\ contents' = [c \in Cells |->
                          IF c \in W THEN written[c] ELSE contents[c]]

Next == \E R, W \in SUBSET Cells : Access(R, W)

Spec == Init /\ [][Next]_<<contents, last>>
=============================================================================
