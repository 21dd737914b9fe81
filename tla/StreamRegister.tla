--------------------------- MODULE StreamRegister ---------------------------
(***************************************************************************)
(* What a Repository promises of one stream: one current state that every  *)
(* commit, tip and sync is judged against, one at a time, whatever the     *)
(* conflict resolution is that judges.                                     *)
(***************************************************************************)
CONSTANTS
    Commit,        \* the commits that may be brought to the node
    Absent,        \* the value while the node has no state of the stream
    Load(_),       \* the state that a commit is loaded to
    Judge(_, _)    \* what a state becomes when a commit is brought

VARIABLE value

Init == value = Absent \/ \E c \in Commit : value = Load(c)

(* The stream is loaded for the first time, from some tip or its genesis.  *)
Appear(c) ==
    /\ value = Absent
    /\ value' = Load(c)

Absorb(c) ==
    /\ value # Absent
    /\ value' = Judge(value, c)

Next == \E c \in Commit : Appear(c) \/ Absorb(c)

Spec == Init /\ [][Next]_value
=============================================================================
