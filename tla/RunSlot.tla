------------------------------- MODULE RunSlot -------------------------------
(***************************************************************************)
(* What the run slot of an agent promises to those who send it prompts:    *)
(* one prompt at a time holds the slot, only the holder's turn is the      *)
(* foreground turn, a slot is given up once and for all, and no turn       *)
(* outlives its holder.  AgentRuns implements it.                          *)
(***************************************************************************)
CONSTANTS Ops, None

VARIABLES
    holder,     \* the prompt that holds the slot
    turn,       \* the prompt whose turn is the foreground turn
    over        \* the prompts that have given the slot up

vars == <<holder, turn, over>>

Init == holder = None /\ turn = None /\ over = {}

Claim(o) ==
    /\ holder = None /\ turn = None /\ o \notin over
    /\ holder' = o
    /\ UNCHANGED <<turn, over>>

Activate(o) ==
    /\ holder = o /\ turn = None
    /\ turn' = o
    /\ UNCHANGED <<holder, over>>

End ==
    /\ turn # None
    /\ turn' = None
    /\ UNCHANGED <<holder, over>>

\* The slot is given up; a turn that is still active is abandoned with it.
Release ==
    /\ holder # None
    /\ holder' = None
    /\ turn' = None
    /\ over' = over \cup {holder}

Next == End \/ Release \/ \E o \in Ops : Claim(o) \/ Activate(o)

Spec == Init /\ [][Next]_vars
=============================================================================
