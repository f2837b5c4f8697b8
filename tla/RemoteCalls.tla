----------------------------- MODULE RemoteCalls -----------------------------
(***************************************************************************)
(* What the control plane promises to those who send commands to a daemon: *)
(* a command is performed at most once, its caller gets at most one        *)
(* answer, and the answer "ok" is only given for a command that has been   *)
(* performed successfully.  CommandBroker implements it.                   *)
(***************************************************************************)
EXTENDS Sequences

CONSTANTS Cmds, Workers

VARIABLES
    answer,     \* what the caller of each command has been told
    log         \* the commands performed, in order, each with its outcome

vars == <<answer, log>>

Init == answer = [c \in Cmds |-> "none"] /\ log = <<>>

Performed(c) == \E i \in DOMAIN log : log[i].cmd = c

Ask(c) ==
    /\ answer[c] = "none"
    /\ answer' = [answer EXCEPT ![c] = "waiting"]
    /\ UNCHANGED log

Perform(c) ==
    /\ answer[c] # "none" /\ ~Performed(c)
    /\ \E w \in Workers, ok \in BOOLEAN :
         log' = Append(log, [cmd |-> c, by |-> w, ok |-> ok])
    /\ UNCHANGED answer

Succeed(c) ==
    /\ answer[c] = "waiting"
    /\ \E i \in DOMAIN log : log[i].cmd = c /\ log[i].ok
    /\ answer' = [answer EXCEPT ![c] = "ok"]
    /\ UNCHANGED log

Fail(c) ==
    /\ answer[c] = "waiting"
    /\ \E why \in {"failed", "timeout"} : answer' = [answer EXCEPT ![c] = why]
    /\ UNCHANGED log

\* The control plane restarts: its callers are disconnected.
Disconnect ==
    /\ answer' = [c \in Cmds |-> IF answer[c] = "waiting" THEN "gone" ELSE answer[c]]
    /\ UNCHANGED log

Next ==
    \/ \E c \in Cmds : Ask(c) \/ Perform(c) \/ Succeed(c) \/ Fail(c)
    \/ Disconnect

Spec == Init /\ [][Next]_vars
=============================================================================
