---------------------------- MODULE MCAgentRuns ----------------------------
EXTENDS AgentRuns, FiniteSets, TLC

Symmetric == Permutations(Ops) \cup Permutations(Perms)

\* The state without the attention mark and the status it is an edge of: these
\* two steer nothing but themselves, so two states that differ only in them
\* have the same future but for them.
Unmarked ==
    <<cur, [g \in Objs |-> [objs[g] EXCEPT !.attention = "none"]],
      slot, streams, pc, op, events, provider>>

\* Two permission requests meet runs and responses only; a single one meets also
\* cancellations, and replacements or autonomous turns, but not both.  A rewind
\* meets runs and cancellations.
Called(kinds) == \A o \in Ops : op[o].kind \in kinds \cup {"none"}

NoAuto == autos = MaxAuto

Asking ==
    \/ asked = {}
    \/ NoAuto /\ Called({"run", "respond"})
    \/ /\ Cardinality(asked) = 1
       /\ \/ Called({"run", "respond", "cancel"})
          \/ NoAuto /\ Called(AllKinds \ {"rewind"})

Apart ==
    /\ Asking
    /\ Called(AllKinds \ {"rewind"}) \/ (NoAuto /\ Called({"run", "cancel", "rewind"}))
=============================================================================
