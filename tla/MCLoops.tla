------------------------------ MODULE MCLoops ------------------------------
EXTENDS Loops

\* A loop of two iterations with everything, and one without any limit.
MCTerms ==
    {[limit |-> 2, checks |-> 1, prompt |-> TRUE, timed |-> TRUE, sleeps |-> FALSE],
     [limit |-> 0, checks |-> 2, prompt |-> FALSE, timed |-> FALSE, sleeps |-> TRUE]}
=============================================================================
