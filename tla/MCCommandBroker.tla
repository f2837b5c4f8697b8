-------------------------- MODULE MCCommandBroker --------------------------
EXTENDS CommandBroker, TLC
=============================================================================
