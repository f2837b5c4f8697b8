---------------------------- MODULE MCSchedules ----------------------------
EXTENDS Schedules
=============================================================================
