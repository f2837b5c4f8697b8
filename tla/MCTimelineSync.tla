--------------------------- MODULE MCTimelineSync ---------------------------
EXTENDS TimelineSync
=============================================================================
