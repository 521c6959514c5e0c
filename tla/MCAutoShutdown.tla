--------------------------- MODULE MCAutoShutdown ---------------------------
EXTENDS AutoShutdown

\* 00:05 on Sundays with a start at 07:00, and opted out.
MCSchedule ==
  {[on |-> TRUE, stop |-> 5, start |-> 420, days |-> {0}],
   [on |-> FALSE, stop |-> 0, start |-> None, days |-> {0}]}
=============================================================================
