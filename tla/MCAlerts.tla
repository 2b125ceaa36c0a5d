------------------------------ MODULE MCAlerts ------------------------------
\* The run checks liveness, so it uses no symmetry.  There is one row fewer in the list
\* than there are alerts: every way in which an alert enters and leaves it occurs.
EXTENDS Alerts
=============================================================================
