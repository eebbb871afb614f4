-------------------------- MODULE MCOfflineMonitor --------------------------
(* One device where liveness is checked, so that the delays of the backoff    *)
(* and the count of reconnects go through all their cases; two in the search  *)
(* for an untrue offline report.  No symmetry.                                *)
EXTENDS OfflineMonitor

=============================================================================
