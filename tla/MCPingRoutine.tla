---------------------------- MODULE MCPingRoutine -----------------------------
(* The constants are in the configuration: a refresh interval that is no       *)
(* multiple of the ping interval, requests that outlast a tick, and a maximum  *)
(* of the login delay that is no power of two times the first.                 *)
EXTENDS PingRoutine

=============================================================================
