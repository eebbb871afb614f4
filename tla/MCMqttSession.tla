---------------------------- MODULE MCMqttSession ---------------------------
(* Two client objects: the one of the session and the one of the session     *)
(* before.  No symmetry, since liveness is checked.                          *)
EXTENDS MqttSession

=============================================================================
