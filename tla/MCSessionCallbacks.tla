------------------------- MODULE MCSessionCallbacks -------------------------
EXTENDS SessionCallbacks, TLC

ClientSymmetry == Permutations(Clients)

\* No guard and no property of this run reads the history of MqttSession.
WithoutHistory ==
    <<status, runVars, relogin, monVars, dataVars, cancelled, cbVars>>

=============================================================================
