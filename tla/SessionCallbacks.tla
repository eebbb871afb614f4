-------------------------- MODULE SessionCallbacks --------------------------
(***************************************************************************)
(* MqttSession with what the paho clients call: OnConnect (364-380) and    *)
(* OnConnectionLost (382-385) of src/mqtt_exporter.go.  A client starts    *)
(* each call in a goroutine of its own, so two calls, of one client or of  *)
(* two, overlap and are overtaken by what happens meanwhile.  They write   *)
(* the mqtt_connected gauge (src/telemetry.go:80-89), as do Run and        *)
(* forceReconnect, and OnConnect subscribes on m.mqtt(): the client that   *)
(* is current when the loop gets there.                                    *)
(***************************************************************************)
EXTENDS MqttSession

CONSTANT Devices   \* the configured serial numbers

VARIABLES
    subs,        \* [Clients -> SUBSET Devices]: subscriptions of the connection
    callbacks,   \* started and not run yet: <<"connect" | "lost", client>>
    todo,        \* [Clients -> SUBSET Devices]: rest of the loop of its OnConnect
    gauge,       \* mqtt_connected
    missed,      \* HISTORY: devices whose subscription on the current connection failed
    late         \* HISTORY: the latest write of the gauge was out of date when it was made

cbVars == <<subs, callbacks, todo, gauge, missed, late>>
vars == <<sessionVars, cbVars>>

CallbacksInit ==
    /\ Init
    /\ subs = [c \in Clients |-> {}]
    /\ callbacks = {}
    /\ todo = [c \in Clients |-> {}]
    /\ gauge = FALSE
    /\ missed = {} /\ late = FALSE

-----------------------------------------------------------------------------
(* What the steps of MqttSession do here                                   *)

\* A new connection has no subscription yet; OnConnect is started.
ClientEstablished(c) ==
    /\ Established(c)
    /\ callbacks' = callbacks \cup {<<"connect", c>>}
    /\ UNCHANGED <<subs, todo, gauge, missed, late>>

ClientLost(c) ==
    /\ Lost(c)
    /\ callbacks' = callbacks \cup {<<"lost", c>>}
    /\ subs' = [subs EXCEPT ![c] = {}]
    /\ UNCHANGED <<todo, gauge, missed, late>>

\* Disconnect ends the connection without a call of OnConnectionLost.
Closes(c) ==
    /\ subs' = [subs EXCEPT ![c] = {}]
    /\ UNCHANGED <<callbacks, todo, gauge, missed, late>>

ClearsGauge ==
    /\ gauge' = FALSE /\ late' = Healthy
    /\ UNCHANGED <<subs, callbacks, todo, missed>>

\* The broker delivers to the connection that holds the subscription.
ClientMessage(c, d) ==
    /\ d \in subs[c] /\ Message(c)
    /\ UNCHANGED cbVars

LoginClient(c) ==
    /\ Login(c)
    /\ todo[c] = {} /\ \A cb \in callbacks : cb[2] # c
    /\ subs' = [subs EXCEPT ![c] = {}]
    /\ missed' = {}
    /\ UNCHANGED <<callbacks, todo, gauge, late>>

SessionStep ==
    \/ /\ SessionFailed \/ TakeRelogin \/ SessionCancelled \/ ForceDisconnect
       /\ Closes(current)
    \/ (FinishSession \/ ForcePause) /\ ClearsGauge
    \/ /\ \/ \E c \in Clients : Aborted(c)
          \/ FallSilent \/ Cancel
          \/ StartConnect \/ SessionConnected \/ NextSession \/ GiveUp
          \/ ReconnectNow \/ RequestRelogin \/ ForceReconnect \/ ForceConnect
          \/ EndReconnect \/ StopMonitor
       /\ UNCHANGED cbVars

-----------------------------------------------------------------------------
(* The callbacks                                                           *)

\* Mutant: subscribes only on the first connection.
OnConnectOnce(c) ==
    /\ <<"connect", c>> \in callbacks
    /\ callbacks' = callbacks \ {<<"connect", c>>}
    /\ gauge' = TRUE /\ late' = ~Healthy
    /\ InitStatuses
    /\ todo' = [todo EXCEPT ![c] = IF seen = "seen" THEN {} ELSE Devices]
    /\ missed' = IF c = current THEN {} ELSE missed
    /\ UNCHANGED subs

\* OnConnect of c: the gauge, the device statuses, then the loop over devices.
OnConnect(c) ==
    /\ <<"connect", c>> \in callbacks
    /\ callbacks' = callbacks \ {<<"connect", c>>}
    /\ gauge' = TRUE /\ late' = ~Healthy
    /\ InitStatuses
    /\ todo' = [todo EXCEPT ![c] = Devices]
    /\ missed' = IF c = current THEN {} ELSE missed
    /\ UNCHANGED subs

\* One iteration: SubscribeForParameters on m.mqtt(), which need not be the
\* client that was connected; an error is logged and the loop goes on.
Subscribe(c, d) ==
    /\ d \in todo[c]
    /\ todo' = [todo EXCEPT ![c] = @ \ {d}]
    /\ \/ /\ Healthy
          /\ subs' = [subs EXCEPT ![current] = @ \cup {d}]
          /\ UNCHANGED missed
       \/ /\ missed' = IF Healthy THEN missed \cup {d} ELSE missed
          /\ UNCHANGED subs
    /\ UNCHANGED <<sessionVars, callbacks, gauge, late>>

\* Mutant: the gauge is not cleared.
OnConnectionLostKeepsGauge(c) ==
    /\ <<"lost", c>> \in callbacks
    /\ callbacks' = callbacks \ {<<"lost", c>>}
    /\ UNCHANGED <<sessionVars, subs, todo, missed, gauge, late>>

OnConnectionLost(c) ==
    /\ <<"lost", c>> \in callbacks
    /\ callbacks' = callbacks \ {<<"lost", c>>}
    /\ gauge' = FALSE /\ late' = Healthy
    /\ UNCHANGED <<sessionVars, subs, todo, missed>>

CallbacksNext ==
    \/ \E c \in Clients :
          \/ ClientEstablished(c) \/ ClientLost(c) \/ LoginClient(c)
          \/ OnConnect(c) \/ OnConnectionLost(c)
          \/ \E d \in Devices : ClientMessage(c, d) \/ Subscribe(c, d)
    \/ SessionStep

CallbacksSpec == CallbacksInit /\ [][CallbacksNext]_vars

-----------------------------------------------------------------------------
(* Properties                                                              *)

CallbacksTypeOK ==
    /\ subs \in [Clients -> SUBSET Devices]
    /\ callbacks \subseteq {"connect", "lost"} \X Clients
    /\ todo \in [Clients -> SUBSET Devices]
    /\ gauge \in BOOLEAN /\ late \in BOOLEAN
    /\ missed \subseteq Devices

\* Once the callbacks are done, the connected client of the session has a
\* subscription for every device, except those whose subscription failed: no
\* interleaving of the callbacks of two clients loses one (369-379).
SubscribedUnlessFailed ==
    /\ Healthy /\ InSession
    /\ <<"connect", current>> \notin callbacks
    /\ \A c \in Clients : todo[c] = {}
    => subs[current] \cup missed = Devices

\* Every change of the connection is followed by a write of the gauge: when
\* nobody is about to write it, it is right, unless the latest write was out of
\* date when it was made (364-366, 382-385, 176-179, 492-494).
GaugeWrongOnlyByLateWrite ==
    callbacks = {} /\ mon = "idle" /\ run = "live" => late \/ (gauge <=> Healthy)

\* What the callbacks add leaves the session as MqttSession has it, so that its
\* properties hold here too.
IsSession == Spec

=============================================================================
