----------------------------- MODULE MqttSession ----------------------------
(***************************************************************************)
(* Sessions of the MQTT exporter (src/mqtt_exporter.go): Run and runSession*)
(* create one paho client after another, while the monitor goroutine       *)
(* disconnects and reconnects the current client behind their back         *)
(* (forceReconnect).  SessionCallbacks adds what the clients call.         *)
(*                                                                         *)
(* The paho client is a library.  It is modelled as the exporter relies on *)
(* it: Connect and a lost connection are retried until they succeed        *)
(* (lines 181 and 509), Disconnect ends that.  The client sleeps between   *)
(* attempts and notices a Disconnect only after the sleep; until then it   *)
(* is "disconnecting" and refuses Connect.                                 *)
(*                                                                         *)
(* OfflineMonitor has the time and the verdicts; here `silent` stands for  *)
(* "every device is silent beyond the threshold", and the backoff may let  *)
(* the monitor act at any check.                                           *)
(***************************************************************************)
EXTENDS Integers

CONSTANTS
    Clients,           \* BOUND: client objects that can exist at a time
    NoClient,          \* the nil pointer
    ReloginAfter       \* reloginAfterReconnects

ASSUME SessionAssumption ==
    /\ Clients # {}
    /\ NoClient \notin Clients
    /\ ReloginAfter \in Nat \ {0}

VARIABLES
    status,      \* [Clients -> Statuses]
    current,     \* m.client
    run,         \* where Run is
    token,       \* the token of Run's Connect: "wait" | "ok" | "error"
    relogin,     \* the relogin channel (capacity 1) holds a request
    mon,         \* where the monitor is
    captured,    \* the local `c` of forceReconnect
    fruitless,   \* fruitlessReconnects
    seen,        \* lastReceived: "never" connected, "connected", has keys: "seen"
    silent,      \* every device is silent beyond the threshold
    cancelled,   \* ctx.Done() is closed
    revived,     \* HISTORY: clients that forceReconnect connected after their session ended
    refused,     \* HISTORY: the session's client refused the Connect of forceReconnect
    mistaken     \* HISTORY: the request was made while no session was running

runVars     == <<current, run, token>>
monVars     == <<mon, captured, fruitless>>
dataVars    == <<seen, silent>>
requestVars == <<relogin, mistaken>>
history     == <<revived, refused>>
sessionVars == <<status, runVars, requestVars, monVars, dataVars, cancelled, history>>

Statuses == {"disconnected", "connecting", "connected", "reconnecting", "disconnecting"}
RunSteps == {"login", "stored", "connect", "live", "dropped", "pause", "ended"}
MonSteps == {"idle", "decided", "forcing", "dropped", "pausing", "waiting", "stopped"}

Active(c) == status[c] \in {"connecting", "connected", "reconnecting"}

\* connected() and Health(): IsConnected and IsConnectionOpen of the client.
connected == current # NoClient /\ Active(current)
Healthy == current # NoClient /\ status[current] = "connected"

InSession == run \in {"connect", "live"}
HasClient == run = "stored" \/ InSession

Init ==
    /\ status = [c \in Clients |-> "disconnected"]
    /\ current = NoClient /\ run = "login" /\ token = "wait"
    /\ relogin = FALSE /\ mistaken = FALSE
    /\ mon = "idle" /\ captured = NoClient /\ fruitless = 0
    /\ seen = "never" /\ silent = FALSE
    /\ cancelled = FALSE
    /\ revived = {} /\ refused = FALSE

-----------------------------------------------------------------------------
(* The paho client and the data                                            *)

\* Disconnect of c: an open connection is closed, attempts are told to stop.
DisconnectClient(c) ==
    status' = [status EXCEPT ![c] =
                  CASE @ = "connected" -> "disconnected"
                    [] @ \in {"connecting", "reconnecting"} -> "disconnecting"
                    [] OTHER -> @]

\* Connect of c: only a disconnected client starts connecting; for the others
\* the token is complete at once.
ConnectClient(c) ==
    status' = [status EXCEPT ![c] = IF @ = "disconnected" THEN "connecting" ELSE @]
ConnectOutcome(c) ==
    CASE status[c] = "disconnected" -> "wait"
      [] status[c] \in {"connected", "reconnecting"} -> "ok"
      [] OTHER -> "error"

\* Mutant: a token is never completed with an error.
CompleteSuccess(c, outcome) ==
    token' = IF c = current /\ token = "wait" /\ outcome = "ok" THEN outcome ELSE token

\* A pending Connect of Run on c completes.
Complete(c, outcome) ==
    token' = IF c = current /\ token = "wait" THEN outcome ELSE token

\* A connection attempt succeeds, the first or a repeated one.
Established(c) ==
    /\ status[c] \in {"connecting", "reconnecting"}
    /\ status' = [status EXCEPT ![c] = "connected"]
    /\ Complete(c, "ok")
    /\ seen' = IF seen = "never" THEN "connected" ELSE seen
    /\ UNCHANGED <<current, run, requestVars, monVars, silent, cancelled, history>>

\* The connection of c breaks.
Lost(c) ==
    /\ status[c] = "connected"
    /\ status' = [status EXCEPT ![c] = "reconnecting"]
    /\ UNCHANGED <<runVars, requestVars, monVars, dataVars, cancelled, history>>

\* The client wakes up between attempts and finds that it was disconnected:
\* a pending Connect fails.
Aborted(c) ==
    /\ status[c] = "disconnecting"
    /\ status' = [status EXCEPT ![c] = "disconnected"]
    /\ Complete(c, "error")
    /\ UNCHANGED <<current, run, requestVars, monVars, dataVars, cancelled, history>>

\* OnConnect calls initDeviceStatuses.
InitStatuses ==
    /\ seen # "never"
    /\ seen' = "seen"
    /\ UNCHANGED <<status, runVars, requestVars, monVars, silent, cancelled, history>>

\* A message of a device: markReceived.
Message(c) ==
    /\ status[c] = "connected"
    /\ seen' = "seen" /\ silent' = FALSE /\ fruitless' = 0
    /\ UNCHANGED <<status, runVars, requestVars, mon, captured, cancelled, history>>

\* The threshold passes without a message from any device.
FallSilent ==
    /\ seen = "seen" /\ ~silent
    /\ silent' = TRUE
    /\ UNCHANGED <<status, runVars, requestVars, monVars, seen, cancelled, history>>

-----------------------------------------------------------------------------
(* Run and runSession                                                      *)

RunUnchanged == UNCHANGED <<monVars, dataVars, cancelled>>

\* The new client takes the place of one that nothing refers to any more: a
\* disconnected one or, when there is none, a leftover that is then forgotten.
Unreferenced == Clients \ {current, captured}
Free(c) ==
    /\ c \in Unreferenced
    /\ status[c] = "disconnected" \/ \A u \in Unreferenced : status[u] # "disconnected"

\* login succeeds (a failure is retried) and the client is stored.
Login(c) ==
    /\ run = "login" /\ Free(c)
    /\ current' = c /\ token' = "wait" /\ run' = "stored"
    /\ status' = [status EXCEPT ![c] = "disconnected"]
    /\ revived' = revived \ {c} /\ refused' = FALSE
    /\ RunUnchanged
    /\ UNCHANGED requestVars

StartConnect ==
    /\ run = "stored"
    /\ ConnectClient(current)
    /\ token' = ConnectOutcome(current)
    /\ run' = "connect"
    /\ RunUnchanged
    /\ UNCHANGED <<current, requestVars, history>>

\* The token completes without an error: wait for the end of the session.
SessionConnected ==
    /\ run = "connect" /\ token = "ok"
    /\ run' = "live"
    /\ RunUnchanged
    /\ UNCHANGED <<status, current, token, requestVars, history>>

\* Mutant: the deferred Disconnect is missing.
EndSessionKeepsClient ==
    /\ run' = "dropped"
    /\ RunUnchanged
    /\ UNCHANGED <<status, current, token, history>>

\* The session ends, and its deferred function disconnects the client.
EndSession ==
    /\ DisconnectClient(current)
    /\ run' = "dropped"
    /\ RunUnchanged
    /\ UNCHANGED <<current, token, history>>

SessionFailed ==
    /\ run = "connect" /\ token = "error"
    /\ EndSession /\ UNCHANGED requestVars
\* Mutant: the request is seen but not taken out of the channel.
TakeReloginPeeks ==
    /\ InSession /\ relogin
    /\ EndSession /\ UNCHANGED requestVars
\* Mutant: the second select of runSession has no case for it.
TakeReloginOnlyConnecting ==
    /\ run = "connect" /\ relogin
    /\ EndSession /\ relogin' = FALSE /\ mistaken' = FALSE

TakeRelogin ==
    /\ InSession /\ relogin
    /\ EndSession /\ relogin' = FALSE /\ mistaken' = FALSE
SessionCancelled ==
    /\ InSession /\ cancelled
    /\ EndSession /\ UNCHANGED requestVars

\* The rest of the deferred function (the gauge); Run returns if ctx is
\* cancelled.
FinishSession ==
    /\ run = "dropped"
    /\ run' = IF cancelled THEN "ended" ELSE "pause"
    /\ RunUnchanged
    /\ UNCHANGED <<status, current, token, requestVars, history>>

\* After loginRetryDelay the next session begins.
NextSession ==
    /\ run = "pause"
    /\ run' = "login"
    /\ RunUnchanged
    /\ UNCHANGED <<status, current, token, requestVars, history>>

\* Cancelled while logging in or pausing.
GiveUp ==
    /\ run \in {"login", "pause"} /\ cancelled
    /\ run' = "ended"
    /\ RunUnchanged
    /\ UNCHANGED <<status, current, token, requestVars, history>>

Run ==
    \/ \E c \in Clients : Login(c)
    \/ StartConnect \/ SessionConnected \/ SessionFailed \/ TakeRelogin
    \/ SessionCancelled \/ FinishSession \/ NextSession \/ GiveUp

-----------------------------------------------------------------------------
(* monitorDeviceStatus, as far as it acts on the session                   *)

MonUnchanged == UNCHANGED <<runVars, dataVars, cancelled>>

\* Run does what it need not wait for within the 5 s of a pause, and takes a
\* request before the monitor decides again, a backoff later.
RequestTaken == ~(relogin /\ InSession)
RunSettled ==
    /\ run \notin {"stored", "dropped"}
    /\ RequestTaken
    /\ ~(token = "error" /\ run = "connect")

\* The monitor finds every device silent and a reconnect due; Run may go on
\* before the monitor acts on it.
ReconnectNow ==
    /\ mon = "idle" /\ RequestTaken
    /\ connected /\ seen = "seen" /\ silent
    /\ mon' = "decided"
    /\ MonUnchanged
    /\ UNCHANGED <<status, requestVars, captured, fruitless, history>>

\* Mutant: the count does not start over.
RequestReloginKeepsCount ==
    /\ mon = "decided" /\ mon' = "idle"
    /\ fruitless + 1 >= ReloginAfter
    /\ fruitless' = fruitless + 1
    /\ relogin' = TRUE
    /\ mistaken' = (mistaken \/ ~InSession)
    /\ MonUnchanged
    /\ UNCHANGED <<status, captured, history>>

RequestRelogin ==
    /\ mon = "decided" /\ mon' = "idle"
    /\ fruitless + 1 >= ReloginAfter
    /\ fruitless' = 0
    /\ relogin' = TRUE
    /\ mistaken' = (mistaken \/ ~InSession)
    /\ MonUnchanged
    /\ UNCHANGED <<status, captured, history>>

ForceReconnect ==
    /\ mon = "decided"
    /\ fruitless + 1 < ReloginAfter
    /\ fruitless' = fruitless + 1
    /\ mon' = "forcing"
    /\ MonUnchanged
    /\ UNCHANGED <<status, requestVars, captured, history>>

ForceDisconnect ==
    /\ mon = "forcing"
    /\ captured' = current
    /\ DisconnectClient(current)
    /\ mon' = "dropped"
    /\ MonUnchanged
    /\ UNCHANGED <<requestVars, fruitless, history>>

\* The gauge is cleared and the pause begins.
ForcePause ==
    /\ mon = "dropped"
    /\ mon' = "pausing"
    /\ MonUnchanged
    /\ UNCHANGED <<status, requestVars, captured, fruitless, history>>

\* Mutant: the client is not connected again.
ForceConnectForgets ==
    /\ mon = "pausing" /\ RunSettled
    /\ mon' = "waiting"
    /\ MonUnchanged
    /\ UNCHANGED <<status, requestVars, captured, fruitless, history>>

\* After 5 s: Connect on the client taken before, whatever became of it.
ForceConnect ==
    /\ mon = "pausing" /\ RunSettled
    /\ ConnectClient(captured)
    /\ revived' = IF captured # current \/ ~HasClient
                  THEN revived \cup {captured} ELSE revived
    /\ refused' = (refused \/ (captured = current /\ ConnectOutcome(captured) = "error"))
    /\ mon' = "waiting"
    /\ MonUnchanged
    /\ UNCHANGED <<requestVars, captured, fruitless>>

\* Mutant: waits for the connection alone, without ctx.Done() and the timeout.
EndReconnectWhenConnected ==
    /\ mon = "waiting" /\ status[captured] = "connected"
    /\ mon' = "idle" /\ captured' = NoClient
    /\ MonUnchanged
    /\ UNCHANGED <<status, requestVars, fruitless, history>>

\* The token completes, 30 s pass, or ctx is cancelled.
EndReconnect ==
    /\ mon = "waiting" \/ (mon = "pausing" /\ cancelled)
    /\ mon' = "idle" /\ captured' = NoClient
    /\ MonUnchanged
    /\ UNCHANGED <<status, requestVars, fruitless, history>>

StopMonitor ==
    /\ mon = "idle" /\ cancelled
    /\ mon' = "stopped"
    /\ MonUnchanged
    /\ UNCHANGED <<status, requestVars, captured, fruitless, history>>

Monitor ==
    \/ ReconnectNow \/ RequestRelogin \/ ForceReconnect \/ ForceDisconnect
    \/ ForcePause \/ ForceConnect \/ EndReconnect \/ StopMonitor

Cancel ==
    /\ ~cancelled /\ cancelled' = TRUE
    /\ UNCHANGED <<status, runVars, requestVars, monVars, dataVars, history>>

Next ==
    \/ \E c \in Clients : Established(c) \/ Lost(c) \/ Aborted(c) \/ Message(c)
    \/ InitStatuses \/ FallSilent
    \/ Run \/ Monitor \/ Cancel

Spec == Init /\ [][Next]_sessionVars

-----------------------------------------------------------------------------
\* Fairness.  Goroutines run, and a timer or a token that is due is seen; the
\* random choice of select does not pass over ctx.Done() for ever.  The broker
\* can be reached: if the current client tries again and again, broken off or
\* not, one attempt gets through.
EstablishedCurrent == current # NoClient /\ Established(current)

FairSpec ==
    /\ Spec
    /\ SF_sessionVars(EstablishedCurrent)
    /\ \A c \in Clients : WF_sessionVars(Aborted(c))
    /\ WF_sessionVars(Run) /\ SF_sessionVars(SessionCancelled) /\ SF_sessionVars(GiveUp)
    /\ WF_sessionVars(Monitor) /\ SF_sessionVars(StopMonitor)

-----------------------------------------------------------------------------
(* Properties                                                              *)

TypeOK ==
    /\ status \in [Clients -> Statuses]
    /\ current \in Clients \cup {NoClient}
    /\ run \in RunSteps /\ token \in {"wait", "ok", "error"}
    /\ relogin \in BOOLEAN /\ mistaken \in BOOLEAN
    /\ mon \in MonSteps /\ captured \in Clients \cup {NoClient}
    /\ fruitless \in 0 .. ReloginAfter - 1
    /\ seen \in {"never", "connected", "seen"} /\ silent \in BOOLEAN
    /\ cancelled \in BOOLEAN
    /\ revived \subseteq Clients /\ refused \in BOOLEAN

\* No session leaves its client running: a client that is connected or trying
\* to is the one of the running session, or forceReconnect connected it again
\* after the session had ended (176-179 against 492-501).
LeftoversExplained ==
    \A c \in Clients : Active(c) => (c = current /\ HasClient) \/ c \in revived

\* A request that outlives its session would end the next one at once.  None is
\* left for the next session, unless it was made when no session was running:
\* the old client was connected again behind Run's back, or the session ended
\* while the monitor was deciding (183-197, 201-213).
NoStaleRelogin ==
    run \in {"pause", "login", "stored"} /\ relogin => cancelled \/ mistaken

\* Run never waits for a token that nothing will complete: the client of a
\* pending Connect still tries, or was told to stop and has not noticed yet,
\* whatever forceReconnect did to it meanwhile (181-192, 491-501).
WaitIsForSomething ==
    run = "connect" /\ token = "wait" =>
        status[current] \in {"connecting", "disconnecting"}

\* A request for a re-login is answered: Run leaves the session (183-197).
RequestAnswered == relogin ~> (run \in {"dropped", "ended"} \/ ~relogin)

\* Once ctx is cancelled, Run returns and the monitor stops, wherever they are.
AllStop == cancelled ~> (run = "ended" /\ mon = "stopped")

\* With a broker that can be reached the current client is connected again and
\* again, whatever the monitor does to it, unless it refused the Connect of
\* forceReconnect because it had not noticed the Disconnect yet (137-159,
\* 491-511).
KeepsConnectedUnlessRefused == []<>(cancelled \/ Healthy \/ refused)

\* "Run keeps devices reporting until ctx is cancelled" (137): the same without
\* the exception.
KeepsConnected == []<>(cancelled \/ Healthy)

=============================================================================
