---------------------------- MODULE SessionProofs ---------------------------
(* Which clients can be alive, for any number of client objects: a session  *)
(* leaves no client behind but one that forceReconnect connected again.     *)
(* LeftoversExplained is inductive given the types; the callbacks do not    *)
(* change it, because every step of theirs is a step of the session or      *)
(* leaves the session alone.                                                *)
(* The second invariant, TokenInv, is about the Connect that Run waits for  *)
(* and the request that would end the wait: what the client of a session    *)
(* may do in each step of Run and of the monitor.  The third, GaugeInv,     *)
(* adds the callbacks.                                                      *)
EXTENDS SessionCallbacks, TLAPS

\* The client pointers that the monitor works with are set.
PointersSet ==
    /\ mon \in {"decided", "forcing"} => current \in Clients
    /\ mon \in {"dropped", "pausing"} => captured \in Clients

SInv == TypeOK /\ PointersSet /\ LeftoversExplained

\* Run has a client from its first login on, and has just made it when it is
\* stored: nobody connects it before Run does.
StoredFresh ==
    /\ run \in {"stored", "connect", "live", "dropped"} => current \in Clients
    /\ run = "stored" => status[current] = "disconnected"

\* A Connect that failed has left its client down, until Run notices.
FailedIsDown ==
    run = "connect" /\ token = "error" => status[current] = "disconnected"

\* The monitor decides about a client that tries or is connected; if Run has
\* gone on to another session meanwhile, so does the client of that one.
DecidedIsAlive == mon = "decided" /\ run = "connect" => Active(current)

\* A request that was made in a session finds Run in it, and keeps the monitor
\* from disconnecting the client until Run takes it.
RequestInSession ==
    relogin /\ ~mistaken /\ ~cancelled =>
        /\ InSession /\ mon = "idle"
        /\ run = "connect" => Active(current)

TokenInv ==
    /\ StoredFresh /\ WaitIsForSomething /\ FailedIsDown /\ DecidedIsAlive
    /\ RequestInSession

\* No client is alive at the start.
LEMMA InitSInv == Init => SInv
<1> SUFFICES ASSUME Init PROVE SInv
  OBVIOUS
<1>1. /\ relogin \in BOOLEAN /\ mistaken \in BOOLEAN /\ silent \in BOOLEAN
      /\ cancelled \in BOOLEAN /\ refused \in BOOLEAN
  BY ZenonT(20) DEF Init
<1>2. /\ status \in [Clients -> Statuses]
      /\ \A c \in Clients : ~Active(c)
  BY DEF Init, Statuses, Active
<1>3. /\ current = NoClient /\ captured = NoClient
      /\ run = "login" /\ token = "wait" /\ mon = "idle" /\ seen = "never"
      /\ fruitless \in 0 .. ReloginAfter - 1 /\ revived = {}
  BY SessionAssumption DEF Init
<1>4. TypeOK
  BY <1>1, <1>2, <1>3 DEF TypeOK, RunSteps, MonSteps
<1> QED
  BY <1>2, <1>3, <1>4 DEF SInv, PointersSet, LeftoversExplained

\* What Disconnect and Connect do to a client, whichever state it is in.
LEMMA DisconnectFacts ==
    ASSUME TypeOK, NEW c, DisconnectClient(c)
    PROVE  /\ status' \in [Clients -> Statuses]
           /\ \A e \in Clients : Active(e)' => e # c /\ Active(e)
  BY DEF TypeOK, DisconnectClient, Active, Statuses

\* Connecting a client makes no other one active.
LEMMA ConnectFacts ==
    ASSUME TypeOK, NEW c, ConnectClient(c)
    PROVE  /\ status' \in [Clients -> Statuses]
           /\ \A e \in Clients : Active(e)' => e = c \/ Active(e)
  BY DEF TypeOK, ConnectClient, Active, Statuses

\* What the clients and the devices do: a client that was not alive stays so.
LEMMA ClientsKeepSInv ==
    ASSUME SInv,
           \/ \E c \in Clients : Established(c) \/ Lost(c) \/ Aborted(c) \/ Message(c)
           \/ InitStatuses \/ FallSilent \/ Cancel \/ UNCHANGED sessionVars
    PROVE  SInv'
<1> USE SessionAssumption DEF SInv, PointersSet, runVars, requestVars, monVars, dataVars, history
<1>1. ASSUME NEW c \in Clients, Established(c) PROVE SInv'
  <2>1. /\ status' \in [Clients -> Statuses]
        /\ \A e \in Clients : Active(e)' => Active(e)
    BY <1>1 DEF Established, TypeOK, Active, Statuses
  <2>2. TypeOK'
    BY <1>1, <2>1 DEF Established, Complete, TypeOK
  <2> QED
    BY <1>1, <2>1, <2>2 DEF Established, LeftoversExplained, HasClient, InSession
<1>2. ASSUME NEW c \in Clients, Lost(c) PROVE SInv'
  BY <1>2 DEF Lost, TypeOK, LeftoversExplained, Active, Statuses, HasClient, InSession
<1>3. ASSUME NEW c \in Clients, Aborted(c) PROVE SInv'
  BY <1>3 DEF Aborted, Complete, TypeOK, LeftoversExplained, Active, Statuses,
     HasClient, InSession
<1>4. ASSUME NEW c \in Clients, Message(c) PROVE SInv'
  <2>1. /\ UNCHANGED <<status, current, run, token, relogin, mistaken, mon, captured,
                       cancelled, revived, refused>>
        /\ seen' = "seen" /\ fruitless' = 0
    BY <1>4 DEF Message
  <2>2. silent' \in BOOLEAN
    BY <1>4, Zenon DEF Message
  <2>3. fruitless' \in 0 .. ReloginAfter - 1
    BY <2>1
  <2>4. TypeOK'
    BY <2>1, <2>2, <2>3 DEF TypeOK
  <2> QED
    BY <2>1, <2>4 DEF LeftoversExplained, Active, HasClient, InSession
<1>5. CASE InitStatuses
  BY <1>5 DEF InitStatuses, TypeOK, LeftoversExplained, Active, HasClient, InSession
<1>6. CASE FallSilent
  BY <1>6 DEF FallSilent, TypeOK, LeftoversExplained, Active, HasClient, InSession
<1>7. CASE Cancel
  BY <1>7 DEF Cancel, TypeOK, LeftoversExplained, Active, HasClient, InSession
<1>8. CASE UNCHANGED sessionVars
  BY <1>8 DEF sessionVars, TypeOK, LeftoversExplained, Active, HasClient, InSession
<1> QED
  BY <1>1, <1>2, <1>3, <1>4, <1>5, <1>6, <1>7, <1>8, Zenon

\* Run replaces its client only when the old one is not alive, or is explained.
LEMMA RunKeepsSInv ==
    ASSUME SInv, Run PROVE SInv'
<1> USE SessionAssumption
    DEF SInv, PointersSet, runVars, requestVars, monVars, dataVars, history, RunUnchanged, RunSteps,
        HasClient, InSession
<1>1. ASSUME NEW c \in Clients, Login(c) PROVE SInv'
  BY <1>1 DEF Login, TypeOK, LeftoversExplained, Active, Statuses
<1>2. CASE StartConnect
  <2>1. ConnectClient(current) /\ UNCHANGED <<current, revived>> /\ run' = "connect"
    BY <1>2 DEF StartConnect
  <2>2. TypeOK'
    BY <1>2, <2>1, ConnectFacts DEF StartConnect, ConnectOutcome, TypeOK
  <2> QED
    BY <1>2, <2>1, <2>2, ConnectFacts DEF StartConnect, LeftoversExplained
<1>3. CASE SessionConnected \/ FinishSession \/ NextSession \/ GiveUp
  BY <1>3 DEF SessionConnected, FinishSession, NextSession, GiveUp, TypeOK,
     LeftoversExplained, Active
<1>4. CASE SessionFailed \/ TakeRelogin \/ SessionCancelled
  <2>1. EndSession /\ relogin' \in BOOLEAN /\ mistaken' \in BOOLEAN
    BY <1>4 DEF SessionFailed, TakeRelogin, SessionCancelled, TypeOK
  <2>2. TypeOK'
    BY <2>1, DisconnectFacts DEF EndSession, TypeOK
  <2> QED
    BY <2>1, <2>2, DisconnectFacts DEF EndSession, LeftoversExplained
<1> QED
  BY <1>1, <1>2, <1>3, <1>4 DEF Run

\* The monitor connects a client that is not of the running session only in
\* forceReconnect, which is recorded.
LEMMA MonitorKeepsSInv ==
    ASSUME SInv, Monitor PROVE SInv'
<1> USE SessionAssumption
    DEF SInv, PointersSet, runVars, requestVars, monVars, dataVars, history, MonUnchanged, MonSteps
<1>1. CASE ReconnectNow \/ ForceReconnect
  BY <1>1 DEF ReconnectNow, connected, ForceReconnect, TypeOK, LeftoversExplained,
     Active, HasClient, InSession
<1>2. CASE RequestRelogin
  BY <1>2 DEF RequestRelogin, TypeOK, LeftoversExplained, Active, HasClient, InSession
<1>3. CASE ForceDisconnect
  <2>1. DisconnectClient(current) /\ UNCHANGED <<current, run, revived>>
    BY <1>3 DEF ForceDisconnect
  <2>2. TypeOK'
    BY <1>3, <2>1, DisconnectFacts DEF ForceDisconnect, TypeOK
  <2> QED
    BY <1>3, <2>1, <2>2, DisconnectFacts
       DEF ForceDisconnect, LeftoversExplained, HasClient, InSession
<1>4. CASE ForceConnect
  <2>1. /\ ConnectClient(captured) /\ UNCHANGED <<current, run>>
        /\ revived' = IF captured # current \/ ~HasClient
                      THEN revived \cup {captured} ELSE revived
    BY <1>4 DEF ForceConnect
  <2>2. mon' = "waiting" /\ status' \in [Clients -> Statuses]
    BY <1>4, <2>1, ConnectFacts DEF ForceConnect
  <2>3. LeftoversExplained'
    BY <2>1, ConnectFacts DEF LeftoversExplained, HasClient, InSession
  <2> QED
    BY <1>4, <2>1, <2>2, <2>3 DEF ForceConnect, TypeOK
<1>5. CASE ForcePause \/ EndReconnect \/ StopMonitor
  BY <1>5 DEF ForcePause, EndReconnect, StopMonitor, TypeOK, LeftoversExplained,
     Active, HasClient, InSession
<1> QED
  BY <1>1, <1>2, <1>3, <1>4, <1>5 DEF Monitor

\* The strengthened invariant holds of every behaviour of the session.
THEOREM SessionInvariant == Spec => []SInv
<1>1. SInv /\ [Next]_sessionVars => SInv'
  BY ClientsKeepSInv, RunKeepsSInv, MonitorKeepsSInv DEF Next
<1> QED
  BY <1>1, InitSInv, PTL DEF Spec

\* Every variable of the session stays in its range; the count of fruitless
\* reconnects stays below the one that asks for a new login (475-486).
THEOREM SessionTypeOK == Spec => []TypeOK
  BY SessionInvariant, PTL DEF SInv

\* A client that is alive is the one of the running session or was connected
\* again by forceReconnect after its session ended (176-179, 488-511).
THEOREM SessionLeftovers == Spec => []LeftoversExplained
  BY SessionInvariant, PTL DEF SInv

-----------------------------------------------------------------------------
(* The Connect that Run waits for, and the request                         *)

\* At first Run waits for nothing.
LEMMA InitTokenInv == Init => TokenInv
  BY DEF Init, TokenInv, StoredFresh, WaitIsForSomething, FailedIsDown,
     DecidedIsAlive, RequestInSession

\* The clients act for themselves: only an attempt of the current client
\* succeeds or is given up while Run waits for it.
LEMMA ClientsKeepTokenInv ==
    ASSUME SInv, TokenInv,
           \/ \E c \in Clients : Established(c) \/ Lost(c) \/ Aborted(c) \/ Message(c)
           \/ InitStatuses \/ FallSilent \/ Cancel \/ UNCHANGED sessionVars
    PROVE  TokenInv'
<1> USE DEF TokenInv, StoredFresh, WaitIsForSomething, FailedIsDown, DecidedIsAlive,
            RequestInSession, InSession, Active
<1>1. status \in [Clients -> Statuses]
  BY DEF SInv, TypeOK
<1>2. ASSUME NEW c \in Clients, Established(c) PROVE TokenInv'
  <2>1. UNCHANGED <<current, run, relogin, mistaken, cancelled, mon>>
    BY <1>2 DEF Established, requestVars, monVars
  <2> QED
    BY <1>1, <1>2, <2>1 DEF Established, Complete
<1>3. ASSUME NEW c \in Clients, Lost(c) PROVE TokenInv'
  <2>1. UNCHANGED <<current, run, token, relogin, mistaken, cancelled, mon>>
    BY <1>3 DEF Lost, runVars, requestVars, monVars
  <2> QED
    BY <1>1, <1>3, <2>1 DEF Lost
<1>4. ASSUME NEW c \in Clients, Aborted(c) PROVE TokenInv'
  <2>1. UNCHANGED <<current, run, relogin, mistaken, cancelled, mon>>
    BY <1>4 DEF Aborted, requestVars, monVars
  <2> QED
    BY <1>1, <1>4, <2>1 DEF Aborted, Complete
<1>5. CASE \/ \E c \in Clients : Message(c)
           \/ InitStatuses \/ FallSilent \/ Cancel \/ UNCHANGED sessionVars
  <2>1. /\ UNCHANGED <<status, current, run, token, relogin, mistaken, mon>>
        /\ cancelled => cancelled'
    BY <1>5 DEF Message, InitStatuses, FallSilent, Cancel, sessionVars, runVars,
       requestVars, monVars
  <2> QED
    BY <2>1
<1> QED
  BY <1>2, <1>3, <1>4, <1>5

\* Run leaves a session because of a failed Connect only when nobody asked it
\* to, because of a request only by taking it.
LEMMA RunKeepsTokenInv ==
    ASSUME SInv, TokenInv, Run PROVE TokenInv'
<1> USE DEF TokenInv, StoredFresh, WaitIsForSomething, FailedIsDown, DecidedIsAlive,
            RequestInSession, InSession, Active, RunUnchanged, monVars, requestVars
<1>1. /\ status \in [Clients -> Statuses] /\ NoClient \notin Clients
      /\ relogin \in BOOLEAN /\ mistaken \in BOOLEAN /\ cancelled \in BOOLEAN
  BY SessionAssumption DEF SInv, TypeOK
<1>2. ASSUME NEW c \in Clients, Login(c) PROVE TokenInv'
  BY <1>1, <1>2 DEF Login
<1>3. CASE StartConnect
  BY <1>1, <1>3 DEF StartConnect, ConnectClient, ConnectOutcome
<1>4. CASE SessionConnected \/ FinishSession \/ NextSession \/ GiveUp
  BY <1>4 DEF SessionConnected, FinishSession, NextSession, GiveUp
<1>5. CASE SessionFailed \/ TakeRelogin \/ SessionCancelled
  <2>1. ~(relogin' /\ ~mistaken' /\ ~cancelled')
    BY <1>5 DEF SessionFailed, TakeRelogin, SessionCancelled, EndSession
  <2>2. run' = "dropped" /\ current' = current /\ current \in Clients
    BY <1>5 DEF SessionFailed, TakeRelogin, SessionCancelled, EndSession
  <2> QED
    BY <2>1, <2>2
<1> QED
  BY <1>2, <1>3, <1>4, <1>5 DEF Run

\* The monitor disconnects a client that still tries, which Run then learns
\* from the token; it connects one again only when Run has noticed.
LEMMA MonitorKeepsTokenInv ==
    ASSUME SInv, TokenInv, Monitor PROVE TokenInv'
<1> USE DEF TokenInv, StoredFresh, WaitIsForSomething, FailedIsDown, DecidedIsAlive,
            RequestInSession, InSession, Active, MonUnchanged, runVars, requestVars
<1>1. status \in [Clients -> Statuses] /\ relogin \in BOOLEAN /\ mistaken \in BOOLEAN
  BY DEF SInv, TypeOK
<1>2. CASE ReconnectNow
  BY <1>2 DEF ReconnectNow, RequestTaken, connected
<1>3. CASE RequestRelogin
  BY <1>3 DEF RequestRelogin
<1>4. CASE ForceReconnect \/ ForcePause \/ EndReconnect \/ StopMonitor
  BY <1>4 DEF ForceReconnect, ForcePause, EndReconnect, StopMonitor
<1>5. CASE ForceDisconnect
  BY <1>1, <1>5 DEF ForceDisconnect, DisconnectClient
<1>6. CASE ForceConnect
  BY <1>1, <1>6 DEF ForceConnect, ConnectClient, RunSettled
<1> QED
  BY <1>2, <1>3, <1>4, <1>5, <1>6 DEF Monitor

\* What is known of the token that Run waits for, at all times.
LEMMA TokenInvariant == Spec => []TokenInv
<1>1. SInv /\ TokenInv /\ [Next]_sessionVars => TokenInv'
  BY ClientsKeepTokenInv, RunKeepsTokenInv, MonitorKeepsTokenInv DEF Next
<1> QED
  BY <1>1, InitTokenInv, SessionInvariant, PTL DEF Spec

\* The token that Run waits for is one that will be completed: its client is
\* still trying, or about to notice that it was disconnected (181-192, 491-501).
THEOREM SessionWait == Spec => []WaitIsForSomething
  BY TokenInvariant, PTL DEF TokenInv

\* A request for a re-login does not reach the session after the one it was made
\* in, unless it was made between sessions (183-197, 201-213).
THEOREM SessionRelogin == Spec => []NoStaleRelogin
<1>1. TokenInv => NoStaleRelogin
  BY DEF TokenInv, RequestInSession, InSession, NoStaleRelogin
<1> QED
  BY <1>1, TokenInvariant, PTL

-----------------------------------------------------------------------------
\* The callbacks touch the session only through the steps it has (364-385).
THEOREM CallbacksImplementSession == CallbacksSpec => IsSession
<1>1. CallbacksInit => Init
  BY DEF CallbacksInit
<1>2. [CallbacksNext]_vars => [Next]_sessionVars
  <2> SUFFICES ASSUME [CallbacksNext]_vars PROVE [Next]_sessionVars
    OBVIOUS
  <2>1. ASSUME NEW c \in Clients,
               \/ ClientEstablished(c) \/ ClientLost(c) \/ LoginClient(c)
               \/ OnConnect(c) \/ \E d \in Devices : ClientMessage(c, d)
        PROVE  Next
    BY <2>1 DEF ClientEstablished, ClientLost, LoginClient, OnConnect,
       ClientMessage, Next, Run
  <2>2. ASSUME NEW c \in Clients,
               OnConnectionLost(c) \/ \E d \in Devices : Subscribe(c, d)
        PROVE  UNCHANGED sessionVars
    BY <2>2 DEF OnConnectionLost, Subscribe
  <2>3. CASE SessionStep
    BY <2>3 DEF SessionStep, Next, Run, Monitor
  <2>4. CASE UNCHANGED vars
    BY <2>4 DEF vars
  <2> QED
    BY <2>1, <2>2, <2>3, <2>4 DEF CallbacksNext
<1> QED
  BY <1>1, <1>2, PTL DEF CallbacksSpec, IsSession, Spec

\* With the callbacks running, no session leaves a client alive unexplained
\* (176-179, 364-385, 488-511).
THEOREM CallbacksLeftovers == CallbacksSpec => []LeftoversExplained
  BY CallbacksImplementSession, SessionLeftovers DEF IsSession

\* The same for the Connect and the request (181-213, 364-385).
THEOREM CallbacksWait == CallbacksSpec => [](WaitIsForSomething /\ NoStaleRelogin)
  BY CallbacksImplementSession, SessionWait, SessionRelogin, PTL DEF IsSession

-----------------------------------------------------------------------------
(* Subscriptions and the gauge                                             *)

\* While the client of the session is connected, a device has its subscription,
\* or was refused it, or is still to come in the loop of some OnConnect, which
\* may be that of another client.
SubsInv ==
    Healthy /\ InSession /\ <<"connect", current>> \notin callbacks =>
        \A d \in Devices :
            d \in subs[current] \/ d \in missed \/ \E c \in Clients : d \in todo[c]

\* From the moment the Connect of the session succeeded, the gauge is right when
\* nobody is about to write it, but for a late write.
GaugeInv ==
    /\ callbacks = {} /\ mon # "dropped"
    /\ run = "live" \/ (run = "connect" /\ token = "ok")
    => late \/ (gauge <=> Healthy)

\* At first nothing is subscribed and the gauge is down.
LEMMA CallbacksInitInv == CallbacksInit => CallbacksTypeOK /\ SubsInv /\ GaugeInv
<1> SUFFICES ASSUME CallbacksInit PROVE CallbacksTypeOK /\ SubsInv /\ GaugeInv
  OBVIOUS
<1>1. gauge \in BOOLEAN /\ late \in BOOLEAN
  BY ZenonT(20) DEF CallbacksInit
<1>2. CallbacksTypeOK
  BY <1>1 DEF CallbacksInit, CallbacksTypeOK
<1>3. run = "login"
  BY DEF CallbacksInit, Init
<1> QED
  BY <1>2, <1>3 DEF SubsInv, GaugeInv, InSession

\* The steps keep what the callbacks work with in its range.
LEMMA CallbacksNextType ==
    SInv /\ CallbacksTypeOK /\ [CallbacksNext]_vars => CallbacksTypeOK'
<1> SUFFICES ASSUME SInv, CallbacksTypeOK, [CallbacksNext]_vars PROVE CallbacksTypeOK'
  OBVIOUS
<1> USE DEF CallbacksTypeOK
<1>1. ASSUME NEW c \in Clients, ClientEstablished(c) \/ ClientLost(c) \/ LoginClient(c)
      PROVE  CallbacksTypeOK'
  BY <1>1 DEF ClientEstablished, ClientLost, LoginClient
<1>2. ASSUME NEW c \in Clients, OnConnect(c) \/ OnConnectionLost(c)
      PROVE  CallbacksTypeOK'
  <2>1. gauge' \in BOOLEAN /\ late' \in BOOLEAN
    BY <1>2, ZenonT(20) DEF OnConnect, OnConnectionLost, Healthy
  <2>2. /\ callbacks' \subseteq callbacks /\ subs' = subs
        /\ todo' = todo \/ todo' = [todo EXCEPT ![c] = Devices]
        /\ missed' \subseteq missed
    BY <1>2 DEF OnConnect, OnConnectionLost
  <2> QED
    BY <2>1, <2>2
<1>3. ASSUME NEW c \in Clients, NEW d \in Devices, ClientMessage(c, d)
      PROVE  CallbacksTypeOK'
  BY <1>3 DEF ClientMessage, cbVars
<1>4. ASSUME NEW c \in Clients, NEW d \in Devices, Subscribe(c, d)
      PROVE  CallbacksTypeOK'
  BY <1>4 DEF Subscribe
<1>5. CASE SessionStep
  <2>1. CASE Closes(current)
    BY <2>1 DEF Closes
  <2>2. CASE ClearsGauge
    <3>1. gauge' \in BOOLEAN /\ late' \in BOOLEAN
      BY <2>2, ZenonT(20) DEF ClearsGauge, Healthy
    <3> QED
      BY <2>2, <3>1 DEF ClearsGauge
  <2>3. CASE UNCHANGED cbVars
    BY <2>3 DEF cbVars
  <2> QED
    BY <1>5, <2>1, <2>2, <2>3 DEF SessionStep
<1>6. CASE UNCHANGED vars
  BY <1>6 DEF vars, cbVars
<1> QED
  BY <1>1, <1>2, <1>3, <1>4, <1>5, <1>6 DEF CallbacksNext

\* An OnConnect that is still to come, or one that is under way, will subscribe
\* for what the connection lacks.
LEMMA NextSubsInv ==
    SInv /\ TokenInv /\ CallbacksTypeOK /\ SubsInv /\ [CallbacksNext]_vars => SubsInv'
<1> SUFFICES ASSUME SInv, TokenInv, CallbacksTypeOK, SubsInv, [CallbacksNext]_vars
             PROVE  SubsInv'
  OBVIOUS
<1>0. /\ status \in [Clients -> Statuses] /\ NoClient \notin Clients
      /\ current \in Clients \cup {NoClient}
      /\ run = "stored" => current \in Clients /\ status[current] = "disconnected"
      /\ subs \in [Clients -> SUBSET Devices] /\ todo \in [Clients -> SUBSET Devices]
  BY SessionAssumption DEF SInv, TypeOK, TokenInv, StoredFresh, CallbacksTypeOK
<1>1. ASSUME NEW c \in Clients, ClientEstablished(c) PROVE SubsInv'
  BY <1>0, <1>1 DEF ClientEstablished, Established, SubsInv, Healthy, InSession
<1>2. ASSUME NEW c \in Clients, ClientLost(c) PROVE SubsInv'
  BY <1>0, <1>2 DEF ClientLost, Lost, runVars, SubsInv, Healthy, InSession
<1>3. ASSUME NEW c \in Clients, LoginClient(c) PROVE SubsInv'
  BY <1>3 DEF LoginClient, Login, SubsInv, InSession
<1>4. ASSUME NEW c \in Clients, OnConnect(c) PROVE SubsInv'
  <2>1. /\ UNCHANGED <<status, current, run, subs>>
        /\ todo' = [todo EXCEPT ![c] = Devices]
        /\ callbacks' = callbacks \ {<<"connect", c>>}
        /\ missed' = IF c = current THEN {} ELSE missed
    BY <1>4 DEF OnConnect, InitStatuses, runVars
  <2> QED
    BY <1>0, <2>1 DEF SubsInv, Healthy, InSession
<1>5. ASSUME NEW c \in Clients, OnConnectionLost(c) PROVE SubsInv'
  BY <1>5 DEF OnConnectionLost, sessionVars, runVars, SubsInv, Healthy, InSession
<1>6. ASSUME NEW c \in Clients, NEW d \in Devices, Subscribe(c, d) PROVE SubsInv'
  <2>1. /\ UNCHANGED <<status, current, run, callbacks>>
        /\ todo' = [todo EXCEPT ![c] = @ \ {d}]
        /\ Healthy => \/ subs' = [subs EXCEPT ![current] = @ \cup {d}] /\ missed' = missed
                      \/ missed' = missed \cup {d} /\ subs' = subs
    BY <1>6 DEF Subscribe, sessionVars, runVars
  <2>2. \A e \in Devices, b \in Clients : e \in todo[b] => e \in todo'[b] \/ e = d
    BY <1>0, <2>1
  <2>3. Healthy => \A e \in Devices :
           (e = d \/ e \in subs[current] \/ e \in missed)
           => e \in subs'[current] \/ e \in missed'
    BY <1>0, <2>1 DEF Healthy
  <2> QED
    BY <2>1, <2>2, <2>3 DEF SubsInv, Healthy, InSession
<1>7. CASE /\ SessionFailed \/ TakeRelogin \/ SessionCancelled \/ ForceDisconnect
           /\ Closes(current)
  <2>1. CASE ForceDisconnect
    <3>1. DisconnectClient(current) /\ current' = current
      BY <2>1 DEF ForceDisconnect, MonUnchanged, runVars
    <3>2. ~Healthy'
      BY <1>0, <3>1 DEF DisconnectClient, Healthy
    <3> QED
      BY <3>2 DEF SubsInv
  <2>2. CASE SessionFailed \/ TakeRelogin \/ SessionCancelled
    BY <2>2 DEF SessionFailed, TakeRelogin, SessionCancelled, EndSession, SubsInv, InSession
  <2> QED
    BY <1>7, <2>1, <2>2
<1>8. CASE FinishSession \/ NextSession \/ GiveUp
  BY <1>8 DEF FinishSession, NextSession, GiveUp, SubsInv, InSession
<1>9. CASE StartConnect
  <2>1. ~Healthy'
    BY <1>0, <1>9 DEF StartConnect, ConnectClient, Healthy
  <2> QED
    BY <2>1 DEF SubsInv
<1>10. ASSUME /\ Healthy' => Healthy /\ current' = current
              /\ InSession' => InSession
              /\ UNCHANGED <<subs, callbacks, todo, missed>>
       PROVE  SubsInv'
  BY <1>10 DEF SubsInv
<1>11. CASE ForcePause /\ ClearsGauge
  BY <1>10, <1>11 DEF ForcePause, ClearsGauge, MonUnchanged, runVars, Healthy, InSession
<1>12. CASE /\ \/ \E c \in Clients : Aborted(c) \/ Message(c)
               \/ FallSilent \/ Cancel \/ SessionConnected
               \/ ReconnectNow \/ RequestRelogin \/ ForceReconnect \/ ForceConnect
               \/ EndReconnect \/ StopMonitor \/ UNCHANGED sessionVars
            /\ UNCHANGED cbVars
  <2>1. (InSession' => InSession) /\ current' = current
    BY <1>12 DEF Aborted, Message, FallSilent, Cancel, SessionConnected, ReconnectNow,
       RequestRelogin, ForceReconnect, ForceConnect, EndReconnect, StopMonitor,
       RunUnchanged, MonUnchanged, runVars, sessionVars, InSession
  <2>2. Healthy' => Healthy
    <3>1. CASE \E c \in Clients : Aborted(c)
      BY <1>0, <2>1, <3>1 DEF Aborted, Healthy
    <3>2. CASE ForceConnect
      BY <1>0, <2>1, <3>2 DEF ForceConnect, ConnectClient, Healthy
    <3>3. CASE UNCHANGED status
      BY <2>1, <3>3 DEF Healthy
    <3> QED
      BY <1>12, <3>1, <3>2, <3>3 DEF Message, FallSilent, Cancel, SessionConnected,
         ReconnectNow, RequestRelogin, ForceReconnect, EndReconnect, StopMonitor,
         sessionVars
  <2> QED
    BY <1>10, <1>12, <2>1, <2>2 DEF cbVars
<1> QED
  BY <1>1, <1>2, <1>3, <1>4, <1>5, <1>6, <1>7, <1>8, <1>9, <1>11, <1>12
     DEF CallbacksNext, SessionStep, ClientMessage, vars

\* Who is healthy changes only with a callback to follow, with a step that the
\* gauge is cleared after, or with the client.
LEMMA NextGaugeInv ==
    SInv /\ TokenInv /\ GaugeInv /\ [CallbacksNext]_vars => GaugeInv'
<1> SUFFICES ASSUME SInv, TokenInv, GaugeInv, [CallbacksNext]_vars PROVE GaugeInv'
  OBVIOUS
<1>0. /\ status \in [Clients -> Statuses]
      /\ run = "stored" => status[current] = "disconnected"
  BY DEF SInv, TypeOK, TokenInv, StoredFresh
<1>1. ASSUME NEW c \in Clients, ClientEstablished(c) \/ ClientLost(c) PROVE GaugeInv'
  BY <1>1 DEF ClientEstablished, ClientLost, GaugeInv
<1>2. ASSUME NEW c \in Clients, OnConnect(c) \/ OnConnectionLost(c) PROVE GaugeInv'
  <2>1. UNCHANGED <<status, current>>
    BY <1>2 DEF OnConnect, InitStatuses, OnConnectionLost, sessionVars, runVars
  <2>2. \/ gauge' = TRUE /\ late' = ~Healthy
        \/ gauge' = FALSE /\ late' = Healthy
    BY <1>2 DEF OnConnect, OnConnectionLost
  <2> QED
    BY <2>1, <2>2 DEF GaugeInv, Healthy
<1>3. CASE ForcePause /\ ClearsGauge
  BY <1>3 DEF ForcePause, ClearsGauge, MonUnchanged, runVars, GaugeInv, Healthy
<1>4. CASE SessionFailed \/ TakeRelogin \/ SessionCancelled \/ ForceDisconnect
  BY <1>4 DEF SessionFailed, TakeRelogin, SessionCancelled, EndSession,
     ForceDisconnect, GaugeInv
<1>5. CASE (\E c \in Clients : Login(c)) \/ FinishSession \/ NextSession \/ GiveUp
  BY <1>5 DEF Login, FinishSession, NextSession, GiveUp, GaugeInv
<1>6. CASE StartConnect
  BY <1>0, <1>6 DEF StartConnect, ConnectOutcome, GaugeInv
<1>7. ASSUME /\ Healthy' = Healthy /\ UNCHANGED <<callbacks, gauge, late>>
             /\ mon = "dropped" => mon' = "dropped"
             /\ run' = "live" \/ (run' = "connect" /\ token' = "ok")
                => run = "live" \/ (run = "connect" /\ token = "ok")
      PROVE  GaugeInv'
  BY <1>7 DEF GaugeInv
<1>8. ASSUME NEW c \in Clients, Aborted(c), UNCHANGED cbVars PROVE GaugeInv'
  <2>1. Healthy' = Healthy
    BY <1>0, <1>8 DEF Aborted, Healthy
  <2> QED
    BY <1>7, <1>8, <2>1 DEF Aborted, Complete, monVars, cbVars
<1>9. CASE ForceConnect /\ UNCHANGED cbVars
  <2>1. Healthy' = Healthy
    BY <1>0, <1>9 DEF ForceConnect, ConnectClient, MonUnchanged, runVars, Healthy
  <2> QED
    BY <1>7, <1>9, <2>1 DEF ForceConnect, MonUnchanged, runVars, cbVars
<1>10. CASE /\ \/ \E c \in Clients : Message(c)
               \/ FallSilent \/ Cancel \/ SessionConnected \/ ReconnectNow
               \/ RequestRelogin \/ ForceReconnect \/ EndReconnect \/ StopMonitor
               \/ UNCHANGED sessionVars
            /\ UNCHANGED <<callbacks, gauge, late>>
  <2>1. UNCHANGED <<status, current>> /\ (mon = "dropped" => mon' = "dropped")
    BY <1>10 DEF Message, FallSilent, Cancel, SessionConnected, ReconnectNow,
       RequestRelogin, ForceReconnect, EndReconnect, StopMonitor, RunUnchanged,
       MonUnchanged, runVars, monVars, sessionVars
  <2>2. run' = "live" \/ (run' = "connect" /\ token' = "ok")
        => run = "live" \/ (run = "connect" /\ token = "ok")
    BY <1>10 DEF Message, FallSilent, Cancel, SessionConnected, ReconnectNow,
       RequestRelogin, ForceReconnect, EndReconnect, StopMonitor, MonUnchanged,
       runVars, sessionVars
  <2> QED
    BY <1>7, <1>10, <2>1, <2>2 DEF Healthy
<1>11. ASSUME NEW c \in Clients, NEW d \in Devices, ClientMessage(c, d) \/ Subscribe(c, d)
       PROVE  GaugeInv'
  BY <1>10, <1>11 DEF ClientMessage, Subscribe, cbVars
<1>12. CASE SessionStep
  BY <1>3, <1>4, <1>5, <1>6, <1>8, <1>9, <1>10, <1>12 DEF SessionStep, cbVars
<1>13. CASE UNCHANGED vars
  BY <1>10, <1>13 DEF vars, cbVars
<1> QED
  BY <1>1, <1>2, <1>5, <1>11, <1>12, <1>13 DEF CallbacksNext, LoginClient

\* The invariant of the session with its callbacks.
LEMMA CallbacksInvariant ==
    CallbacksSpec => [](SInv /\ TokenInv /\ CallbacksTypeOK /\ SubsInv /\ GaugeInv)
<1>1. /\ SInv /\ TokenInv /\ CallbacksTypeOK /\ SubsInv /\ GaugeInv
      /\ [CallbacksNext]_vars
      => (CallbacksTypeOK /\ SubsInv /\ GaugeInv)'
  BY CallbacksNextType, NextSubsInv, NextGaugeInv
<1>2. CallbacksSpec => [](SInv /\ TokenInv)
  BY CallbacksImplementSession, SessionInvariant, TokenInvariant, PTL DEF IsSession
<1> QED
  BY <1>1, <1>2, CallbacksInitInv, PTL DEF CallbacksSpec

\* When the callbacks are done the session's client has every subscription that
\* was not refused, however the callbacks of several clients overlapped
\* (369-379).
THEOREM CallbacksSubscribe == CallbacksSpec => []SubscribedUnlessFailed
<1>1. CallbacksTypeOK /\ SInv /\ SubsInv => SubscribedUnlessFailed
  <2> SUFFICES ASSUME CallbacksTypeOK, SInv, SubsInv, Healthy, InSession,
                      <<"connect", current>> \notin callbacks,
                      \A c \in Clients : todo[c] = {}
               PROVE  subs[current] \cup missed = Devices
    BY DEF SubscribedUnlessFailed
  <2>1. subs[current] \subseteq Devices /\ missed \subseteq Devices
    BY DEF CallbacksTypeOK, SInv, TypeOK, Healthy
  <2> QED
    BY <2>1 DEF SubsInv
<1> QED
  BY <1>1, CallbacksInvariant, PTL

\* Between the writes of the gauge it shows the connection, unless the latest
\* write was out of date when it was made (364-366, 382-385).
THEOREM CallbacksGauge == CallbacksSpec => []GaugeWrongOnlyByLateWrite
<1>1. GaugeInv => GaugeWrongOnlyByLateWrite
  BY DEF GaugeInv, GaugeWrongOnlyByLateWrite
<1> QED
  BY <1>1, CallbacksInvariant, PTL

=============================================================================
