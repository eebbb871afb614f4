----------------------------- MODULE PingRoutine ------------------------------
(***************************************************************************)
(* pingRoutine (src/mqtt_exporter.go:727-771) next to the logins: at every *)
(* tick that finds a client at work it sends a keepalive, or every so many *)
(* ticks a request for the full state, to all devices in parallel, and     *)
(* waits for all of them.  A request loads the client, then reads the user *)
(* id, and waits for its token for a limited time.                         *)
(*                                                                         *)
(* Time counts in units; every delay of the code is a number of them.  It  *)
(* does not pass while a goroutine can go on.                              *)
(***************************************************************************)
EXTENDS Login

CONSTANTS
    Devices,          \* serial numbers
    Ping,             \* pingInterval
    Refresh,          \* stateRefreshInterval
    PublishTimeout    \* of a request

ASSUME PingAssumption ==
    /\ Ping \in Nat \ {0} /\ Refresh \in Nat \ {0}
    /\ PublishTimeout \in Nat \ {0}

VARIABLES
    untilTick,      \* time left to the next tick
    ticker,         \* the ticker channel holds a tick
    routine,        \* "waiting" | "round" | "ended"
    tickCount,      \* modulo ticksPerRefresh
    request,        \* [Devices -> "none" | "begun" | "loaded" | "sent"]
    reqClient,      \* [Devices -> client of its request, 0 if none]
    reqUser,        \* [Devices -> user id in its topic, 0 if none]
    reqAge,         \* [Devices -> age of its request]
    sinceRefresh    \* HISTORY: [Devices -> time since its state was asked for, or
                    \* since the connection was made]

pingVars == <<untilTick, ticker, routine, tickCount, request, reqClient, reqUser, reqAge>>
vars == <<loginVars, pingVars, sinceRefresh>>

Max2(a, b) == IF a > b THEN a ELSE b

\* Mutant: rounded up.
TicksPerRefreshUp == Refresh \div Ping + 1

ticksPerRefresh == Max2(Refresh \div Ping, 1)

useStateRefresh == tickCount = 0

MaxSinceRefresh == (Refresh \div Ping + 1) * Max2(Ping, PublishTimeout)
AgeCap == MaxSinceRefresh + 1    \* BOUND: sinceRefresh stops here

Init ==
    /\ LoginInit
    /\ untilTick = Ping /\ ticker = FALSE
    /\ routine = "waiting" /\ tickCount = 0
    /\ request = [d \in Devices |-> "none"]
    /\ reqClient = [d \in Devices |-> 0] /\ reqUser = [d \in Devices |-> 0]
    /\ reqAge = [d \in Devices |-> 0]
    /\ sinceRefresh = [d \in Devices |-> 0]

\* A tick is not counted when there is no client, or one that was disconnected.
SkipTick ==
    /\ routine = "waiting" /\ ticker /\ ~connected
    /\ ticker' = FALSE
    /\ UNCHANGED <<loginVars, untilTick, routine, tickCount, request, reqClient, reqUser,
                   reqAge, sinceRefresh>>

\* connected() also holds while the client of a session is (re)connecting.
StartRound ==
    /\ routine = "waiting" /\ ticker /\ (connected \/ run = "session")
    /\ ticker' = FALSE
    /\ tickCount' = (tickCount + 1) % ticksPerRefresh
    /\ routine' = "round"
    /\ request' = [d \in Devices |-> "begun"]
    /\ UNCHANGED <<loginVars, untilTick, reqClient, reqUser, reqAge, sinceRefresh>>

\* c := m.mqtt(), not nil any more after connected().
LoadClient(d) ==
    /\ request[d] = "begun"
    /\ request' = [request EXCEPT ![d] = "loaded"]
    /\ reqClient' = [reqClient EXCEPT ![d] = client]
    /\ UNCHANGED <<loginVars, untilTick, ticker, routine, tickCount, reqUser, reqAge,
                   sinceRefresh>>

\* requestLatestQuotas or sendRtcTimePing: topic and Publish.
Publish(d) ==
    /\ request[d] = "loaded"
    /\ request' = [request EXCEPT ![d] = "sent"]
    /\ reqUser' = [reqUser EXCEPT ![d] = userId]
    /\ reqAge' = [reqAge EXCEPT ![d] = 0]
    /\ sinceRefresh' = IF useStateRefresh THEN [sinceRefresh EXCEPT ![d] = 0]
                       ELSE sinceRefresh
    /\ UNCHANGED <<loginVars, untilTick, ticker, routine, tickCount, reqClient>>

\* Mutant: no timeout, and the client of an ended session never answers.
RequestEndsByToken(d) ==
    /\ request[d] = "sent" /\ reqClient[d] = client
    /\ request' = [request EXCEPT ![d] = "none"]
    /\ reqClient' = [reqClient EXCEPT ![d] = 0]
    /\ reqUser' = [reqUser EXCEPT ![d] = 0]
    /\ reqAge' = [reqAge EXCEPT ![d] = 0]
    /\ UNCHANGED <<loginVars, untilTick, ticker, routine, tickCount, sinceRefresh>>

\* The token is done, with an error or without, or the wait timed out.
RequestEnds(d) ==
    /\ request[d] = "sent"
    /\ request' = [request EXCEPT ![d] = "none"]
    /\ reqClient' = [reqClient EXCEPT ![d] = 0]
    /\ reqUser' = [reqUser EXCEPT ![d] = 0]
    /\ reqAge' = [reqAge EXCEPT ![d] = 0]
    /\ UNCHANGED <<loginVars, untilTick, ticker, routine, tickCount, sinceRefresh>>

\* wg.Wait.
EndRound ==
    /\ routine = "round" /\ \A d \in Devices : request[d] = "none"
    /\ routine' = "waiting"
    /\ UNCHANGED <<loginVars, untilTick, ticker, tickCount, request, reqClient, reqUser,
                   reqAge, sinceRefresh>>

RoutineEnds ==
    /\ routine = "waiting" /\ cancelled
    /\ routine' = "ended"
    /\ UNCHANGED <<loginVars, untilTick, ticker, tickCount, request, reqClient, reqUser,
                   reqAge, sinceRefresh>>

\* The connection comes up, and times are counted from here: OnConnect asks one
\* device after another, those whose subscription it got (see SessionCallbacks).
Connect ==
    /\ run = "session" /\ ~connected
    /\ connected' = TRUE
    /\ sinceRefresh' = [d \in Devices |-> 0]
    /\ UNCHANGED <<run, logins, userId, client, delay, waited, serverUp, cancelled,
                   failures, lateLogins, pingVars>>

Due ==
    \/ RunDue
    \/ routine = "waiting" /\ (ticker \/ cancelled)
    \/ \E d \in Devices : \/ request[d] \in {"begun", "loaded"}
                          \/ request[d] = "sent" /\ reqAge[d] = PublishTimeout
    \/ routine = "round" /\ \A d \in Devices : request[d] = "none"

TimePasses ==
    /\ ~Due
    /\ RunWaits
    /\ untilTick' = IF untilTick = 1 THEN Ping ELSE untilTick - 1
    /\ ticker' = (ticker \/ untilTick = 1)
    /\ reqAge' = [d \in Devices |-> IF request[d] = "sent" THEN reqAge[d] + 1 ELSE 0]
    /\ sinceRefresh' = [d \in Devices |-> Min2(sinceRefresh[d] + 1, AgeCap)]
    /\ UNCHANGED <<run, logins, userId, client, delay, connected, serverUp, cancelled,
                   failures, lateLogins, routine, tickCount, request, reqClient, reqUser>>

PingStep ==
    \/ SkipTick \/ StartRound \/ EndRound
    \/ \E d \in Devices : LoadClient(d) \/ Publish(d) \/ RequestEnds(d)

Next ==
    \/ /\ LoginStep \/ Cancel \/ ServerChanges \/ ConnectionLost
       /\ UNCHANGED <<pingVars, sinceRefresh>>
    \/ PingStep \/ RoutineEnds \/ Connect \/ TimePasses

\* Time passes; calls come back and goroutines that can go on do.
FairSpec ==
    /\ Init /\ [][Next]_vars
    /\ WF_vars(TimePasses)
    /\ WF_vars((GetUserId \/ NewMqttClient \/ Retry \/ NextSession)
               /\ UNCHANGED <<pingVars, sinceRefresh>>)
    /\ WF_vars(SkipTick) /\ WF_vars(StartRound) /\ WF_vars(EndRound)
    /\ \A d \in Devices : WF_vars(LoadClient(d) \/ Publish(d) \/ RequestEnds(d))

-----------------------------------------------------------------------------
\* While the connection lasts no device goes unasked for its state for longer
\* than the rounds of one refresh can take, if every one of them runs into its
\* timeout and the ticks in between are lost (727-771).
RefreshedInTime ==
    connected /\ ~cancelled =>
        \A d \in Devices :
            sinceRefresh[d] <= Max2(Refresh \div Ping, 1) * Max2(Ping, PublishTimeout)

\* Client and user id are read one after the other while a login replaces both:
\* a request always has a user id in its topic, and none from before its client
\* (118-120, 177, 612-617).
PublishAddressed ==
    \A d \in Devices :
        request[d] = "sent" => reqClient[d] > 0 /\ reqUser[d] >= reqClient[d]

LoginGap == IF run = "pause" THEN LoginDelay
            ELSE Min2(LoginDelay * 2^(failures - 1), MaxLoginDelay)

\* 2^n * LoginDelay after n failures, at most MaxLoginDelay, and LoginDelay
\* between two sessions; once ctx is done at most one login is begun, by a timer
\* that went off at that moment (retry.go:13-30, 152-156).
LoginsSpaced ==
    [][run' = "userId" /\ run \in {"backoff", "pause"} =>
          waited >= LoginGap /\ lateLogins' <= 1]_vars

\* However often logins fail half way, there is a session again once EcoFlow
\* answers: no attempt is the last one (137-177, retry.go:13-30).
LogsIn == <>[](serverUp /\ ~cancelled) => []<>(run = "session")

\* While a connection lasts every device is asked for its state again and again,
\* whatever happened to its earlier requests and to those of the others (741-770).
KeepsAsking ==
    <>[](connected /\ ~cancelled) =>
        \A d \in Devices : []<>(request[d] = "sent" /\ useStateRefresh)

=============================================================================
