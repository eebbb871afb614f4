-------------------------------- MODULE Login --------------------------------
(***************************************************************************)
(* How a session of Run gets its client (src/mqtt_exporter.go:111-177):    *)
(* retryWithBackoff calls login until it succeeds, login asks for the user *)
(* id and then for the broker's credentials, and the two are published one *)
(* after the other, userId under userMu and the client by an atomic store. *)
(* A session lasts until a re-login is requested; MqttSession has what     *)
(* happens in it, here its client just connects and loses its connection.  *)
(*                                                                         *)
(* Logins are numbered.  The user id and the client of a login are known   *)
(* by its number; 0 is the empty id and the nil client.                    *)
(***************************************************************************)
EXTENDS Integers

CONSTANTS
    LoginDelay,      \* loginRetryDelay
    MaxLoginDelay,   \* maxLoginDelay
    MaxLogins        \* BOUND: logins with a number of their own

ASSUME LoginAssumption ==
    /\ LoginDelay \in Nat \ {0}
    /\ MaxLoginDelay \in Nat /\ MaxLoginDelay >= LoginDelay
    /\ MaxLogins \in Nat \ {0}

VARIABLES
    run,           \* where Run is
    logins,        \* logins that got a user id
    userId,        \* of the latest of them
    client,        \* of the latest login that succeeded
    delay,         \* of retryWithBackoff
    waited,        \* time spent in the present wait
    connected,     \* the client is connected to the broker
    serverUp,      \* EcoFlow's servers answer
    cancelled,     \* ctx is done
    failures,      \* HISTORY: attempts of this login that failed
    lateLogins     \* HISTORY: attempts begun after ctx was done

loginVars == <<run, logins, userId, client, delay, waited, connected, serverUp,
               cancelled, failures, lateLogins>>

RunSteps == {"userId", "client", "backoff", "session", "pause", "ended"}

Min2(a, b) == IF a < b THEN a ELSE b

FailureCap == MaxLoginDelay    \* BOUND: by then the delay grows no more

LoginInit ==
    /\ run = "userId" /\ logins = 0 /\ userId = 0 /\ client = 0
    /\ delay = LoginDelay /\ waited = 0
    /\ connected = FALSE /\ serverUp \in BOOLEAN /\ cancelled = FALSE
    /\ failures = 0 /\ lateLogins = 0

\* What the login server may answer; getUserId returns an id for the last of these
\* only, "anonymous" is an answer with an empty one.
Answers ==
    IF serverUp /\ ~cancelled THEN {"user"} ELSE {"nothing", "status", "garbled", "anonymous"}

\* fn failed: retryWithBackoff without a limit of attempts waits.
FailedAttempt ==
    /\ run' = "backoff" /\ waited' = 0
    /\ failures' = Min2(failures + 1, FailureCap)
    /\ UNCHANGED <<client, delay, connected, serverUp, cancelled, lateLogins>>

\* Mutant: an empty user id is accepted.
GetUserIdEmpty ==
    /\ run = "userId"
    /\ \E a \in Answers :
          IF a \in {"user", "anonymous"}
             THEN /\ logins' = Min2(logins + 1, MaxLogins)
                  /\ userId' = IF a = "user" THEN logins' ELSE 0
                  /\ run' = "client"
                  /\ UNCHANGED <<client, delay, waited, connected, serverUp, cancelled,
                                 failures, lateLogins>>
             ELSE FailedAttempt /\ UNCHANGED <<logins, userId>>

\* getUserId, and userId is set.
GetUserId ==
    /\ run = "userId"
    /\ \E a \in Answers :
          IF a = "user"
             THEN /\ logins' = Min2(logins + 1, MaxLogins)
                  /\ userId' = logins'
                  /\ run' = "client"
                  /\ UNCHANGED <<client, delay, waited, connected, serverUp, cancelled,
                                 failures, lateLogins>>
             ELSE FailedAttempt /\ UNCHANGED <<logins, userId>>

\* NewMqttClient gets the credentials or fails; the client is stored.
NewMqttClient ==
    /\ run = "client"
    /\ IF serverUp /\ ~cancelled
       THEN /\ client' = logins
            /\ run' = "session"
            /\ UNCHANGED <<delay, waited, connected, serverUp, cancelled, failures,
                           lateLogins>>
       ELSE FailedAttempt
    /\ UNCHANGED <<logins, userId>>

BeginAttempt ==
    /\ run' = "userId"
    /\ lateLogins' = IF cancelled THEN lateLogins + 1 ELSE lateLogins
    /\ waited' = 0
    /\ UNCHANGED <<logins, userId, client, connected, serverUp, cancelled>>

\* Mutant: the delay starts over.
RetryConstant ==
    /\ run = "backoff" /\ waited = delay
    /\ BeginAttempt
    /\ delay' = LoginDelay
    /\ UNCHANGED failures

\* Mutant: the attempts are limited.
RetryLimited ==
    /\ run = "backoff" /\ waited = delay /\ failures < FailureCap
    /\ BeginAttempt
    /\ delay' = Min2(2 * delay, MaxLoginDelay)
    /\ UNCHANGED failures

\* The next attempt, also if ctx is done at the same time.
Retry ==
    /\ run = "backoff" /\ waited = delay
    /\ BeginAttempt
    /\ delay' = Min2(2 * delay, MaxLoginDelay)
    /\ UNCHANGED failures

\* A re-login is taken or Connect fails: the client is disconnected.
SessionEnds ==
    /\ run = "session"
    /\ run' = "pause" /\ connected' = FALSE /\ waited' = 0
    /\ UNCHANGED <<logins, userId, client, delay, serverUp, cancelled, failures,
                   lateLogins>>

\* After loginRetryDelay Run begins another session.
NextSession ==
    /\ run = "pause" /\ waited = LoginDelay
    /\ BeginAttempt
    /\ delay' = LoginDelay /\ failures' = 0

RunEnds ==
    /\ cancelled /\ run \in {"backoff", "session", "pause"}
    /\ run' = "ended" /\ connected' = FALSE
    /\ UNCHANGED <<logins, userId, client, delay, waited, serverUp, cancelled, failures,
                   lateLogins>>

Cancel ==
    /\ ~cancelled /\ cancelled' = TRUE
    /\ UNCHANGED <<run, logins, userId, client, delay, waited, connected, serverUp,
                   failures, lateLogins>>

ServerChanges ==
    /\ serverUp' = ~serverUp
    /\ UNCHANGED <<run, logins, userId, client, delay, waited, connected, cancelled,
                   failures, lateLogins>>

ConnectionLost ==
    /\ connected /\ connected' = FALSE
    /\ UNCHANGED <<run, logins, userId, client, delay, waited, serverUp, cancelled,
                   failures, lateLogins>>

LoginStep ==
    \/ GetUserId \/ NewMqttClient \/ Retry \/ SessionEnds \/ NextSession \/ RunEnds

\* A wait of Run is over: it goes on before time does.
RunDue ==
    \/ cancelled /\ run \in {"backoff", "session", "pause"}
    \/ run = "backoff" /\ waited = delay
    \/ run = "pause" /\ waited = LoginDelay

\* The share of Run in the passing of time.
RunWaits == waited' = IF run \in {"backoff", "pause"} THEN waited + 1 ELSE waited

=============================================================================
