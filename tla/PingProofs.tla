----------------------------- MODULE PingProofs -----------------------------
(* The ping routine next to the logins, for any number of devices and any   *)
(* delays.                                                                  *)
(*   - What a request loads: user ids and clients only grow, and there is a *)
(*     client once there was a connection (LoginOK, AddressOK).             *)
(*   - When a device is asked for its state: from one round to the next it  *)
(*     is the longer of a tick and a request's timeout at most (RoundOK),   *)
(*     because time stands still while a round is begun.                    *)
(*   - When a login begins: delay doubles with the failures (PaceOK), and   *)
(*     one that begins after ctx is done fails for good (LateOK).           *)
EXTENDS PingRoutine, FiniteSetTheorems, TLAPS

PingTypeOK ==
    /\ run \in RunSteps
    /\ connected \in BOOLEAN /\ cancelled \in BOOLEAN
    /\ logins \in 0 .. MaxLogins /\ userId \in Nat /\ client \in Nat
    /\ untilTick \in 1 .. Ping /\ ticker \in BOOLEAN
    /\ routine \in {"waiting", "round", "ended"}
    /\ tickCount \in 0 .. ticksPerRefresh - 1
    /\ request \in [Devices -> {"none", "begun", "loaded", "sent"}]
    /\ reqClient \in [Devices -> Nat] /\ reqUser \in [Devices -> Nat]
    /\ reqAge \in [Devices -> 0 .. PublishTimeout]
    /\ sinceRefresh \in [Devices -> Nat]

\* The user id is of the latest login, the client of that or an earlier one.
LoginOK ==
    /\ userId = logins /\ client <= userId
    /\ run = "client" => logins > 0
    /\ run = "session" => client > 0
    /\ connected => run = "session"

\* A request has what there was when it loaded its client, or something later.
AddressOK ==
    \A d \in Devices :
        /\ request[d] = "begun" => client > 0
        /\ request[d] = "loaded" => reqClient[d] > 0 /\ reqClient[d] <= userId
        /\ request[d] = "sent" => reqClient[d] > 0 /\ reqUser[d] >= reqClient[d]

Step == Max2(Ping, PublishTimeout)
Longest == ticksPerRefresh * Step

\* The rounds to come before the one that asks for the states, times Step.
Ahead == (ticksPerRefresh - tickCount - 1) * Step

Asking(d) == request[d] \in {"begun", "loaded"}

\* Device d is asked in time: the next round begins with the next tick, or when
\* all requests have ended.
InTime(d) ==
    /\ sinceRefresh[d] + (IF ticker THEN 0 ELSE untilTick) + Ahead <= Longest
    /\ \A e \in Devices :
          /\ Asking(e) => sinceRefresh[d] + PublishTimeout + Ahead <= Longest
          /\ request[e] = "sent" =>
                sinceRefresh[d] + PublishTimeout - reqAge[e] + Ahead <= Longest

\* Every device is asked for its state in this round, or in time.
RoundOK ==
    /\ routine # "round" => \A d \in Devices : request[d] = "none"
    /\ routine = "ended" => cancelled
    /\ connected /\ ~cancelled => \A d \in Devices :
          (useStateRefresh /\ Asking(d) /\ sinceRefresh[d] <= Longest) \/ InTime(d)

PingInv == PingTypeOK /\ LoginOK /\ AddressOK /\ RoundOK

-----------------------------------------------------------------------------
\* Neither a tick nor a request takes longer than a step.
LEMMA StepFacts ==
    /\ ticksPerRefresh \in Nat \ {0} /\ Step \in Nat /\ Longest \in Nat
    /\ Ping \in Nat \ {0} /\ PublishTimeout \in Nat \ {0}
    /\ Ping <= Step /\ PublishTimeout <= Step
  <1>1. Ping \in Nat \ {0} /\ Refresh \in Nat \ {0} /\ PublishTimeout \in Nat \ {0}
    BY PingAssumption
  <1>2. Refresh \div Ping \in Nat
    BY <1>1
  <1>3. ticksPerRefresh \in Nat \ {0}
    BY <1>2 DEF ticksPerRefresh, Max2
  <1>4. Step \in Nat /\ Ping <= Step /\ PublishTimeout <= Step
    BY <1>1 DEF Step, Max2
  <1>5. Longest \in Nat
    BY <1>3, <1>4 DEF Longest
  <1> QED
    BY <1>1, <1>3, <1>4, <1>5

\* How many steps are ahead.
LEMMA AheadFacts ==
    ASSUME tickCount \in 0 .. ticksPerRefresh - 1
    PROVE  /\ Ahead \in Nat /\ Ahead + Step <= Longest
           /\ tickCount = 0 => Ahead + Step = Longest
           /\ tickCount < ticksPerRefresh - 1 =>
                 /\ (tickCount + 1) % ticksPerRefresh = tickCount + 1
                 /\ (ticksPerRefresh - (tickCount + 1) - 1) * Step + Step = Ahead
           /\ tickCount = ticksPerRefresh - 1 =>
                 (tickCount + 1) % ticksPerRefresh = 0
<1> DEFINE n == ticksPerRefresh - tickCount - 1
<1>1. n \in Nat /\ n + 1 <= ticksPerRefresh
  BY StepFacts
<1>2. \A a, b, s \in Nat : a <= b => a * s <= b * s
  BY Z3
<1>3. \A a, s \in Int : (a + 1) * s = a * s + s
  BY Z3
<1>4. \A a, s \in Nat : a * s \in Nat
  BY Z3
<1>5. \A a, k \in Nat : a < k => a % k = a
  BY Z3
<1>6. \A k \in Nat \ {0} : k % k = 0
  BY Z3
<1>7. Ahead \in Nat
  BY <1>1, <1>4, StepFacts DEF Ahead
<1>8. (n + 1) * Step = Ahead + Step
  BY <1>1, <1>3, StepFacts DEF Ahead
<1>9. (n + 1) * Step <= Longest
  BY <1>1, <1>2, StepFacts DEF Longest
<1>10. tickCount = 0 => (n + 1) * Step = Longest
  BY <1>1, StepFacts DEF Longest
<1>11. tickCount < ticksPerRefresh - 1 =>
         /\ (tickCount + 1) % ticksPerRefresh = tickCount + 1
         /\ (ticksPerRefresh - (tickCount + 1) - 1) * Step + Step = Ahead
  <2> SUFFICES ASSUME tickCount < ticksPerRefresh - 1
               PROVE  /\ (tickCount + 1) % ticksPerRefresh = tickCount + 1
                      /\ (ticksPerRefresh - (tickCount + 1) - 1) * Step + Step = Ahead
    OBVIOUS
  <2> DEFINE m == ticksPerRefresh - (tickCount + 1) - 1
  <2>1. m \in Nat /\ m + 1 = n /\ tickCount + 1 \in Nat /\ tickCount + 1 < ticksPerRefresh
    BY StepFacts
  <2>2. (tickCount + 1) % ticksPerRefresh = tickCount + 1
    BY <1>5, <2>1, StepFacts
  <2>3. m * Step + Step = (m + 1) * Step
    BY <1>3, <2>1, StepFacts
  <2> QED
    BY <2>1, <2>2, <2>3 DEF Ahead
<1>12. tickCount = ticksPerRefresh - 1 => (tickCount + 1) % ticksPerRefresh = 0
  BY <1>6, StepFacts
<1> QED
  BY <1>1, <1>7, <1>8, <1>9, <1>10, <1>11, <1>12

\* The process starts with the first login and no request.
LEMMA InitPingInv == Init => PingInv
<1> SUFFICES ASSUME Init PROVE PingInv
  OBVIOUS
<1> USE StepFacts, LoginAssumption DEF Init, LoginInit
<1>1. /\ 0 \in 0 .. MaxLogins /\ Ping \in 1 .. Ping /\ 0 \in 0 .. PublishTimeout
      /\ 0 \in 0 .. ticksPerRefresh - 1
  OBVIOUS
<1>2. PingTypeOK
  BY <1>1 DEF PingTypeOK, RunSteps
<1>3. LoginOK /\ AddressOK
  BY DEF LoginOK, AddressOK
<1>4. RoundOK
  BY DEF RoundOK
<1> QED
  BY <1>2, <1>3, <1>4 DEF PingInv

LoginOther == LoginStep \/ Cancel \/ ServerChanges \/ ConnectionLost

\* The logins: numbers only grow, and a connection does not come from here.
LEMMA LoginSteps ==
    ASSUME PingTypeOK, LoginOK, LoginOther
    PROVE  /\ run' \in RunSteps /\ connected' \in BOOLEAN /\ cancelled' \in BOOLEAN
           /\ logins' \in 0 .. MaxLogins /\ userId' \in Nat /\ client' \in Nat
           /\ LoginOK'
           /\ userId <= userId' /\ (client > 0 => client' > 0)
           /\ (connected' => connected) /\ (cancelled => cancelled')
<1> USE LoginAssumption DEF PingTypeOK, LoginOK, RunSteps
<1>1. CASE GetUserId
  <2>1. PICK a \in Answers :
          IF a = "user"
             THEN /\ logins' = Min2(logins + 1, MaxLogins)
                  /\ userId' = logins'
                  /\ run' = "client"
                  /\ UNCHANGED <<client, delay, waited, connected, serverUp, cancelled,
                                 failures, lateLogins>>
             ELSE FailedAttempt /\ UNCHANGED <<logins, userId>>
    BY <1>1 DEF GetUserId
  <2>2. run = "userId" /\ ~connected
    BY <1>1 DEF GetUserId
  <2>3. CASE a = "user"
    <3>1. logins' \in 1 .. MaxLogins /\ logins <= logins'
      BY <2>1, <2>3 DEF Min2
    <3> QED
      BY <2>1, <2>2, <2>3, <3>1
  <2>4. CASE a # "user"
    BY <2>1, <2>2, <2>4 DEF FailedAttempt
  <2> QED
    BY <2>3, <2>4
<1>2. CASE NewMqttClient
  BY <1>2 DEF NewMqttClient, FailedAttempt
<1>3. CASE Retry \/ NextSession
  BY <1>3 DEF Retry, NextSession, BeginAttempt
<1>4. CASE SessionEnds \/ RunEnds
  <2>1. /\ UNCHANGED <<logins, userId, client, cancelled>>
        /\ run' \in {"pause", "ended"} /\ connected' = FALSE
    BY <1>4 DEF SessionEnds, RunEnds
  <2>2. LoginOK' /\ run' \in RunSteps
    BY <2>1
  <2>3. /\ connected' \in BOOLEAN /\ cancelled' \in BOOLEAN
        /\ (connected' => connected) /\ (cancelled => cancelled')
    BY <2>1, Zenon
  <2>4. /\ logins' \in 0 .. MaxLogins /\ userId' \in Nat /\ client' \in Nat
        /\ userId <= userId' /\ (client > 0 => client' > 0)
    BY <2>1
  <2> QED
    BY <2>2, <2>3, <2>4
<1>5. CASE Cancel \/ ServerChanges \/ ConnectionLost
  <2>1. UNCHANGED <<run, logins, userId, client>>
    BY <1>5 DEF Cancel, ServerChanges, ConnectionLost
  <2>2. /\ connected' \in BOOLEAN /\ cancelled' \in BOOLEAN
        /\ (connected' => connected) /\ (cancelled => cancelled')
    <3>1. CASE Cancel
      BY <3>1, Zenon DEF Cancel
    <3>2. CASE ServerChanges
      BY <3>2, Zenon DEF ServerChanges
    <3>3. CASE ConnectionLost
      BY <3>3, Zenon DEF ConnectionLost
    <3> QED
      BY <1>5, <3>1, <3>2, <3>3
  <2> QED
    BY <2>1, <2>2
<1> QED
  BY <1>1, <1>2, <1>3, <1>4, <1>5 DEF LoginOther, LoginStep

\* Every step keeps every variable in its range.
LEMMA NextPingTypeOK == PingTypeOK /\ LoginOK /\ [Next]_vars => PingTypeOK'
<1> SUFFICES ASSUME PingTypeOK, LoginOK, [Next]_vars PROVE PingTypeOK'
  OBVIOUS
<1> USE StepFacts
<1>1. ASSUME LoginOther, UNCHANGED <<pingVars, sinceRefresh>> PROVE PingTypeOK'
  <2>1. UNCHANGED <<untilTick, ticker, routine, tickCount, request, reqClient, reqUser,
                    reqAge, sinceRefresh>>
    BY <1>1 DEF pingVars
  <2> QED
    BY <1>1, <2>1, LoginSteps DEF PingTypeOK, ticksPerRefresh
<1>2. CASE SkipTick \/ EndRound \/ RoutineEnds
  BY <1>2 DEF SkipTick, EndRound, RoutineEnds, PingTypeOK, loginVars
<1>3. CASE StartRound
  <2>1. (tickCount + 1) % ticksPerRefresh \in 0 .. ticksPerRefresh - 1
    BY AheadFacts DEF PingTypeOK
  <2> QED
    BY <1>3, <2>1 DEF StartRound, PingTypeOK, loginVars
<1>4. ASSUME NEW d \in Devices, LoadClient(d) PROVE PingTypeOK'
  BY <1>4 DEF LoadClient, PingTypeOK, loginVars
<1>5. ASSUME NEW d \in Devices, Publish(d) \/ RequestEnds(d) PROVE PingTypeOK'
  <2>1. /\ request' \in [Devices -> {"none", "begun", "loaded", "sent"}]
        /\ reqUser' \in [Devices -> Nat] /\ reqClient' \in [Devices -> Nat]
        /\ sinceRefresh' \in [Devices -> Nat]
    BY <1>5 DEF Publish, RequestEnds, PingTypeOK
  <2>2. reqAge' \in [Devices -> 0 .. PublishTimeout]
    BY <1>5 DEF Publish, RequestEnds, PingTypeOK
  <2> QED
    BY <1>5, <2>1, <2>2 DEF Publish, RequestEnds, PingTypeOK, loginVars
<1>6. CASE Connect
  BY <1>6 DEF Connect, PingTypeOK, pingVars
<1>7. CASE TimePasses
  <2>1. \A d \in Devices : request[d] = "sent" => reqAge[d] # PublishTimeout
    BY <1>7 DEF TimePasses, Due
  <2>2. reqAge' \in [Devices -> 0 .. PublishTimeout]
    BY <1>7, <2>1 DEF TimePasses, PingTypeOK
  <2>3. AgeCap \in Nat
    <3>1. Refresh \div Ping + 1 \in Nat
      BY PingAssumption
    <3>2. (Refresh \div Ping + 1) * Max2(Ping, PublishTimeout) \in Nat
      BY <3>1 DEF Max2
    <3> QED
      BY <3>2 DEF AgeCap, MaxSinceRefresh
  <2>4. sinceRefresh' \in [Devices -> Nat]
    BY <1>7, <2>3 DEF TimePasses, PingTypeOK, Min2
  <2>5. untilTick' \in 1 .. Ping /\ ticker' \in BOOLEAN
    BY <1>7 DEF TimePasses, PingTypeOK
  <2> QED
    BY <1>7, <2>2, <2>4, <2>5 DEF TimePasses, PingTypeOK
<1>8. CASE UNCHANGED vars
  BY <1>8 DEF vars, loginVars, pingVars, PingTypeOK
<1> QED
  BY <1>1, <1>2, <1>3, <1>4, <1>5, <1>6, <1>7, <1>8 DEF Next, PingStep, LoginOther

\* What a request has loaded stays older than what there is now.
LEMMA NextAddressOK ==
    PingTypeOK /\ LoginOK /\ AddressOK /\ [Next]_vars => LoginOK' /\ AddressOK'
<1> SUFFICES ASSUME PingTypeOK, LoginOK, AddressOK, [Next]_vars
             PROVE  LoginOK' /\ AddressOK'
  OBVIOUS
<1>1. ASSUME LoginOther, UNCHANGED <<pingVars, sinceRefresh>>
      PROVE  LoginOK' /\ AddressOK'
  <2>1. UNCHANGED <<request, reqClient, reqUser>>
    BY <1>1 DEF pingVars
  <2>2. /\ userId <= userId' /\ (client > 0 => client' > 0) /\ LoginOK' /\ userId' \in Nat
    BY <1>1, LoginSteps
  <2> QED
    BY <2>1, <2>2 DEF AddressOK, PingTypeOK
<1>2. CASE SkipTick \/ EndRound \/ RoutineEnds \/ StartRound
  BY <1>2 DEF SkipTick, EndRound, RoutineEnds, StartRound, loginVars, PingTypeOK,
              LoginOK, AddressOK
<1>3. ASSUME NEW d \in Devices, LoadClient(d) PROVE LoginOK' /\ AddressOK'
  BY <1>3 DEF LoadClient, loginVars, PingTypeOK, LoginOK, AddressOK
<1>4. ASSUME NEW d \in Devices, Publish(d) \/ RequestEnds(d) PROVE LoginOK' /\ AddressOK'
  BY <1>4 DEF Publish, RequestEnds, loginVars, PingTypeOK, LoginOK, AddressOK
<1>5. CASE Connect
  BY <1>5 DEF Connect, pingVars, LoginOK, AddressOK
<1>6. CASE TimePasses
  BY <1>6 DEF TimePasses, LoginOK, AddressOK
<1>7. CASE UNCHANGED vars
  BY <1>7 DEF vars, loginVars, pingVars, LoginOK, AddressOK
<1> QED
  BY <1>1, <1>2, <1>3, <1>4, <1>5, <1>6, <1>7 DEF Next, PingStep, LoginOther

\* A step that begins no request and takes no time leaves the device in time.
LEMMA InTimeKept ==
    ASSUME UNCHANGED <<untilTick, ticker, tickCount, sinceRefresh>>,
           \A e \in Devices :
              /\ Asking(e)' => Asking(e)
              /\ request'[e] = "sent" => request[e] = "sent" /\ reqAge'[e] = reqAge[e],
           NEW d \in Devices, InTime(d)
    PROVE  InTime(d)'
<1>1. Ahead' = Ahead /\ Longest' = Longest
  BY DEF Ahead, Longest, Step, ticksPerRefresh
<1>2. (sinceRefresh[d] + (IF ticker THEN 0 ELSE untilTick) + Ahead <= Longest)'
  BY <1>1 DEF InTime
<1>3. ASSUME NEW e \in Devices, Asking(e)'
      PROVE  (sinceRefresh[d] + PublishTimeout + Ahead <= Longest)'
  BY <1>1, <1>3 DEF InTime
<1>4. ASSUME NEW e \in Devices, request'[e] = "sent"
      PROVE  (sinceRefresh[d] + PublishTimeout - reqAge[e] + Ahead <= Longest)'
  BY <1>1, <1>4 DEF InTime
<1> QED
  BY <1>2, <1>3, <1>4 DEF InTime

\* No step makes a device wait for longer.
LEMMA NextRoundOK ==
    PingTypeOK /\ LoginOK /\ RoundOK /\ [Next]_vars => RoundOK'
<1> SUFFICES ASSUME PingTypeOK, LoginOK, RoundOK, [Next]_vars PROVE RoundOK'
  OBVIOUS
<1> USE StepFacts
<1>0. Ahead \in Nat /\ Ahead + Step <= Longest
  BY AheadFacts DEF PingTypeOK
<1>1. ASSUME UNCHANGED <<untilTick, ticker, routine, tickCount, request, reqAge,
                         sinceRefresh>>,
             connected' => connected, cancelled => cancelled'
      PROVE  RoundOK'
  BY <1>1 DEF RoundOK, InTime, Asking, Ahead, Longest, Step, useStateRefresh,
              ticksPerRefresh
<1>2. ASSUME LoginOther, UNCHANGED <<pingVars, sinceRefresh>> PROVE RoundOK'
  <2>1. connected' => connected
    BY <1>2, LoginSteps
  <2>2. UNCHANGED <<untilTick, ticker, routine, tickCount, request, reqAge, sinceRefresh>>
    BY <1>2 DEF pingVars
  <2>3. cancelled => cancelled'
    BY <1>2, LoginSteps
  <2> QED
    BY <1>1, <2>1, <2>2, <2>3
<1>3. CASE UNCHANGED vars
  BY <1>1, <1>3 DEF vars, pingVars, loginVars
<1>4. CASE SkipTick \/ RoutineEnds
  <2>1. /\ ~connected \/ cancelled
        /\ UNCHANGED <<connected, cancelled, request>> /\ routine = "waiting"
        /\ routine' = "ended" => cancelled
    BY <1>4 DEF SkipTick, RoutineEnds, loginVars
  <2> QED
    BY <2>1 DEF RoundOK
<1>5. CASE EndRound
  <2>1. /\ routine = "round" /\ routine' = "waiting" /\ \A d \in Devices : request[d] = "none"
        /\ UNCHANGED <<untilTick, ticker, tickCount, request, reqAge, sinceRefresh,
                       connected, cancelled>>
    BY <1>5 DEF EndRound, loginVars
  <2> QED
    BY <2>1 DEF RoundOK, InTime, Asking, Ahead, Longest, Step, useStateRefresh,
                ticksPerRefresh
<1>6. CASE StartRound
  <2>1. /\ routine = "waiting" /\ routine' = "round" /\ ticker /\ ~ticker'
        /\ request' = [d \in Devices |-> "begun"]
        /\ tickCount' = (tickCount + 1) % ticksPerRefresh
        /\ UNCHANGED <<untilTick, reqAge, sinceRefresh, connected, cancelled>>
    BY <1>6 DEF StartRound, loginVars
  <2> SUFFICES ASSUME connected, ~cancelled, NEW d \in Devices
               PROVE  (useStateRefresh' /\ Asking(d)' /\ sinceRefresh[d] <= Longest)
                      \/ InTime(d)'
    BY <2>1 DEF RoundOK, Longest, Step, ticksPerRefresh
  <2>2. request[d] = "none" /\ sinceRefresh[d] \in Nat
    BY <2>1 DEF RoundOK, PingTypeOK
  <2>3. sinceRefresh[d] + Ahead <= Longest
    BY <1>0, <2>1, <2>2 DEF RoundOK, InTime, Asking
  <2>4. CASE tickCount = ticksPerRefresh - 1
    <3>1. tickCount' = 0
      BY <2>1, <2>4, AheadFacts DEF PingTypeOK
    <3> QED
      BY <1>0, <2>1, <2>2, <2>3, <3>1 DEF useStateRefresh, Asking
  <2>5. CASE tickCount < ticksPerRefresh - 1
    <3>1. tickCount' = tickCount + 1 /\ Ahead' + Step = Ahead
      <4>1. tickCount' = tickCount + 1
        BY <2>1, <2>5, AheadFacts DEF PingTypeOK
      <4>2. Ahead' = (ticksPerRefresh - (tickCount + 1) - 1) * Step
        BY <4>1 DEF Ahead, ticksPerRefresh, Step
      <4> QED
        BY <4>1, <4>2, <2>5, AheadFacts DEF PingTypeOK
    <3>2. tickCount' \in 0 .. ticksPerRefresh - 1 /\ Ahead' \in Int
      <4>1. tickCount' \in 0 .. ticksPerRefresh - 1
        BY <2>5, <3>1 DEF PingTypeOK
      <4>2. \A a, b \in Int : a * b \in Int
        BY Z3
      <4> QED
        BY <4>1, <4>2 DEF Ahead, ticksPerRefresh, Step, Max2
    <3>3. sinceRefresh[d] + Step + Ahead' <= Longest
      <4>1. \A x, y, a, b, c \in Int : x + a <= y /\ b + c = a => x + c + b <= y
        BY Z3
      <4>2. Ahead' \in Int /\ Ahead' + Step = Ahead
        BY <3>1, <3>2
      <4>3. /\ sinceRefresh[d] \in Int /\ Longest \in Int /\ Ahead \in Int /\ Step \in Int
        BY <1>0, <2>2
      <4> QED
        BY <2>3, <4>1, <4>2, <4>3, Zenon
    <3>4. untilTick \in 1 .. Ping
      BY DEF PingTypeOK
    <3>5. InTime(d)'
      BY <2>1, <2>2, <3>2, <3>3, <3>4 DEF InTime, Asking, Longest, Step, ticksPerRefresh
    <3> QED
      BY <3>5
  <2> QED
    BY <2>4, <2>5 DEF PingTypeOK
<1>7. ASSUME NEW c \in Devices, LoadClient(c) PROVE RoundOK'
  <2>1. /\ request[c] = "begun" /\ request' = [request EXCEPT ![c] = "loaded"]
        /\ UNCHANGED <<untilTick, ticker, routine, tickCount, reqAge, sinceRefresh,
                       connected, cancelled>>
    BY <1>7 DEF LoadClient, loginVars
  <2>2. \A e \in Devices :
          /\ request'[e] = "sent" <=> request[e] = "sent"
          /\ request'[e] = "none" <=> request[e] = "none"
          /\ Asking(e)' <=> Asking(e)
    <3>1. \A e \in Devices :
            request'[e] = request[e] \/ (request[e] = "begun" /\ request'[e] = "loaded")
      BY <2>1 DEF PingTypeOK
    <3> QED
      BY <3>1 DEF Asking
  <2>3. \A d \in Devices : InTime(d) => InTime(d)'
    BY <2>1, <2>2, InTimeKept
  <2>4. Longest' = Longest
    BY DEF Longest, Step, ticksPerRefresh
  <2> QED
    BY <2>1, <2>2, <2>3, <2>4 DEF RoundOK, useStateRefresh
<1>8. ASSUME NEW c \in Devices, Publish(c) PROVE RoundOK'
  <2>1. /\ request[c] = "loaded" /\ request' = [request EXCEPT ![c] = "sent"]
        /\ reqAge' = [reqAge EXCEPT ![c] = 0]
        /\ sinceRefresh' = IF useStateRefresh THEN [sinceRefresh EXCEPT ![c] = 0]
                           ELSE sinceRefresh
        /\ UNCHANGED <<untilTick, ticker, routine, tickCount, connected, cancelled>>
    BY <1>8 DEF Publish, loginVars
  <2>2. routine = "round"
    BY <2>1 DEF RoundOK, PingTypeOK
  <2>3. Ahead' = Ahead /\ Longest' = Longest
    BY <2>1 DEF Ahead, Longest, Step, ticksPerRefresh
  <2> SUFFICES ASSUME connected, ~cancelled, NEW d \in Devices
               PROVE  (useStateRefresh' /\ Asking(d)' /\ sinceRefresh'[d] <= Longest)
                      \/ InTime(d)'
    BY <2>1, <2>2, <2>3 DEF RoundOK
  <2>4. CASE d = c /\ useStateRefresh
    <3>1. sinceRefresh'[d] = 0 /\ Ahead + Step = Longest
      BY <2>1, <2>4, AheadFacts DEF PingTypeOK, useStateRefresh
    <3>2. untilTick' \in 1 .. Ping /\ reqAge' \in [Devices -> 0 .. PublishTimeout]
      BY <2>1 DEF PingTypeOK
    <3> QED
      BY <1>0, <2>3, <3>1, <3>2 DEF InTime
  <2>5. CASE ~(d = c /\ useStateRefresh)
    <3>1. sinceRefresh'[d] = sinceRefresh[d] /\ sinceRefresh[d] \in Nat
      BY <2>1, <2>5 DEF PingTypeOK
    <3>2. CASE useStateRefresh /\ Asking(d) /\ sinceRefresh[d] <= Longest
      <4>1. d # c
        BY <2>5, <3>2
      <4> QED
        BY <2>1, <3>1, <3>2, <4>1 DEF useStateRefresh, Asking, PingTypeOK
    <3>3. CASE InTime(d)
      <4>1. sinceRefresh[d] + PublishTimeout + Ahead <= Longest
        BY <2>1, <3>3 DEF InTime, Asking
      <4>2. /\ \A e \in Devices \ {c} : request'[e] = request[e] /\ reqAge'[e] = reqAge[e]
            /\ reqAge'[c] = 0 /\ request'[c] = "sent"
        BY <2>1 DEF PingTypeOK
      <4>3. sinceRefresh[d] + PublishTimeout - 0 + Ahead <= Longest
        BY <1>0, <3>1, <4>1
      <4>4. \A e \in Devices :
              /\ Asking(e)' => sinceRefresh[d] + PublishTimeout + Ahead <= Longest
              /\ request'[e] = "sent" =>
                    sinceRefresh[d] + PublishTimeout - reqAge'[e] + Ahead <= Longest
        BY <3>3, <4>1, <4>2, <4>3 DEF InTime
      <4> QED
        BY <2>1, <2>3, <3>1, <3>3, <4>4 DEF InTime
    <3> QED
      BY <3>2, <3>3 DEF RoundOK
  <2> QED
    BY <2>4, <2>5
<1>9. ASSUME NEW c \in Devices, RequestEnds(c) PROVE RoundOK'
  <2>1. /\ request[c] = "sent" /\ request' = [request EXCEPT ![c] = "none"]
        /\ reqAge' = [reqAge EXCEPT ![c] = 0]
        /\ UNCHANGED <<untilTick, ticker, routine, tickCount, sinceRefresh, connected,
                       cancelled>>
    BY <1>9 DEF RequestEnds, loginVars
  <2>2. routine = "round"
    BY <2>1 DEF RoundOK, PingTypeOK
  <2>3. \A e \in Devices :
          /\ Asking(e)' <=> Asking(e)
          /\ request'[e] = "sent" => request[e] = "sent" /\ reqAge'[e] = reqAge[e]
    BY <2>1 DEF Asking, PingTypeOK
  <2>4. Ahead' = Ahead /\ Longest' = Longest
    BY <2>1 DEF Ahead, Longest, Step, ticksPerRefresh
  <2>5. \A d \in Devices : InTime(d) => InTime(d)'
    BY <2>1, <2>3, InTimeKept
  <2>6. UNCHANGED <<tickCount, sinceRefresh, routine, connected, cancelled>>
    BY <2>1
  <2> QED
    BY <2>2, <2>3, <2>4, <2>5, <2>6 DEF RoundOK, useStateRefresh
<1>10. CASE Connect
  <2>1. /\ sinceRefresh' = [d \in Devices |-> 0] /\ connected' = TRUE
        /\ UNCHANGED <<untilTick, ticker, routine, tickCount, request, reqAge, cancelled>>
    BY <1>10 DEF Connect, pingVars
  <2>2. untilTick \in 1 .. Ping /\ reqAge \in [Devices -> 0 .. PublishTimeout]
    BY DEF PingTypeOK
  <2>3. Ahead' = Ahead /\ Longest' = Longest
    BY <2>1 DEF Ahead, Longest, Step, ticksPerRefresh
  <2>4. \A d \in Devices : InTime(d)'
    BY <1>0, <2>1, <2>2, <2>3 DEF InTime
  <2> QED
    BY <2>1, <2>4 DEF RoundOK
<1>11. CASE TimePasses
  <2>1. /\ untilTick' = IF untilTick = 1 THEN Ping ELSE untilTick - 1
        /\ ticker' = (ticker \/ untilTick = 1)
        /\ reqAge' = [d \in Devices |-> IF request[d] = "sent" THEN reqAge[d] + 1 ELSE 0]
        /\ \A d \in Devices :
              /\ sinceRefresh'[d] <= sinceRefresh[d] + 1
              /\ sinceRefresh[d] \in Nat /\ sinceRefresh'[d] \in Nat
        /\ UNCHANGED <<connected, cancelled, routine, tickCount, request>>
    <3>1. PingTypeOK'
      BY NextPingTypeOK
    <3> QED
      BY <1>11, <3>1 DEF TimePasses, PingTypeOK, Min2
  <2>2. Ahead' = Ahead /\ Longest' = Longest
    BY <2>1 DEF Ahead, Longest, Step, ticksPerRefresh
  <2>3. \A e \in Devices : ~Asking(e)
    BY <1>11 DEF TimePasses, Due, Asking
  <2> SUFFICES ASSUME connected, ~cancelled, NEW d \in Devices PROVE InTime(d)'
    BY <2>1, <2>2 DEF RoundOK
  <2>4. InTime(d)
    BY <2>3 DEF RoundOK
  <2>5. \A e \in Devices : request[e] = "sent" =>
          /\ reqAge[e] \in 0 .. PublishTimeout - 1 /\ reqAge'[e] = reqAge[e] + 1
    BY <1>11, <2>1 DEF TimePasses, Due, PingTypeOK
  <2>6. \A e \in Devices : request[e] = "sent" =>
          sinceRefresh'[d] + PublishTimeout - reqAge'[e] + Ahead <= Longest
    BY <1>0, <2>1, <2>4, <2>5 DEF InTime
  <2>7. CASE ~ticker
    <3>1. sinceRefresh[d] + untilTick + Ahead <= Longest
      BY <2>4, <2>7 DEF InTime
    <3>2. untilTick \in 1 .. Ping /\ (IF ticker' THEN 0 ELSE untilTick') <= untilTick - 1
          /\ (IF ticker' THEN 0 ELSE untilTick') \in Nat
      <4>1. untilTick \in 1 .. Ping
        BY DEF PingTypeOK
      <4>2. CASE untilTick = 1
        <5>1. ticker'
          BY <2>1, <4>2
        <5> QED
          BY <4>2, <5>1
      <4>3. CASE untilTick # 1
        <5>1. ~ticker' /\ untilTick' = untilTick - 1
          BY <2>1, <2>7, <4>3
        <5> QED
          BY <4>1, <4>3, <5>1
      <4> QED
        BY <4>1, <4>2, <4>3
    <3>3. sinceRefresh'[d] + (IF ticker' THEN 0 ELSE untilTick') + Ahead <= Longest
      BY <1>0, <2>1, <3>1, <3>2
    <3> QED
      BY <2>1, <2>2, <2>3, <2>6, <3>3 DEF InTime, Asking
  <2>8. CASE ticker
    <3>1. routine = "round"
      BY <1>11, <2>8 DEF TimePasses, Due, RoundOK, PingTypeOK
    <3>2. PICK e \in Devices : request[e] = "sent"
      BY <1>11, <2>3, <3>1 DEF TimePasses, Due, Asking, PingTypeOK
    <3>3. sinceRefresh'[d] + 0 + Ahead <= Longest
      BY <1>0, <2>1, <2>4, <2>5, <3>2 DEF InTime
    <3>4. ticker'
      BY <2>1, <2>8
    <3> QED
      BY <2>1, <2>2, <2>3, <2>6, <3>3, <3>4 DEF InTime, Asking
  <2> QED
    BY <2>7, <2>8
<1> QED
  BY <1>2, <1>3, <1>4, <1>5, <1>6, <1>7, <1>8, <1>9, <1>10, <1>11
     DEF Next, PingStep, LoginOther

-----------------------------------------------------------------------------
\* The invariant of the ping routine and the logins.
LEMMA PingInvariant == FairSpec => []PingInv
<1>1. PingInv /\ [Next]_vars => PingInv'
  BY NextPingTypeOK, NextAddressOK, NextRoundOK DEF PingInv
<1>2. FairSpec => Init /\ [][Next]_vars
  BY PTL DEF FairSpec
<1> QED
  BY <1>1, <1>2, InitPingInv, PTL

\* However logins and requests overlap, a request is sent with a client and with
\* a user id that is not older than it (mqtt_exporter.go:118-120, 177, 612-617).
THEOREM RequestsAddressed == FairSpec => []PublishAddressed
<1>1. PingInv => PublishAddressed
  BY DEF PingInv, AddressOK, PublishAddressed
<1> QED
  BY <1>1, PingInvariant, PTL

\* For any ping and refresh intervals, any timeout and any number of devices, no
\* device goes unasked for longer than the rounds of a refresh (727-771).
THEOREM StatesRefreshed == FairSpec => []RefreshedInTime
<1>1. PingInv => RefreshedInTime
  <2> SUFFICES ASSUME PingInv, connected, ~cancelled, NEW d \in Devices
               PROVE  sinceRefresh[d] <= Longest
    BY DEF RefreshedInTime, Longest, Step, ticksPerRefresh
  <2>1. /\ Ahead \in Nat /\ Longest \in Nat /\ sinceRefresh[d] \in Nat
        /\ (IF ticker THEN 0 ELSE untilTick) \in Nat
    BY AheadFacts, StepFacts DEF PingInv, PingTypeOK
  <2>2. CASE InTime(d)
    BY <2>1, <2>2 DEF InTime
  <2> QED
    BY <2>2 DEF PingInv, RoundOK
<1> QED
  BY <1>1, PingInvariant, PTL

-----------------------------------------------------------------------------
\* After a login that began when ctx was done there is no other: it fails, and
\* its wait does not end.
LateOK ==
    /\ cancelled \in BOOLEAN
    /\ delay \in Nat /\ delay >= LoginDelay /\ waited \in Nat
    /\ lateLogins \in 0 .. 1
    /\ lateLogins = 1 =>
          /\ cancelled /\ run \in {"userId", "backoff", "ended"}
          /\ run = "backoff" => waited = 0

\* Every step of the logins keeps the delays and the count of late logins.
LEMMA NextLateOK == LateOK /\ [Next]_vars => LateOK'
<1> SUFFICES ASSUME LateOK, [Next]_vars PROVE LateOK'
  OBVIOUS
<1> USE LoginAssumption DEF LateOK
<1>1. CASE GetUserId
  <2>1. run = "userId" /\ UNCHANGED <<delay, cancelled, lateLogins>>
    BY <1>1 DEF GetUserId, FailedAttempt
  <2>2. \/ ~cancelled /\ waited' = waited
        \/ run' = "backoff" /\ waited' = 0
    BY <1>1 DEF GetUserId, FailedAttempt, Answers
  <2> QED
    BY <2>1, <2>2
<1>2. CASE NewMqttClient
  <2>1. run = "client" /\ UNCHANGED <<delay, cancelled, lateLogins>>
    BY <1>2 DEF NewMqttClient, FailedAttempt
  <2>2. waited' \in Nat
    BY <1>2 DEF NewMqttClient, FailedAttempt
  <2> QED
    BY <2>1, <2>2
<1>3. CASE Retry \/ NextSession
  <2>1. lateLogins = 0
    BY <1>3 DEF Retry, NextSession
  <2>2. /\ run' = "userId" /\ waited' = 0 /\ cancelled' = cancelled
        /\ lateLogins' = IF cancelled THEN lateLogins + 1 ELSE lateLogins
    BY <1>3 DEF Retry, NextSession, BeginAttempt
  <2>3. delay' \in Nat /\ delay' >= LoginDelay
    BY <1>3 DEF Retry, NextSession, Min2
  <2>4. CASE cancelled
    BY <2>1, <2>2, <2>3, <2>4
  <2>5. CASE ~cancelled
    BY <2>1, <2>2, <2>3, <2>5
  <2> QED
    BY <2>4, <2>5
<1>4. CASE SessionEnds
  BY <1>4 DEF SessionEnds
<1>5. CASE RunEnds
  BY <1>5 DEF RunEnds
<1>6. CASE Cancel
  BY <1>6 DEF Cancel
<1>7. CASE ServerChanges \/ ConnectionLost \/ Connect
  BY <1>7 DEF ServerChanges, ConnectionLost, Connect
<1>8. CASE TimePasses
  <2>1. /\ UNCHANGED <<run, delay, cancelled, lateLogins>>
        /\ waited' = IF run \in {"backoff", "pause"} THEN waited + 1 ELSE waited
        /\ ~(cancelled /\ run = "backoff")
    BY <1>8 DEF TimePasses, RunWaits, Due, RunDue
  <2>2. CASE run \in {"backoff", "pause"}
    <3>1. waited' = waited + 1 /\ waited \in Nat
      BY <2>1, <2>2
    <3>2. waited' \in Nat
      BY <3>1
    <3>3. lateLogins # 1
      BY <2>1, <2>2
    <3> QED
      BY <2>1, <3>2, <3>3
  <2>3. CASE run \notin {"backoff", "pause"}
    <3>1. waited' = waited
      BY <2>1, <2>3
    <3> QED
      BY <2>1, <3>1
  <2> QED
    BY <2>2, <2>3
<1>9. CASE PingStep \/ RoutineEnds
  BY <1>9 DEF PingStep, RoutineEnds, SkipTick, StartRound, EndRound, LoadClient, Publish,
              RequestEnds, loginVars
<1>10. CASE UNCHANGED vars
  BY <1>10 DEF vars, loginVars
<1> QED
  BY <1>1, <1>2, <1>3, <1>4, <1>5, <1>6, <1>7, <1>8, <1>9, <1>10 DEF Next, LoginStep

-----------------------------------------------------------------------------
\* Powers of two double.  No prover here computes them; the number of subsets of
\* 1 .. n, which the library knows, does it for them.
LEMMA TwoToTheNext ==
    ASSUME NEW n \in Nat
    PROVE  2^n \in Nat /\ 2^(n + 1) = 2 * 2^n
<1> DEFINE Old == SUBSET (1 .. n)
           New == {T \union {n + 1} : T \in Old}
           f == [T \in Old |-> T \union {n + 1}]
<1>1. IsFiniteSet(1 .. n) /\ Cardinality(1 .. n) = n
  BY FS_Interval
<1>2. IsFiniteSet(1 .. n + 1) /\ Cardinality(1 .. n + 1) = n + 1
  BY FS_Interval
<1>3. IsFiniteSet(Old) /\ Cardinality(Old) = 2^n
  BY <1>1, FS_SUBSET
<1>4. Cardinality(SUBSET (1 .. n + 1)) = 2^(n + 1)
  BY <1>2, FS_SUBSET
<1>5. IsFiniteSet(New) /\ Cardinality(New) = Cardinality(Old)
  <2>1. \A T \in Old : n + 1 \notin T
    OBVIOUS
  <2>2. f \in [Old -> New]
    OBVIOUS
  <2>3. \A T, U \in Old : T \union {n + 1} = U \union {n + 1} => T = U
    BY <2>1
  <2>4. \A T, U \in Old : f[T] = f[U] => T = U
    BY <2>3
  <2>5. \A N \in New : \E T \in Old : f[T] = N
    OBVIOUS
  <2>6. f \in Bijection(Old, New)
    BY <2>2, <2>4, <2>5, Zenon DEF Bijection, Injection, Surjection, IsInjective
  <2>7. ExistsBijection(Old, New)
    BY <2>6 DEF ExistsBijection
  <2> QED
    BY <1>3, <2>7, FS_Bijection
<1>6. SUBSET (1 .. n + 1) = Old \union New
  <2>1. ASSUME NEW T \in SUBSET (1 .. n + 1), n + 1 \in T PROVE T \in New
    <3>1. T \ {n + 1} \in Old
      OBVIOUS
    <3>2. T = (T \ {n + 1}) \union {n + 1}
      BY <2>1
    <3> QED
      BY <3>1, <3>2
  <2>2. ASSUME NEW T \in SUBSET (1 .. n + 1), n + 1 \notin T PROVE T \in Old
    BY <2>2
  <2>3. \A i \in 1 .. n : i \in 1 .. n + 1
    OBVIOUS
  <2>4. n + 1 \in 1 .. n + 1
    OBVIOUS
  <2>5. Old \union New \subseteq SUBSET (1 .. n + 1)
    BY <2>3, <2>4, Zenon
  <2> QED
    BY <2>1, <2>2, <2>5
<1>7. Old \intersect New = {}
  OBVIOUS
<1>8. Cardinality(SUBSET (1 .. n + 1)) = Cardinality(Old) + Cardinality(New) - Cardinality({})
  <2> HIDE DEF Old, New
  <2>1. Cardinality(Old \union New)
           = Cardinality(Old) + Cardinality(New) - Cardinality(Old \intersect New)
    BY <1>3, <1>5, FS_Union, Zenon
  <2> QED
    BY <2>1, <1>6, <1>7, Zenon
<1>9. Cardinality({}) = 0 /\ Cardinality(Old) \in Nat
  BY <1>3, FS_EmptySet, FS_CardinalityType
<1> QED
  BY <1>3, <1>4, <1>5, <1>8, <1>9

\* The least delay after n failures.
LeastDelay(n) == Min2(LoginDelay * 2^n, MaxLoginDelay)

\* It doubles up to its limit.
LEMMA LeastDelayDoubles ==
    ASSUME NEW n \in Nat
    PROVE  /\ LeastDelay(n) \in Nat
           /\ LeastDelay(n + 1) = Min2(2 * LeastDelay(n), MaxLoginDelay)
           /\ LeastDelay(n) <= LeastDelay(n + 1)
<1>1. PICK p \in Nat : p = 2^n /\ 2^(n + 1) = 2 * p
  BY TwoToTheNext
<1>2. PICK q \in Nat : q = LoginDelay * p
  BY LoginAssumption
<1>3. LoginDelay * (2 * p) = 2 * q
  BY <1>2, LoginAssumption
<1>4. LeastDelay(n) = Min2(q, MaxLoginDelay) /\ LeastDelay(n + 1) = Min2(2 * q, MaxLoginDelay)
  BY <1>1, <1>2, <1>3 DEF LeastDelay
<1> QED
  BY <1>4, LoginAssumption DEF Min2

\* Before the first failure it is the first delay.
LEMMA LeastDelayStarts == LeastDelay(0) = LoginDelay
<1>1. LoginDelay * 2^0 = LoginDelay
  BY LoginAssumption
<1> QED
  BY <1>1, LoginAssumption DEF LeastDelay, Min2

\* delay keeps up with the failures of this login.
PaceOK ==
    /\ delay \in Nat /\ failures \in 0 .. FailureCap
    /\ run \in {"userId", "client"} => delay >= LeastDelay(failures)
    /\ run = "backoff" => failures > 0 /\ delay >= LeastDelay(failures - 1)

\* A failed attempt is counted, and its delay is long enough.
LEMMA FailureKeepsPace ==
    ASSUME PaceOK, run \in {"userId", "client"}, FailedAttempt
    PROVE  PaceOK'
<1>1. /\ run' = "backoff" /\ delay' = delay
      /\ failures' = Min2(failures + 1, FailureCap)
  BY DEF FailedAttempt
<1>2. /\ delay \in Nat /\ failures \in Nat /\ failures <= FailureCap
      /\ FailureCap \in Nat /\ FailureCap > 0 /\ delay >= LeastDelay(failures)
  BY LoginAssumption DEF PaceOK, FailureCap
<1>3. CASE failures < FailureCap
  <2>1. failures' = failures + 1 /\ failures' - 1 = failures
    BY <1>1, <1>2, <1>3 DEF Min2
  <2>2. failures' \in 0 .. FailureCap /\ failures' > 0
    BY <1>2, <1>3, <2>1
  <2> QED
    BY <1>1, <1>2, <2>1, <2>2 DEF PaceOK, FailureCap
<1>4. CASE failures = FailureCap
  <2>1. failures' = failures
    BY <1>1, <1>2, <1>4 DEF Min2
  <2>2. failures - 1 \in Nat /\ (failures - 1) + 1 = failures
    BY <1>2, <1>4
  <2>3. LeastDelay(failures - 1) <= LeastDelay(failures) /\ LeastDelay(failures - 1) \in Nat
    BY <2>2, LeastDelayDoubles
  <2>4. LeastDelay(failures) \in Nat
    BY <1>2, LeastDelayDoubles
  <2>5. delay' >= LeastDelay(failures' - 1)
    BY <1>1, <1>2, <2>1, <2>3, <2>4
  <2> QED
    BY <1>1, <1>2, <1>4, <2>1, <2>5 DEF PaceOK, FailureCap
<1> QED
  BY <1>2, <1>3, <1>4

\* Every step of the logins keeps the pace.
LEMMA NextPaceOK == PaceOK /\ [Next]_vars => PaceOK'
<1> SUFFICES ASSUME PaceOK, [Next]_vars PROVE PaceOK'
  OBVIOUS
<1>1. CASE GetUserId
  <2>1. CASE FailedAttempt
    BY <1>1, <2>1, FailureKeepsPace DEF GetUserId
  <2>2. CASE ~FailedAttempt
    <3>1. run = "userId" /\ run' = "client" /\ UNCHANGED <<delay, failures>>
      BY <1>1, <2>2 DEF GetUserId
    <3> QED
      BY <3>1 DEF PaceOK, LeastDelay, FailureCap
  <2> QED
    BY <2>1, <2>2
<1>2. CASE NewMqttClient
  <2>1. CASE FailedAttempt
    BY <1>2, <2>1, FailureKeepsPace DEF NewMqttClient
  <2>2. CASE ~FailedAttempt
    <3>1. run' = "session" /\ UNCHANGED <<delay, failures>>
      BY <1>2, <2>2 DEF NewMqttClient
    <3> QED
      BY <3>1 DEF PaceOK, FailureCap
  <2> QED
    BY <2>1, <2>2
<1>3. CASE Retry
  <2>1. /\ run = "backoff" /\ run' = "userId" /\ failures' = failures
        /\ delay' = Min2(2 * delay, MaxLoginDelay)
    BY <1>3 DEF Retry, BeginAttempt
  <2>2. failures - 1 \in Nat /\ (failures - 1) + 1 = failures
    BY <2>1, LoginAssumption DEF PaceOK, FailureCap
  <2>3. /\ LeastDelay(failures - 1) \in Nat
        /\ LeastDelay(failures) = Min2(2 * LeastDelay(failures - 1), MaxLoginDelay)
    BY <2>2, LeastDelayDoubles
  <2>4. delay \in Nat /\ delay >= LeastDelay(failures - 1)
    BY <2>1 DEF PaceOK
  <2>5. delay' \in Nat /\ delay' >= LeastDelay(failures)
    BY <2>1, <2>3, <2>4, LoginAssumption DEF Min2
  <2> QED
    BY <2>1, <2>5 DEF PaceOK, LeastDelay, FailureCap
<1>4. CASE NextSession
  <2>1. run' = "userId" /\ failures' = 0 /\ delay' = LoginDelay
    BY <1>4 DEF NextSession, BeginAttempt
  <2>2. delay' \in Nat /\ delay' >= LeastDelay(failures')
    BY <2>1, LeastDelayStarts, LoginAssumption
  <2>3. failures' \in 0 .. FailureCap
    BY <2>1, LoginAssumption DEF FailureCap
  <2> QED
    BY <2>1, <2>2, <2>3 DEF PaceOK, FailureCap, LeastDelay
<1>5. CASE SessionEnds \/ RunEnds
  BY <1>5 DEF SessionEnds, RunEnds, PaceOK, FailureCap
<1>6. CASE UNCHANGED <<run, delay, failures>>
  BY <1>6 DEF PaceOK, LeastDelay, FailureCap
<1>7. Cancel \/ ServerChanges \/ ConnectionLost \/ PingStep \/ RoutineEnds \/ Connect
      \/ TimePasses \/ UNCHANGED vars => UNCHANGED <<run, delay, failures>>
  BY DEF Cancel, ServerChanges, ConnectionLost, PingStep, RoutineEnds, Connect, TimePasses,
         vars, loginVars, SkipTick, StartRound, EndRound, LoadClient, Publish, RequestEnds
<1> QED
  BY <1>1, <1>2, <1>3, <1>4, <1>5, <1>6, <1>7 DEF Next, LoginStep

\* However logins fail, none begins sooner than 2^n times the first delay after n
\* failures, up to the limit, and at most one once ctx is done (retry.go:13-30,
\* mqtt_exporter.go:152-156).
THEOREM LoginsArePaced == FairSpec => LoginsSpaced
<1>1. Init => LateOK /\ PaceOK
  <2> SUFFICES ASSUME Init PROVE LateOK /\ PaceOK
    OBVIOUS
  <2>1. /\ cancelled = FALSE /\ delay = LoginDelay /\ waited = 0 /\ lateLogins = 0
        /\ run = "userId" /\ failures = 0
    BY DEF Init, LoginInit
  <2>2. delay \in Nat /\ delay >= LoginDelay /\ waited \in Nat
    BY <2>1, LoginAssumption
  <2>3. lateLogins \in 0 .. 1 /\ lateLogins # 1
    BY <2>1
  <2>4. cancelled \in BOOLEAN
    BY <2>1
  <2>5. failures \in 0 .. FailureCap
    BY <2>1, LoginAssumption DEF FailureCap
  <2>6. delay >= LeastDelay(failures)
    BY <2>1, <2>2, LeastDelayStarts
  <2>7. LateOK
    BY <2>2, <2>3, <2>4 DEF LateOK
  <2>8. PaceOK
    BY <2>1, <2>2, <2>5, <2>6 DEF PaceOK
  <2> QED
    BY <2>7, <2>8
<1>2. LateOK /\ LateOK' /\ PaceOK /\ [Next]_vars =>
        [run' = "userId" /\ run \in {"backoff", "pause"} =>
            waited >= LoginGap /\ lateLogins' <= 1]_vars
  <2> SUFFICES ASSUME LateOK', PaceOK, Next, run' = "userId", run \in {"backoff", "pause"}
               PROVE  waited >= LoginGap /\ lateLogins' <= 1
    OBVIOUS
  <2>1. Retry \/ NextSession
    BY DEF Next, LoginStep, GetUserId, NewMqttClient, SessionEnds, RunEnds, Cancel,
           ServerChanges, ConnectionLost, PingStep, RoutineEnds, SkipTick, StartRound,
           EndRound, LoadClient, Publish, RequestEnds, Connect, TimePasses, loginVars
  <2>2. CASE Retry
    <3>1. run = "backoff" /\ waited = delay
      BY <2>2 DEF Retry
    <3>2. LoginGap = LeastDelay(failures - 1)
      BY <3>1 DEF LoginGap, LeastDelay
    <3> QED
      BY <3>1, <3>2 DEF PaceOK, LateOK
  <2>3. CASE NextSession
    <3>1. run = "pause" /\ waited = LoginDelay
      BY <2>3 DEF NextSession
    <3>2. waited >= LoginGap
      BY <3>1, LoginAssumption DEF LoginGap
    <3> QED
      BY <3>2 DEF LateOK
  <2> QED
    BY <2>1, <2>2, <2>3
<1>3. FairSpec => Init /\ [][Next]_vars
  BY PTL DEF FairSpec
<1> QED
  BY <1>1, <1>2, <1>3, NextLateOK, NextPaceOK, PTL DEF LoginsSpaced

=============================================================================
