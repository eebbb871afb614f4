---------------------------- MODULE ProcessProofs ---------------------------
(* The life of the process, for any intervals and limits and any            *)
(* environment: when the watchdog gives up, why the process ends, and which *)
(* configuration the exporter gets.                                         *)
(*   - The watchdog: three clocks started at different moments, the row of  *)
(*     failed checks, the failure itself and the last good check, are       *)
(*     compared with each other and with the next tick (ClocksOK, InTime).  *)
(*   - The ends of the process: who set what the exit code is computed from *)
(*     (VerdictOK, EndsOK).                                                 *)
(*   - The start: cfg is what LoadConfig made of an environment without     *)
(*     errors until Run has it (StartOK).                                   *)
EXTENDS Process, TLAPS

ProcessTypeOK ==
    /\ healthy \in BOOLEAN /\ ticker \in BOOLEAN
    /\ signalled \in BOOLEAN /\ cause \in BOOLEAN
    /\ untilTick \in 1 .. Interval
    /\ failingSince \in 0 .. AgeCap \cup {Absent}
    /\ unhealthyFor \in 0 .. AgeCap \cup {Absent}
    /\ sinceGood \in 0 .. AgeCap
    /\ watchdog \in {"running", "fired", "ended"}
    /\ exporter \in {"running", "returned"}
    /\ main \in {"running", "closing", "exited"}
    /\ result \in {"none", "ok", "error"}

\* The row of failed checks began after the last good one.
ClocksOK ==
    /\ healthy <=> unhealthyFor = Absent
    /\ failingSince # Absent => failingSince <= sinceGood

\* Time since the latest tick, or the interval if it was not taken yet.
SinceTick == IF ticker THEN Interval ELSE Interval - untilTick

\* While the watchdog watches: a failure that no check has seen is younger than
\* the latest tick, one that a check has seen began at most an interval before
\* the row, and the row is no older than the limit when it was last checked.
InTime ==
    watchdog = "running" /\ ~runCtxDone =>
        /\ ticker => untilTick = Interval
        /\ unhealthyFor # Absent =>
              unhealthyFor <= IF failingSince = Absent THEN SinceTick
                              ELSE failingSince + Interval
        /\ failingSince # Absent => failingSince <= Limit + SinceTick

\* The verdict is about a row that lasts for more than the limit, and the row
\* stays as it was.
VerdictOK ==
    /\ watchdog = "fired" \/ cause => failingSince # Absent /\ failingSince > Limit
    /\ cause => watchdog = "ended"

\* Run returns because of a signal or the verdict, and the result is about that.
EndsOK ==
    /\ exporter = "returned" => signalled \/ cause
    /\ main = "running" => result = "none"
    /\ main # "running" => exporter = "returned" /\ result # "none"
    /\ result = "ok" => signalled
    /\ result = "error" => cause

WatchdogInv == ProcessTypeOK /\ ClocksOK /\ InTime /\ VerdictOK /\ EndsOK

-----------------------------------------------------------------------------
(* The watchdog                                                            *)

\* Clocks go on together, and stop only at the bound.
LEMMA OlderFacts ==
    ASSUME NEW a \in 0 .. AgeCap
    PROVE  /\ Older(a) \in 0 .. AgeCap /\ Older(a) <= a + 1 /\ a <= Older(a)
           /\ a < AgeCap => Older(a) = a + 1
           /\ \A b \in 0 .. AgeCap : a <= b => Older(a) <= Older(b)
           /\ Older(Absent) = Absent /\ a # Absent /\ AgeCap \in Nat
  BY WatchdogAssumption DEF Older, AgeCap

\* The process starts with an exporter that has not connected yet.
LEMMA InitWatchdogInv == Init => WatchdogInv
<1> SUFFICES ASSUME Init PROVE WatchdogInv
  OBVIOUS
<1>1. Interval \in 1 .. Interval /\ 0 \in 0 .. AgeCap /\ 0 # Absent
  BY WatchdogAssumption DEF AgeCap
<1>2. ProcessTypeOK
  BY <1>1 DEF Init, ProcessTypeOK
<1>3. ClocksOK /\ VerdictOK /\ EndsOK
  BY <1>1 DEF Init, ClocksOK, VerdictOK, EndsOK
<1>4. InTime
  <2>1. SinceTick = 0
    BY <1>1, WatchdogAssumption DEF Init, SinceTick
  <2> QED
    BY <1>1, <2>1 DEF Init, InTime
<1> QED
  BY <1>2, <1>3, <1>4 DEF WatchdogInv

\* A check of the watchdog keeps its clocks.
LEMMA CheckKeeps == ASSUME WatchdogInv, Check PROVE WatchdogInv'
<1> USE WatchdogAssumption DEF WatchdogInv, ProcessTypeOK, wdVars, procVars
<1>1. /\ UNCHANGED <<healthy, untilTick, signalled, cause, exporter, main, result,
                     unhealthyFor>>
      /\ ticker /\ ticker' = FALSE /\ watchdog = "running"
      /\ AgeCap \in Nat
  BY DEF Check, AgeCap
<1>2. CASE healthy
  <2>1. failingSince' = Absent /\ sinceGood' = 0 /\ watchdog' = "running"
    BY <1>1, <1>2 DEF Check
  <2> QED
    BY <1>1, <1>2, <2>1 DEF ClocksOK, InTime, SinceTick, VerdictOK, EndsOK, runCtxDone
<1>3. CASE ~healthy /\ failingSince = Absent
  <2>1. failingSince' = 0 /\ sinceGood' = sinceGood /\ watchdog' = "running"
    BY <1>1, <1>3 DEF Check
  <2> QED
    BY <1>1, <1>3, <2>1 DEF ClocksOK, InTime, SinceTick, VerdictOK, EndsOK, runCtxDone
<1>4. CASE ~healthy /\ failingSince # Absent
  <2>1. /\ failingSince' = failingSince /\ sinceGood' = sinceGood
        /\ watchdog' = IF failingSince > Limit THEN "fired" ELSE "running"
    BY <1>1, <1>4 DEF Check
  <2>2. ProcessTypeOK' /\ ClocksOK'
    BY <1>1, <2>1 DEF ClocksOK
  <2>3. VerdictOK'
    BY <1>1, <1>4, <2>1 DEF VerdictOK
  <2>4. EndsOK'
    BY <1>1 DEF EndsOK
  <2>5. InTime'
    <3> SUFFICES ASSUME watchdog' = "running", ~runCtxDone'
                 PROVE  /\ unhealthyFor # Absent => unhealthyFor <= failingSince + Interval
                        /\ failingSince <= Limit + SinceTick'
      BY <1>1, <1>4, <2>1 DEF InTime
    <3>1. ~runCtxDone /\ watchdog = "running"
      BY <1>1 DEF runCtxDone
    <3>2. unhealthyFor # Absent => unhealthyFor <= failingSince + Interval
      BY <3>1, <1>4 DEF InTime
    <3>3. failingSince \in Int /\ failingSince <= Limit
      BY <1>4, <2>1
    <3>4. untilTick = Interval /\ SinceTick' = 0
      BY <1>1, <3>1 DEF InTime, SinceTick
    <3> QED
      BY <3>2, <3>3, <3>4
  <2> QED
    BY <2>2, <2>3, <2>4, <2>5 DEF ClocksOK
<1> QED
  BY <1>2, <1>3, <1>4

\* So does time, which never passes a check that is due.
LEMMA TimeKeeps == ASSUME WatchdogInv, TimePasses PROVE WatchdogInv'
<1> USE WatchdogAssumption DEF WatchdogInv
<1>1. /\ UNCHANGED <<healthy, watchdog, signalled, cause, exporter, main, result>>
      /\ ticker => watchdog # "running"
      /\ watchdog # "fired"
      /\ untilTick' = IF untilTick = 1 THEN Interval ELSE untilTick - 1
      /\ ticker' = (ticker \/ untilTick = 1)
      /\ failingSince' = Older(failingSince)
      /\ unhealthyFor' = Older(unhealthyFor)
      /\ sinceGood' = Older(sinceGood)
  BY DEF TimePasses, procVars
<1>2. /\ AgeCap = Limit + 2 * Interval + 1 /\ Interval \in Nat \ {0}
      /\ Limit \in Nat \ {0} /\ Absent \notin Int /\ Older(Absent) = Absent
  BY DEF AgeCap, Older
<1>3. ProcessTypeOK'
  BY <1>1, <1>2, OlderFacts DEF ProcessTypeOK
<1>4. ClocksOK'
  BY <1>1, <1>2, OlderFacts DEF ProcessTypeOK, ClocksOK
<1>5. InTime'
  <2> SUFFICES ASSUME watchdog = "running", ~runCtxDone
               PROVE  /\ ticker' => untilTick' = Interval
                      /\ unhealthyFor' # Absent =>
                            unhealthyFor' <= IF failingSince' = Absent THEN SinceTick'
                                             ELSE failingSince' + Interval
                      /\ failingSince' # Absent => failingSince' <= Limit + SinceTick'
    BY <1>1 DEF InTime, runCtxDone
  <2>1. ~ticker /\ SinceTick' = SinceTick + 1 /\ (ticker' => untilTick' = Interval)
        /\ SinceTick \in 0 .. Interval - 1
    <3>1. ~ticker
      BY <1>1
    <3>2. untilTick \in 1 .. Interval
      BY DEF ProcessTypeOK
    <3>3. SinceTick = Interval - untilTick
      BY <3>1 DEF SinceTick
    <3>4. CASE untilTick = 1
      <4>1. ticker' /\ untilTick' = Interval
        BY <1>1, <3>4
      <4> QED
        BY <1>2, <3>1, <3>3, <3>4, <4>1 DEF SinceTick
    <3>5. CASE untilTick # 1
      <4>1. ~ticker' /\ untilTick' = untilTick - 1
        BY <1>1, <3>1, <3>5
      <4> QED
        BY <1>2, <3>1, <3>2, <3>3, <3>5, <4>1 DEF SinceTick
    <3> QED
      BY <3>4, <3>5
  <2>2. failingSince # Absent => failingSince \in 0 .. AgeCap - 1
    BY <1>2, <2>1 DEF InTime, ProcessTypeOK
  <2>3. failingSince # Absent => failingSince' = failingSince + 1
    BY <1>1, <1>2, <2>2, OlderFacts
  <2>4. unhealthyFor' # Absent =>
           unhealthyFor # Absent /\ unhealthyFor' \in Int /\ unhealthyFor' <= unhealthyFor + 1
    BY <1>1, <1>2, OlderFacts DEF ProcessTypeOK
  <2>5. failingSince' = Absent <=> failingSince = Absent
    BY <1>1, <1>2, <2>2, <2>3
  <2>6. unhealthyFor # Absent => unhealthyFor \in Int
    BY DEF ProcessTypeOK
  <2>7. /\ unhealthyFor # Absent =>
              unhealthyFor <= IF failingSince = Absent THEN SinceTick
                              ELSE failingSince + Interval
        /\ failingSince # Absent => failingSince <= Limit + SinceTick
    BY DEF InTime
  <2> QED
    BY <1>2, <2>1, <2>2, <2>3, <2>4, <2>5, <2>6, <2>7
<1>6. VerdictOK'
  BY <1>1, <1>2, OlderFacts DEF ProcessTypeOK, VerdictOK
<1>7. EndsOK'
  BY <1>1 DEF EndsOK
<1> QED
  BY <1>3, <1>4, <1>5, <1>6, <1>7

\* Every step of the process keeps the clocks, the verdict and the result right.
LEMMA NextWatchdogInv == WatchdogInv /\ [Next]_vars => WatchdogInv'
<1> SUFFICES ASSUME WatchdogInv, [Next]_vars PROVE WatchdogInv'
  OBVIOUS
<1> USE WatchdogAssumption DEF WatchdogInv, ProcessTypeOK, ClocksOK, VerdictOK, EndsOK,
        InTime, SinceTick, runCtxDone, wdVars, procVars
<1>1. CASE HealthChanges
  BY <1>1 DEF HealthChanges, AgeCap
<1>2. CASE CancelRun \/ WatchdogEnds
  <2>1. /\ UNCHANGED <<healthy, untilTick, ticker, failingSince, signalled, exporter,
                       main, result, unhealthyFor, sinceGood>>
        /\ watchdog' = "ended" /\ cause' \in BOOLEAN /\ (cause => cause')
        /\ cause' => cause \/ watchdog = "fired"
    <3>1. CASE CancelRun
      BY <3>1 DEF CancelRun
    <3>2. CASE WatchdogEnds
      BY <3>2 DEF WatchdogEnds
    <3> QED
      BY <1>2, <3>1, <3>2
  <2>2. ProcessTypeOK' /\ ClocksOK' /\ InTime'
    BY <2>1
  <2>3. VerdictOK' /\ EndsOK'
    BY <2>1
  <2> QED
    BY <2>2, <2>3
<1>3. CASE Signal
  BY <1>3 DEF Signal
<1>6. CASE ExporterReturns
  <2>1. /\ UNCHANGED <<wdVars, signalled, cause, main, result, sinceGood>>
        /\ exporter' = "returned" /\ runCtxDone /\ healthy' = FALSE
        /\ unhealthyFor' = IF healthy THEN 0 ELSE unhealthyFor
    BY <1>6 DEF ExporterReturns
  <2>2. 0 \in 0 .. AgeCap /\ 0 # Absent
    BY DEF AgeCap
  <2>3. ProcessTypeOK'
    BY <2>1, <2>2
  <2>4. ClocksOK'
    BY <2>1, <2>2
  <2>5. VerdictOK' /\ InTime'
    BY <2>1
  <2>6. EndsOK'
    BY <1>6, <2>1 DEF ExporterReturns
  <2> QED
    BY <2>3, <2>4, <2>5, <2>6
<1>4. CASE MainReturns \/ CloseServer
  BY <1>4 DEF MainReturns, CloseServer
<1>5. CASE UNCHANGED vars
  BY <1>5 DEF vars
<1> QED
  BY <1>1, <1>2, <1>3, <1>4, <1>5, <1>6, CheckKeeps, TimeKeeps DEF Next

-----------------------------------------------------------------------------
(* The whole process                                                       *)

\* The watchdog's part of the state changes only by its own steps.
LEMMA ProcessStepsOfRun == [ProcessNext]_processVars => [Next]_vars
<1> SUFFICES ASSUME [ProcessNext]_processVars PROVE Next \/ UNCHANGED vars
  OBVIOUS
<1>1. CASE Live
  BY <1>1 DEF Live, InRun
<1>2. CASE SignalStarting
  BY <1>2 DEF SignalStarting, Next
<1>3. CASE Boot \/ Killed
  BY <1>3 DEF Boot, Killed, Load, NotifyContext, CreateExporter, NewHTTPServer,
              SetHealthCheck, StartRun
<1>4. CASE ProbeBegins \/ ProbeAnswered \/ ProbeOver
  BY <1>4 DEF ProbeBegins, ProbeAnswered, ProbeOver
<1>5. CASE UNCHANGED processVars
  BY <1>5 DEF processVars
<1> QED
  BY <1>1, <1>2, <1>3, <1>4, <1>5 DEF ProcessNext

\* The watchdog's invariant holds in every run of the process.
LEMMA WatchdogInvariant == ProcessSpec => []WatchdogInv
<1>1. ProcessInit => WatchdogInv
  BY InitWatchdogInv DEF ProcessInit
<1>2. WatchdogInv /\ [ProcessNext]_processVars => WatchdogInv'
  BY NextWatchdogInv, ProcessStepsOfRun
<1>3. ProcessSpec => ProcessInit /\ [][ProcessNext]_processVars
  BY PTL DEF ProcessSpec
<1> QED
  BY <1>1, <1>2, <1>3, PTL

\* While nothing else ends the exporter, it is not left unhealthy for longer than
\* the limit and two intervals, for any interval and limit (main.go:104-127).
THEOREM WatchdogFiresInTime == ProcessSpec => []FiresInTime
<1>1. WatchdogInv => FiresInTime
  <2> SUFFICES ASSUME WatchdogInv, watchdog = "running", ~runCtxDone, unhealthyFor # Absent
               PROVE  unhealthyFor <= Limit + 2 * Interval
    BY DEF FiresInTime
  <2>1. SinceTick \in 0 .. Interval
    BY WatchdogAssumption DEF WatchdogInv, ProcessTypeOK, SinceTick
  <2>2. unhealthyFor \in Int /\ (failingSince # Absent => failingSince \in Int)
    BY DEF WatchdogInv, ProcessTypeOK
  <2> QED
    BY <2>1, <2>2, WatchdogAssumption DEF WatchdogInv, InTime
<1> QED
  BY <1>1, WatchdogInvariant, PTL

\* The verdict falls only on an exporter that is unhealthy at that moment and had
\* no good check for more than the limit (main.go:112-125).
THEOREM WatchdogIsJust == ProcessSpec => GivesUpOnlyWhenUnhealthy
<1>1. WatchdogInv /\ [ProcessNext]_processVars =>
        [watchdog' = "fired" /\ watchdog # "fired" => ~healthy /\ sinceGood > Limit]_vars
  <2> SUFFICES ASSUME WatchdogInv, Next, watchdog' = "fired", watchdog # "fired"
               PROVE  ~healthy /\ sinceGood > Limit
    BY ProcessStepsOfRun
  <2>1. Check
    BY DEF Next, HealthChanges, TimePasses, CancelRun, WatchdogEnds, Signal,
           ExporterReturns, MainReturns, CloseServer, wdVars
  <2>2. ~healthy /\ failingSince # Absent /\ failingSince > Limit
    BY <2>1 DEF Check
  <2> QED
    BY <2>2, WatchdogAssumption DEF WatchdogInv, ProcessTypeOK, ClocksOK
<1>2. ProcessSpec => [][ProcessNext]_processVars
  BY PTL DEF ProcessSpec
<1> QED
  BY <1>1, <1>2, WatchdogInvariant, PTL DEF GivesUpOnlyWhenUnhealthy

\* Only a probe that begins early finds no check to ask.
ProbeInv ==
    /\ probe = "nil" => probeEarly
    /\ boot \in {"start", "up"} => healthSet

\* The health check is set before Run is called and never taken away.
LEMMA ProbeInvariant == ProcessSpec => []ProbeInv
<1>1. ProcessInit => ProbeInv
  BY DEF ProcessInit, ProbeInv
<1>2. ProbeInv /\ [ProcessNext]_processVars => ProbeInv'
  <2> SUFFICES ASSUME ProbeInv, [ProcessNext]_processVars PROVE ProbeInv'
    OBVIOUS
  <2>1. CASE Live \/ SignalStarting
    BY <2>1 DEF Live, InRun, SignalStarting, bootVars, probeVars, ProbeInv
  <2>2. CASE Boot \/ Killed
    BY <2>2 DEF Boot, Killed, Load, NotifyContext, CreateExporter, NewHTTPServer,
                SetHealthCheck, StartRun, probeVars, ProbeInv
  <2>3. CASE ProbeBegins \/ ProbeAnswered \/ ProbeOver
    BY <2>3 DEF ProbeBegins, ProbeAnswered, ProbeOver, Serving, bootVars, ProbeInv
  <2>4. CASE UNCHANGED processVars
    BY <2>4 DEF processVars, bootVars, probeVars, ProbeInv
  <2> QED
    BY <2>1, <2>2, <2>3, <2>4 DEF ProcessNext
<1>3. ProcessSpec => ProcessInit /\ [][ProcessNext]_processVars
  BY PTL DEF ProcessSpec
<1> QED
  BY <1>1, <1>2, <1>3, PTL

\* A probe that begins after Run was called is answered with 200 only by an
\* exporter that is healthy when it is asked (http_server.go:47-66).
THEOREM ProbeIsRight == ProcessSpec => OkIsHealthy
<1>1. ProbeInv /\ [ProcessNext]_processVars =>
        [probe' = "ok" /\ probe # "ok" => healthy \/ probeEarly]_processVars
  <2> SUFFICES ASSUME ProbeInv, ProcessNext, probe' = "ok", probe # "ok"
               PROVE  healthy \/ probeEarly
    OBVIOUS
  <2>1. ProbeAnswered
    BY DEF ProcessNext, Live, InRun, SignalStarting, Boot, Killed, Load, NotifyContext,
           CreateExporter, NewHTTPServer, SetHealthCheck, StartRun, ProbeBegins,
           ProbeOver, probeVars
  <2> QED
    BY <2>1 DEF ProbeAnswered, ProbeInv
<1>2. ProcessSpec => [][ProcessNext]_processVars
  BY PTL DEF ProcessSpec
<1> QED
  BY <1>1, <1>2, ProbeInvariant, PTL DEF OkIsHealthy

-----------------------------------------------------------------------------
(* The configuration                                                       *)

\* A product that fits a time.Duration is what it says.
LEMMA WrappedFits ==
    ASSUME NEW n \in Nat, n < HalfRange
    PROVE  Wrapped(n) = n
<1>1. HalfRange \in Nat /\ n + HalfRange \in 0 .. 2 * HalfRange - 1
  BY ConfigurationAssumption
<1>2. \A a \in Nat, m \in Nat : a < m => a % m = a
  BY Z3
<1> QED
  BY <1>1, <1>2 DEF Wrapped

\* The type that LoadConfig accepts, and what it has checked for it.
LEMMA TypeChecked ==
    ASSUME NEW e, TypeErrors(e) = {}
    PROVE  LET type == ExporterType(e)
               c == Credentials(e)
           IN /\ type \in {"rest", "mqtt"}
              /\ type = "rest" => NoText \notin {c.accessKey, c.secretKey}
              /\ type = "mqtt" => /\ NoText \notin {c.email, c.password}
                                  /\ Mapping(e) # NoDevices
              /\ \A k \in DOMAIN Intervals(type) :
                    SecondsErrors(e, k, Intervals(type)[k]) = {}
<1> DEFINE type == ExporterType(e)
           c == Credentials(e)
           numbers == {SecondsErrors(e, k, Intervals(type)[k]) : k \in DOMAIN Intervals(type)}
           rest == IF NoText \in {c.accessKey, c.secretKey} THEN {"access key"} ELSE {}
           mqtt == (IF NoText \in {c.email, c.password} THEN {"password"} ELSE {})
                   \cup (IF Mapping(e) = NoDevices THEN {"devices"} ELSE {})
           others == CASE type = "rest" -> rest [] type = "mqtt" -> mqtt
                       [] OTHER -> {"EXPORTER_TYPE"}
<1>1. TypeErrors(e) = (UNION numbers) \cup others
  BY Zenon DEF TypeErrors
<1>2. /\ type = "rest" => others = rest
      /\ type = "mqtt" => others = mqtt
      /\ type \notin {"rest", "mqtt"} => others = {"EXPORTER_TYPE"}
  BY Zenon
<1> HIDE DEF others, numbers
<1>3. others = {} /\ UNION numbers = {}
  BY <1>1
<1>4. type \in {"rest", "mqtt"}
  BY <1>2, <1>3
<1>5. type = "rest" => NoText \notin {c.accessKey, c.secretKey}
  BY <1>2, <1>3
<1>6. type = "mqtt" => NoText \notin {c.email, c.password} /\ Mapping(e) # NoDevices
  BY <1>2, <1>3
<1>7. \A k \in DOMAIN Intervals(type) : SecondsErrors(e, k, Intervals(type)[k]) = {}
  BY <1>3 DEF numbers
<1> QED
  BY <1>4, <1>5, <1>6, <1>7

\* The intervals that there are to set, each with a default that fits.
LEMMA IntervalsOfType ==
    ASSUME NEW type \in {"rest", "mqtt"}
    PROVE  /\ DOMAIN Intervals(type) =
                 IF type = "rest" THEN {"SCRAPING_INTERVAL"}
                 ELSE {"MQTT_DEVICE_OFFLINE_THRESHOLD_SECONDS", "MQTT_PING_INTERVAL_SECONDS",
                       "MQTT_STATE_REFRESH_INTERVAL_SECONDS"}
           /\ \A k \in DOMAIN Intervals(type) :
                 Intervals(type)[k] \in {DefaultRestInterval, DefaultOfflineThreshold,
                     DefaultPingInterval, DefaultStateRefreshInterval}
<1> DEFINE rest == [SCRAPING_INTERVAL |-> DefaultRestInterval]
           mqtt == [MQTT_DEVICE_OFFLINE_THRESHOLD_SECONDS |-> DefaultOfflineThreshold,
                    MQTT_PING_INTERVAL_SECONDS |-> DefaultPingInterval,
                    MQTT_STATE_REFRESH_INTERVAL_SECONDS |-> DefaultStateRefreshInterval]
<1>1. type = "rest" => Intervals(type) = rest
  BY Zenon DEF Intervals
<1>2. type = "mqtt" => Intervals(type) = mqtt
  BY Zenon DEF Intervals
<1>3. CASE type = "rest"
  BY <1>1, <1>3
<1>4. CASE type = "mqtt"
  BY <1>2, <1>4
<1> QED
  BY <1>3, <1>4

\* What an accepted configuration says of its intervals: each variable gave a
\* positive number or none, and the duration is it unless it does not fit.
LEMMA IntervalsAccepted ==
    ASSUME NEW e \in Environments, ConfigErrors(e) = {},
           NEW k \in DOMAIN LoadConfig(e).intervals
    PROVE  LET c == LoadConfig(e)
               wanted == IF e[k] \in {Unset, Blank} THEN Intervals(c.type)[k] ELSE e[k].v
           IN /\ c.type \in {"rest", "mqtt"} /\ k \in DOMAIN Intervals(c.type)
              /\ wanted \in Nat \ {0}
              /\ Overflows(wanted) \/ c.intervals[k] = wanted * Second
              /\ Given(e, k) => e[k].is = "number"
<1> DEFINE type == ExporterType(e)
           def == Intervals(type)[k]
           wanted == IF e[k] \in {Unset, Blank} THEN def ELSE e[k].v
<1>1. TypeErrors(e) = {}
  BY DEF ConfigErrors
<1>2. /\ LoadConfig(e).type = type
      /\ LoadConfig(e).intervals =
            [n \in DOMAIN Intervals(type) |-> Seconds(e, n, Intervals(type)[n])]
  BY DEF LoadConfig
<1>3. type \in {"rest", "mqtt"} /\ SecondsErrors(e, k, def) = {} /\ k \in DOMAIN Intervals(type)
  BY <1>1, <1>2, TypeChecked
<1>4. def \in Nat
  BY <1>3, IntervalsOfType, ConfigurationAssumption
<1>5. (Given(e, k) => e[k].is = "number") /\ ~(WholeNumber(e, k, def) <= 0)
  BY <1>3 DEF SecondsErrors, WholeNumberErrors
<1>6. wanted = WholeNumber(e, k, def)
  BY <1>5 DEF WholeNumber, Given
<1>7. e[k].is = "number" => e[k].v \in Int
  <2>1. k \in Settings
    BY <1>3, IntervalsOfType DEF Settings
  <2> QED
    BY <2>1, EnvironmentAssumption
<1>8. wanted \in Nat \ {0}
  <2>1. wanted \in Int
    BY <1>4, <1>5, <1>7 DEF Given
  <2> QED
    BY <1>5, <1>6, <2>1
<1>9. LoadConfig(e).intervals[k] = Wrapped(wanted * Second)
  BY <1>2, <1>3, <1>6 DEF Seconds
<1>10. Overflows(wanted) \/ Wrapped(wanted * Second) = wanted * Second
  <2>1. wanted * Second \in Nat
    BY <1>8, ConfigurationAssumption
  <2> QED
    BY <2>1, WrappedFits, ConfigurationAssumption DEF Overflows
<1> QED
  BY <1>2, <1>3, <1>5, <1>8, <1>9, <1>10

\* An accepted configuration that the mqtt exporter refuses has an interval that
\* overflows, and so has one that it would take if it were positive.
LEMMA RefusedOverflows ==
    ASSUME NEW e \in Environments, ConfigErrors(e) = {}
    PROVE  LET c == LoadConfig(e)
           IN /\ c.type = "mqtt" => /\ NoText \notin {c.credentials.email, c.credentials.password}
                                    /\ c.devices # NoDevices
              /\ \A k \in DOMAIN c.intervals :
                    LET wanted == IF e[k] \in {Unset, Blank} THEN Intervals(c.type)[k]
                                  ELSE e[k].v
                    IN Overflows(wanted) \/ c.intervals[k] \in Nat \ {0}
<1>1. TypeErrors(e) = {}
  BY DEF ConfigErrors
<1>2. /\ LoadConfig(e).type = ExporterType(e)
      /\ LoadConfig(e).credentials = Credentials(e)
      /\ LoadConfig(e).devices = Mapping(e)
  BY DEF LoadConfig
<1>3. ASSUME NEW k \in DOMAIN LoadConfig(e).intervals
      PROVE  LET wanted == IF e[k] \in {Unset, Blank} THEN Intervals(LoadConfig(e).type)[k]
                           ELSE e[k].v
             IN Overflows(wanted) \/ LoadConfig(e).intervals[k] \in Nat \ {0}
  <2> DEFINE wanted == IF e[k] \in {Unset, Blank} THEN Intervals(LoadConfig(e).type)[k]
                       ELSE e[k].v
  <2>1. /\ wanted \in Nat \ {0}
        /\ Overflows(wanted) \/ LoadConfig(e).intervals[k] = wanted * Second
    BY IntervalsAccepted
  <2> HIDE DEF wanted
  <2>2. wanted * Second \in Nat \ {0}
    BY <2>1, ConfigurationAssumption
  <2>3. Overflows(wanted) \/ LoadConfig(e).intervals[k] \in Nat \ {0}
    BY <2>1, <2>2
  <2> QED
    BY <2>3 DEF wanted
<1>4. ExporterType(e) = "mqtt" =>
        /\ NoText \notin {Credentials(e).email, Credentials(e).password}
        /\ Mapping(e) # NoDevices
  BY <1>1, TypeChecked
<1> QED
  BY <1>2, <1>3, <1>4

-----------------------------------------------------------------------------
(* The start                                                               *)

\* The configuration is the one that LoadConfig made of the environment, and the
\* exporter has looked at it when it is started or refused.
Loaded == env \in Environments /\ ConfigErrors(env) = {} /\ cfg = LoadConfig(env)

StartOK ==
    /\ boot \in {"load", "rejected"} => env \in Environments
    /\ boot \in (Starting \ {"load"}) \cup {"refused", "failed", "panicked"} => Loaded
    /\ boot \in {"listen", "serve", "start", "panicked"} => AcceptedByExporter
    /\ boot = "refused" => ~AcceptedByExporter
    /\ boot = "panicked" => cfg.type = "rest" /\ cfg.intervals["SCRAPING_INTERVAL"] <= 0

\* No step of the start changes the environment or a configuration it needs.
LEMMA StartInvariant == ProcessSpec => []StartOK
<1>1. ProcessInit => StartOK
  BY DEF ProcessInit, StartOK, Starting
<1>2. StartOK /\ [ProcessNext]_processVars => StartOK'
  <2> SUFFICES ASSUME StartOK, [ProcessNext]_processVars PROVE StartOK'
    OBVIOUS
  <2>1. CASE Load
    BY <2>1 DEF Load, StartOK, Loaded, Starting
  <2>2. CASE CreateExporter
    BY <2>2 DEF CreateExporter, StartOK, Loaded, Starting, AcceptedByExporter
  <2>3. CASE NotifyContext \/ NewHTTPServer \/ SetHealthCheck \/ Killed
    BY <2>3 DEF NotifyContext, NewHTTPServer, SetHealthCheck, Killed, StartOK, Loaded,
                Starting, AcceptedByExporter
  <2>4. CASE StartRun
    BY <2>4 DEF StartRun, StartOK, Loaded, Starting, AcceptedByExporter
  <2>5. CASE Live \/ SignalStarting \/ ProbeBegins \/ ProbeAnswered \/ ProbeOver
             \/ UNCHANGED processVars
    <3>1. UNCHANGED <<boot, env, cfg>>
      BY <2>5 DEF Live, InRun, SignalStarting, ProbeBegins, ProbeAnswered, ProbeOver,
                  bootVars, processVars
    <3> QED
      BY <3>1 DEF StartOK, Loaded, AcceptedByExporter
  <2> QED
    BY <2>1, <2>2, <2>3, <2>4, <2>5 DEF ProcessNext, Boot
<1>3. ProcessSpec => ProcessInit /\ [][ProcessNext]_processVars
  BY PTL DEF ProcessSpec
<1> QED
  BY <1>1, <1>2, <1>3, PTL

\* Whatever the environment holds, the process ends with 0 after a signal only, with
\* a failure after the watchdog's verdict, and an accepted configuration does not
\* start only if an interval is out of range (main.go:50-98, mqtt_exporter.go:89-97).
THEOREM EndsHaveReasons == ProcessSpec => []ExitExplained
<1>1. WatchdogInv /\ StartOK => ExitExplained
  <2> SUFFICES ASSUME WatchdogInv, StartOK PROVE ExitExplained
    OBVIOUS
  <2>1. main = "exited" =>
          \/ result = "ok" /\ signalled
          \/ result = "error" /\ cause /\ failingSince # Absent /\ failingSince > Limit
    BY DEF WatchdogInv, ProcessTypeOK, EndsOK, VerdictOK
  <2>2. boot \in {"listen", "serve", "start"} /\ cfg.type = "mqtt" =>
          \A k \in DOMAIN cfg.intervals : cfg.intervals[k] > 0
    BY DEF StartOK, AcceptedByExporter
  <2>3. boot \in {"refused", "panicked"} =>
          /\ cfg.type = "mqtt" => /\ NoText \notin {cfg.credentials.email, cfg.credentials.password}
                                  /\ cfg.devices # NoDevices
          /\ \A k \in DOMAIN cfg.intervals : Overflows(Wanted(k)) \/ cfg.intervals[k] \in Nat \ {0}
    BY RefusedOverflows DEF StartOK, Loaded, Wanted
  <2>4. boot = "refused" =>
          cfg.type = "mqtt" /\ \E k \in DOMAIN cfg.intervals : Overflows(Wanted(k))
    BY <2>3 DEF StartOK, AcceptedByExporter
  <2>5. boot = "panicked" => "SCRAPING_INTERVAL" \in DOMAIN cfg.intervals
    <3> SUFFICES ASSUME boot = "panicked" PROVE "SCRAPING_INTERVAL" \in DOMAIN cfg.intervals
      OBVIOUS
    <3>1. cfg = LoadConfig(env) /\ cfg.type = "rest"
      BY DEF StartOK, Loaded
    <3>2. DOMAIN cfg.intervals = DOMAIN Intervals(cfg.type)
      BY <3>1 DEF LoadConfig
    <3> QED
      BY <3>1, <3>2, IntervalsOfType
  <2>6. boot = "panicked" => cfg.type = "rest" /\ Overflows(Wanted("SCRAPING_INTERVAL"))
    BY <2>3, <2>5 DEF StartOK
  <2> QED
    BY <2>1, <2>2, <2>4, <2>6 DEF ExitExplained
<1> QED
  BY <1>1, WatchdogInvariant, StartInvariant, PTL

-----------------------------------------------------------------------------
(* What was asked for                                                      *)

\* Credentials that were given, from their variables or else from their files.
LEMMA CredentialsGiven ==
    ASSUME NEW e \in Environments
    PROVE  LET c == Credentials(e)
               SecretOf(k) == IF Given(e, k) THEN e[k].v ELSE e[FileKey[k]].v
           IN /\ c.accessKey # NoText <=> Given(e, "ECOFLOW_ACCESS_KEY")
              /\ c.email # NoText <=> Given(e, "ECOFLOW_EMAIL")
              /\ Given(e, "ECOFLOW_SECRET_KEY") => c.secretKey # NoText
              /\ c.accessKey # NoText => c.accessKey = e["ECOFLOW_ACCESS_KEY"].v
              /\ c.email # NoText => c.email = e["ECOFLOW_EMAIL"].v
              /\ c.secretKey # NoText => c.secretKey = SecretOf("ECOFLOW_SECRET_KEY")
              /\ c.password # NoText => c.password = SecretOf("ECOFLOW_PASSWORD")
<1> DEFINE SecretOf(k) == IF Given(e, k) THEN e[k].v ELSE e[FileKey[k]].v
<1>1. \A k \in {"ECOFLOW_ACCESS_KEY", "ECOFLOW_SECRET_KEY", "ECOFLOW_EMAIL",
               "ECOFLOW_PASSWORD"} : Given(e, k) => e[k].v # NoText
  BY EnvironmentAssumption
<1>2. \A k : Secret(e, k) # NoText => Secret(e, k) = SecretOf(k)
  BY DEF Secret
<1>3. \A k : Given(e, k) => Secret(e, k) = e[k].v
  BY DEF Secret
<1>4. Credentials(e) =
        [accessKey |-> Str(e, "ECOFLOW_ACCESS_KEY", NoText),
         secretKey |-> Secret(e, "ECOFLOW_SECRET_KEY"),
         email     |-> Str(e, "ECOFLOW_EMAIL", NoText),
         password  |-> Secret(e, "ECOFLOW_PASSWORD")]
  BY DEF Credentials
<1> HIDE DEF SecretOf
<1> QED
  BY <1>1, <1>2, <1>3, <1>4 DEF Str, SecretOf

\* Without EXPORTER_TYPE any key of the REST API decides.
LEMMA RestWins ==
    ASSUME NEW e \in Environments, ~Given(e, "EXPORTER_TYPE"),
           Given(e, "ECOFLOW_ACCESS_KEY") \/ Given(e, "ECOFLOW_SECRET_KEY")
    PROVE  ExporterType(e) = "rest"
<1> DEFINE c == Credentials(e)
<1>1. c.accessKey # NoText \/ c.secretKey # NoText
  BY CredentialsGiven
<1>2. ExporterType(e) = detectExporterType(c)
  BY DEF ExporterType
<1>3. detectExporterType(c) = "rest"
  BY <1>1, Zenon DEF detectExporterType
<1> QED
  BY <1>2, <1>3

\* A serial number that is not empty, when there is any.
LEMMA DevicesNamed ==
    ASSUME NEW e, Mapping(e) # NoDevices
    PROVE  \E sn \in DOMAIN Mapping(e) : sn # NoText
<1> DEFINE pretty == Str(e, "ECOFLOW_DEVICES_PRETTY_NAMES", NoDevices)
           listed == ToSet(Str(e, "ECOFLOW_DEVICES", <<>>))
           known == (DOMAIN pretty \cup listed) \ {NoText}
<1>1. Mapping(e) = [sn \in known |-> IF sn \in DOMAIN pretty THEN pretty[sn] ELSE sn]
  BY Zenon DEF Mapping
<1> HIDE DEF pretty, listed
<1>2. known # {}
  BY <1>1 DEF NoDevices
<1> QED
  BY <1>1, <1>2

\* Whatever cannot be understood is either an error or not needed.
LEMMA NothingIgnored ==
    ASSUME NEW e \in Environments, ConfigErrors(e) = {},
           NEW k \in Settings, e[k].is \in {"wrong", "nofile"}
    PROVE  \/ k \notin DOMAIN LoadConfig(e).intervals \cup
                  {"PROMETHEUS_PORT", "PROTOBUF_DEBUG", "METRIC_PREFIX",
                   "ECOFLOW_DEVICES_PRETTY_NAMES", "ECOFLOW_SECRET_KEY_FILE",
                   "ECOFLOW_PASSWORD_FILE"}
           \/ \E s \in DOMAIN FileKey : k = FileKey[s] /\ Given(e, s)
<1>1. Given(e, k)
  BY DEF Given, Unset, Blank
<1>2. k \notin DOMAIN LoadConfig(e).intervals
  BY <1>1, IntervalsAccepted
<1>3. k \notin {"PROMETHEUS_PORT", "PROTOBUF_DEBUG", "METRIC_PREFIX",
               "ECOFLOW_DEVICES_PRETTY_NAMES"}
  <2>1. /\ PortErrors(e) = {} /\ BoolErrors(e, "PROTOBUF_DEBUG") = {}
        /\ PrefixErrors(e) = {} /\ MappingErrors(e) = {}
    BY DEF ConfigErrors
  <2>2. k # "PROMETHEUS_PORT"
    BY <1>1, <2>1 DEF PortErrors
  <2>3. k # "PROTOBUF_DEBUG"
    BY <1>1, <2>1 DEF BoolErrors
  <2>4. k # "METRIC_PREFIX"
    BY <1>1, <2>1 DEF PrefixErrors
  <2>5. k # "ECOFLOW_DEVICES_PRETTY_NAMES"
    BY <1>1, <2>1 DEF MappingErrors
  <2> QED
    BY <2>2, <2>3, <2>4, <2>5
<1>4. ASSUME NEW s \in DOMAIN FileKey, k = FileKey[s]
      PROVE  Given(e, s)
  <2>1. s \in {"ECOFLOW_SECRET_KEY", "ECOFLOW_PASSWORD"}
    BY DEF FileKey
  <2>2. SecretErrors(e, s) = {}
    BY <2>1 DEF ConfigErrors
  <2> QED
    BY <1>1, <1>4, <2>2 DEF SecretErrors
<1>5. k \in {"ECOFLOW_SECRET_KEY_FILE", "ECOFLOW_PASSWORD_FILE"} =>
        \E s \in DOMAIN FileKey : k = FileKey[s]
  BY DEF FileKey
<1> QED
  BY <1>2, <1>3, <1>4, <1>5

\* For every environment, an accepted configuration is the one that was asked for:
\* secrets, type, devices and intervals, up to the overflow (config.go:117-218).
THEOREM ConfigurationAsGiven == ProcessSpec => []SettingsAsGiven
<1>1. StartOK => SettingsAsGiven
  <2> SUFFICES ASSUME StartOK, boot \in Starting \ {"load"}
               PROVE  SettingsAsGiven
    BY DEF SettingsAsGiven
  <2>1. env \in Environments /\ ConfigErrors(env) = {} /\ cfg = LoadConfig(env)
    BY DEF StartOK, Loaded
  <2>2. /\ cfg.type = ExporterType(env) /\ cfg.credentials = Credentials(env)
        /\ cfg.devices = Mapping(env)
    BY <2>1 DEF LoadConfig
  <2>3. \A k \in DOMAIN cfg.intervals :
           \/ Overflows(Wanted(k))
           \/ cfg.intervals[k] = Wanted(k) * Second /\ cfg.intervals[k] > 0
    <3> SUFFICES ASSUME NEW k \in DOMAIN cfg.intervals, ~Overflows(Wanted(k))
                 PROVE  cfg.intervals[k] = Wanted(k) * Second /\ cfg.intervals[k] > 0
      OBVIOUS
    <3>1. cfg.intervals[k] = Wanted(k) * Second
      BY <2>1, IntervalsAccepted DEF Wanted
    <3>2. cfg.intervals[k] \in Nat \ {0}
      BY <2>1, RefusedOverflows DEF Wanted
    <3> QED
      BY <3>1, <3>2
  <2>4. TypeErrors(env) = {}
    BY <2>1 DEF ConfigErrors
  <2>5. cfg.type = "rest" => NoText \notin {cfg.credentials.accessKey, cfg.credentials.secretKey}
    BY <2>2, <2>4, TypeChecked
  <2>6. cfg.type = "mqtt" => /\ NoText \notin {cfg.credentials.email, cfg.credentials.password}
                            /\ \E sn \in DOMAIN cfg.devices : sn # NoText
    <3>1. ExporterType(env) = "mqtt" =>
            /\ NoText \notin {Credentials(env).email, Credentials(env).password}
            /\ Mapping(env) # NoDevices
      BY <2>4, TypeChecked
    <3>2. Mapping(env) # NoDevices => \E sn \in DOMAIN Mapping(env) : sn # NoText
      BY DevicesNamed
    <3> QED
      BY <2>2, <3>1, <3>2
  <2>7. \A k : env[k] \notin {Unset, Blank} <=> Given(env, k)
    BY DEF Given
  <2>8. ~Given(env, "EXPORTER_TYPE")
          /\ (\E k \in {"ECOFLOW_ACCESS_KEY", "ECOFLOW_SECRET_KEY"} : Given(env, k))
        => cfg.type = "rest"
    BY <2>1, <2>2, RestWins
  <2>9. cfg.type = "rest" =>
          /\ cfg.credentials.accessKey = env["ECOFLOW_ACCESS_KEY"].v
          /\ cfg.credentials.secretKey =
                IF Given(env, "ECOFLOW_SECRET_KEY") THEN env["ECOFLOW_SECRET_KEY"].v
                ELSE env[FileKey["ECOFLOW_SECRET_KEY"]].v
    BY <2>1, <2>2, <2>5, CredentialsGiven
  <2>10. cfg.type = "mqtt" =>
          /\ cfg.credentials.email = env["ECOFLOW_EMAIL"].v
          /\ cfg.credentials.password =
                IF Given(env, "ECOFLOW_PASSWORD") THEN env["ECOFLOW_PASSWORD"].v
                ELSE env[FileKey["ECOFLOW_PASSWORD"]].v
          /\ \E sn \in DOMAIN cfg.devices : sn # NoText
    BY <2>1, <2>2, <2>6, CredentialsGiven
  <2>11. \A k \in DOMAIN env : env[k].is \in {"wrong", "nofile"} =>
           \/ k \notin DOMAIN cfg.intervals \cup
                  {"PROMETHEUS_PORT", "PROTOBUF_DEBUG", "METRIC_PREFIX",
                   "ECOFLOW_DEVICES_PRETTY_NAMES", "ECOFLOW_SECRET_KEY_FILE",
                   "ECOFLOW_PASSWORD_FILE"}
           \/ \E s \in DOMAIN FileKey : k = FileKey[s] /\ Given(env, s)
    BY <2>1, NothingIgnored, EnvironmentAssumption
  <2> QED
    BY <2>3, <2>7, <2>8, <2>9, <2>10, <2>11, Zenon DEF SettingsAsGiven
<1> QED
  BY <1>1, StartInvariant, PTL

-----------------------------------------------------------------------------
(* What was reported                                                       *)

\* The error of each variable, and of what is missing, is among those reported.
LEMMA Reported ==
    ASSUME NEW e, "EXPORTER_TYPE" \notin ConfigErrors(e)
    PROVE  LET type == ExporterType(e)
               c == Credentials(e)
               errors == ConfigErrors(e)
           IN /\ type \in {"rest", "mqtt"}
              /\ PortErrors(e) \subseteq errors
              /\ BoolErrors(e, "PROTOBUF_DEBUG") \subseteq errors
              /\ PrefixErrors(e) \subseteq errors /\ MappingErrors(e) \subseteq errors
              /\ SecretErrors(e, "ECOFLOW_SECRET_KEY") \subseteq errors
              /\ SecretErrors(e, "ECOFLOW_PASSWORD") \subseteq errors
              /\ \A k \in DOMAIN Intervals(type) :
                    SecondsErrors(e, k, Intervals(type)[k]) \subseteq errors
              /\ type = "rest" /\ NoText \in {c.accessKey, c.secretKey} =>
                    "access key" \in errors
              /\ type = "mqtt" /\ NoText \in {c.email, c.password} =>
                    "password" \in errors
              /\ type = "mqtt" /\ Mapping(e) = NoDevices => "devices" \in errors
<1> DEFINE type == ExporterType(e)
           c == Credentials(e)
           numbers == {SecondsErrors(e, k, Intervals(type)[k]) : k \in DOMAIN Intervals(type)}
           rest == IF NoText \in {c.accessKey, c.secretKey} THEN {"access key"} ELSE {}
           mqtt == (IF NoText \in {c.email, c.password} THEN {"password"} ELSE {})
                   \cup (IF Mapping(e) = NoDevices THEN {"devices"} ELSE {})
           others == CASE type = "rest" -> rest [] type = "mqtt" -> mqtt
                       [] OTHER -> {"EXPORTER_TYPE"}
<1>1. TypeErrors(e) = (UNION numbers) \cup others
  BY Zenon DEF TypeErrors
<1>2. /\ type = "rest" => others = rest
      /\ type = "mqtt" => others = mqtt
      /\ type \notin {"rest", "mqtt"} => others = {"EXPORTER_TYPE"}
  BY Zenon
<1>3. \A k \in DOMAIN Intervals(type) :
         SecondsErrors(e, k, Intervals(type)[k]) \subseteq UNION numbers
  OBVIOUS
<1> HIDE DEF others, numbers, type
<1>4. /\ TypeErrors(e) \subseteq ConfigErrors(e)
      /\ PortErrors(e) \subseteq ConfigErrors(e)
      /\ BoolErrors(e, "PROTOBUF_DEBUG") \subseteq ConfigErrors(e)
      /\ PrefixErrors(e) \subseteq ConfigErrors(e)
      /\ MappingErrors(e) \subseteq ConfigErrors(e)
      /\ SecretErrors(e, "ECOFLOW_SECRET_KEY") \subseteq ConfigErrors(e)
      /\ SecretErrors(e, "ECOFLOW_PASSWORD") \subseteq ConfigErrors(e)
  BY DEF ConfigErrors
<1>5. others \subseteq ConfigErrors(e) /\ UNION numbers \subseteq ConfigErrors(e)
  BY <1>1, <1>4
<1>6. type \in {"rest", "mqtt"}
  BY <1>2, <1>5
<1>7. /\ type = "rest" /\ NoText \in {c.accessKey, c.secretKey} =>
            "access key" \in ConfigErrors(e)
      /\ type = "mqtt" /\ NoText \in {c.email, c.password} =>
            "password" \in ConfigErrors(e)
      /\ type = "mqtt" /\ Mapping(e) = NoDevices => "devices" \in ConfigErrors(e)
  BY <1>2, <1>5
<1>8. \A k \in DOMAIN Intervals(type) :
         SecondsErrors(e, k, Intervals(type)[k]) \subseteq ConfigErrors(e)
  BY <1>3, <1>5
<1> QED
  BY <1>4, <1>6, <1>7, <1>8 DEF type

\* No error names a credential, the list of devices, or what is not read; what is
\* missing is reported for the type that needs it only.
LEMMA NotReported ==
    ASSUME NEW e, "EXPORTER_TYPE" \notin ConfigErrors(e)
    PROVE  /\ ConfigErrors(e) \cap
                 {"ECOFLOW_ACCESS_KEY", "ECOFLOW_SECRET_KEY", "ECOFLOW_EMAIL",
                  "ECOFLOW_PASSWORD", "ECOFLOW_DEVICES", "EXPORTER_TYPE"} = {}
           /\ "access key" \in ConfigErrors(e) => ExporterType(e) = "rest"
           /\ "ECOFLOW_SECRET_KEY_FILE" \in ConfigErrors(e) =>
                 SecretErrors(e, "ECOFLOW_SECRET_KEY") # {}
           /\ "ECOFLOW_PASSWORD_FILE" \in ConfigErrors(e) =>
                 SecretErrors(e, "ECOFLOW_PASSWORD") # {}
           /\ "ECOFLOW_DEVICES_PRETTY_NAMES" \in ConfigErrors(e) =>
                 MappingErrors(e) # {}
<1> DEFINE type == ExporterType(e)
           c == Credentials(e)
           numbers == {SecondsErrors(e, k, Intervals(type)[k]) : k \in DOMAIN Intervals(type)}
           rest == IF NoText \in {c.accessKey, c.secretKey} THEN {"access key"} ELSE {}
           mqtt == (IF NoText \in {c.email, c.password} THEN {"password"} ELSE {})
                   \cup (IF Mapping(e) = NoDevices THEN {"devices"} ELSE {})
           others == CASE type = "rest" -> rest [] type = "mqtt" -> mqtt
                       [] OTHER -> {"EXPORTER_TYPE"}
           seconds == {"SCRAPING_INTERVAL", "MQTT_DEVICE_OFFLINE_THRESHOLD_SECONDS",
                       "MQTT_PING_INTERVAL_SECONDS", "MQTT_STATE_REFRESH_INTERVAL_SECONDS"}
<1>1. TypeErrors(e) = (UNION numbers) \cup others
  BY Zenon DEF TypeErrors
<1>2. /\ type = "rest" => others \subseteq {"access key"}
      /\ type = "mqtt" => others \subseteq {"password", "devices"}
  <2>1. type = "rest" => others = rest
    BY Zenon
  <2>2. type = "mqtt" => others = mqtt
    BY Zenon
  <2> QED
    BY <2>1, <2>2
<1>3. type \in {"rest", "mqtt"}
  BY Reported
<1>4. DOMAIN Intervals(type) \subseteq seconds
  <2> HIDE DEF type
  <2> QED
    BY <1>3, IntervalsOfType
<1>5. \A k, n : SecondsErrors(e, k, n) \subseteq {k}
  BY DEF SecondsErrors, WholeNumberErrors
<1>6. UNION numbers \subseteq seconds
  BY <1>4, <1>5
<1> HIDE DEF others, numbers, type
<1>7. /\ PortErrors(e) \subseteq {"PROMETHEUS_PORT"}
      /\ BoolErrors(e, "PROTOBUF_DEBUG") \subseteq {"PROTOBUF_DEBUG"}
      /\ PrefixErrors(e) \subseteq {"METRIC_PREFIX"}
      /\ MappingErrors(e) \subseteq {"ECOFLOW_DEVICES_PRETTY_NAMES"}
  BY DEF PortErrors, BoolErrors, PrefixErrors, MappingErrors
<1>8. /\ SecretErrors(e, "ECOFLOW_SECRET_KEY") \subseteq {"ECOFLOW_SECRET_KEY_FILE"}
      /\ SecretErrors(e, "ECOFLOW_PASSWORD") \subseteq {"ECOFLOW_PASSWORD_FILE"}
  BY DEF SecretErrors, FileKey
<1>9. ConfigErrors(e) =
        PortErrors(e) \cup BoolErrors(e, "PROTOBUF_DEBUG") \cup PrefixErrors(e) \cup
        MappingErrors(e) \cup SecretErrors(e, "ECOFLOW_SECRET_KEY") \cup
        SecretErrors(e, "ECOFLOW_PASSWORD") \cup (UNION numbers) \cup others
  BY <1>1 DEF ConfigErrors
<1>10. others \subseteq {"access key", "password", "devices"}
  BY <1>2, <1>3
<1> QED
  BY <1>2, <1>3, <1>6, <1>7, <1>8, <1>9, <1>10 DEF type

\* The variables after the correction.
LEMMA CorrectedFacts ==
    ASSUME NEW e, "EXPORTER_TYPE" \notin ConfigErrors(e)
    PROVE  LET errors == ConfigErrors(e)
               f == Corrected(e, errors)
               text == [is |-> "text", v |-> "added"]
           IN /\ \A k \in Settings : k \in errors => f[k] = Unset
              /\ \A k \in Settings :
                    /\ k \notin errors
                    /\ k \notin {"ECOFLOW_ACCESS_KEY", "ECOFLOW_SECRET_KEY", "ECOFLOW_EMAIL",
                                 "ECOFLOW_PASSWORD", "ECOFLOW_DEVICES"}
                    => f[k] = e[k]
              /\ \A k \in {"ECOFLOW_ACCESS_KEY", "ECOFLOW_SECRET_KEY"} :
                    f[k] = IF "access key" \in errors THEN text ELSE e[k]
              /\ \A k \in {"ECOFLOW_EMAIL", "ECOFLOW_PASSWORD"} :
                    f[k] = IF "password" \in errors THEN text ELSE e[k]
              /\ f["ECOFLOW_DEVICES"] =
                    IF "devices" \in errors THEN [is |-> "list", v |-> <<"added">>]
                    ELSE e["ECOFLOW_DEVICES"]
<1> DEFINE errors == ConfigErrors(e)
           added == (IF "access key" \in errors THEN {"ECOFLOW_ACCESS_KEY", "ECOFLOW_SECRET_KEY"}
                     ELSE {})
                    \cup (IF "password" \in errors THEN {"ECOFLOW_EMAIL", "ECOFLOW_PASSWORD"}
                          ELSE {})
           f == Corrected(e, errors)
           text == [is |-> "text", v |-> "added"]
           list == [is |-> "list", v |-> <<"added">>]
<1>1. \A k \in Settings :
         f[k] = IF k \in errors THEN Unset
                ELSE IF k \in added THEN text
                ELSE IF k = "ECOFLOW_DEVICES" /\ "devices" \in errors THEN list
                ELSE e[k]
  BY Zenon DEF Corrected
<1>2. errors \cap {"ECOFLOW_ACCESS_KEY", "ECOFLOW_SECRET_KEY", "ECOFLOW_EMAIL",
                   "ECOFLOW_PASSWORD", "ECOFLOW_DEVICES", "EXPORTER_TYPE"} = {}
  BY NotReported
<1>3. {"ECOFLOW_ACCESS_KEY", "ECOFLOW_SECRET_KEY", "ECOFLOW_EMAIL", "ECOFLOW_PASSWORD",
       "ECOFLOW_DEVICES"} \subseteq Settings
  BY DEF Settings
<1> HIDE DEF f, errors, text, list
<1>4. \A k \in Settings : k \in errors => f[k] = Unset
  BY <1>1
<1>5. \A k \in Settings :
         /\ k \notin errors
         /\ k \notin {"ECOFLOW_ACCESS_KEY", "ECOFLOW_SECRET_KEY", "ECOFLOW_EMAIL",
                      "ECOFLOW_PASSWORD", "ECOFLOW_DEVICES"}
         => f[k] = e[k]
  BY <1>1
<1>6. \A k \in {"ECOFLOW_ACCESS_KEY", "ECOFLOW_SECRET_KEY"} :
         f[k] = IF "access key" \in errors THEN text ELSE e[k]
  BY <1>1, <1>2, <1>3
<1>7. \A k \in {"ECOFLOW_EMAIL", "ECOFLOW_PASSWORD"} :
         f[k] = IF "password" \in errors THEN text ELSE e[k]
  BY <1>1, <1>2, <1>3
<1>8. f["ECOFLOW_DEVICES"] = IF "devices" \in errors THEN list ELSE e["ECOFLOW_DEVICES"]
  BY <1>1, <1>2, <1>3
<1> QED
  BY <1>4, <1>5, <1>6, <1>7, <1>8 DEF f, errors, text, list

\* With the variables that were reported removed, none of them is wrong.
LEMMA CorrectedVariables ==
    ASSUME NEW e \in Environments, "EXPORTER_TYPE" \notin ConfigErrors(e)
    PROVE  LET f == Corrected(e, ConfigErrors(e))
           IN /\ PortErrors(f) = {} /\ BoolErrors(f, "PROTOBUF_DEBUG") = {}
              /\ PrefixErrors(f) = {} /\ MappingErrors(f) = {}
              /\ SecretErrors(f, "ECOFLOW_SECRET_KEY") = {}
              /\ SecretErrors(f, "ECOFLOW_PASSWORD") = {}
              /\ \A k \in DOMAIN Intervals(ExporterType(e)) :
                    SecondsErrors(f, k, Intervals(ExporterType(e))[k]) = {}
<1> DEFINE errors == ConfigErrors(e)
           f == Corrected(e, errors)
           plain == Settings \ {"ECOFLOW_ACCESS_KEY", "ECOFLOW_SECRET_KEY", "ECOFLOW_EMAIL",
                                "ECOFLOW_PASSWORD", "ECOFLOW_DEVICES"}
<1>1. \A k \in plain : \/ k \in errors /\ f[k] = Unset
                       \/ k \notin errors /\ f[k] = e[k]
  <2>1. /\ \A k \in Settings : k \in errors => f[k] = Unset
        /\ \A k \in Settings :
              /\ k \notin errors
              /\ k \notin {"ECOFLOW_ACCESS_KEY", "ECOFLOW_SECRET_KEY", "ECOFLOW_EMAIL",
                           "ECOFLOW_PASSWORD", "ECOFLOW_DEVICES"}
              => f[k] = e[k]
    BY CorrectedFacts, Zenon
  <2> HIDE DEF f, errors
  <2> QED
    BY <2>1
<1>2. {"PROMETHEUS_PORT", "PROTOBUF_DEBUG", "METRIC_PREFIX", "ECOFLOW_DEVICES_PRETTY_NAMES",
       "ECOFLOW_SECRET_KEY_FILE", "ECOFLOW_PASSWORD_FILE"} \subseteq plain
  BY DEF Settings
<1>3. \A k : f[k] = Unset => ~Given(f, k)
  BY DEF Given
<1>4. \A k : f[k] = e[k] => (Given(f, k) <=> Given(e, k))
  BY DEF Given
<1> HIDE DEF f, plain
<1>5. PortErrors(f) = {}
  <2>1. PortErrors(e) \subseteq errors
    BY Reported
  <2> QED
    BY <1>1, <1>2, <1>3, <1>4, <2>1 DEF PortErrors
<1>6. BoolErrors(f, "PROTOBUF_DEBUG") = {}
  <2>1. BoolErrors(e, "PROTOBUF_DEBUG") \subseteq errors
    BY Reported
  <2> QED
    BY <1>1, <1>2, <1>3, <1>4, <2>1 DEF BoolErrors
<1>7. PrefixErrors(f) = {}
  <2>1. PrefixErrors(e) \subseteq errors
    BY Reported
  <2> QED
    BY <1>1, <1>2, <1>3, <1>4, <2>1 DEF PrefixErrors
<1>8. MappingErrors(f) = {}
  <2>1. MappingErrors(e) \subseteq errors
    BY Reported
  <2> QED
    BY <1>1, <1>2, <1>3, <1>4, <2>1 DEF MappingErrors
<1>9. \A s \in {"ECOFLOW_SECRET_KEY", "ECOFLOW_PASSWORD"} : Given(f, s) \/ f[s] = e[s]
  <2> DEFINE text == [is |-> "text", v |-> "added"]
  <2>1. \A s : f[s] = text => Given(f, s)
    BY DEF Given, Unset, Blank
  <2>2. /\ f["ECOFLOW_SECRET_KEY"] \in {text, e["ECOFLOW_SECRET_KEY"]}
        /\ f["ECOFLOW_PASSWORD"] \in {text, e["ECOFLOW_PASSWORD"]}
    BY CorrectedFacts, Zenon DEF f
  <2> HIDE DEF text
  <2> QED
    BY <2>1, <2>2
<1>10. ASSUME NEW s \in {"ECOFLOW_SECRET_KEY", "ECOFLOW_PASSWORD"}
       PROVE  SecretErrors(f, s) = {}
  <2>1. SecretErrors(e, s) \subseteq errors
    BY Reported
  <2>2. FileKey[s] \in plain
    BY <1>2 DEF FileKey
  <2> QED
    BY <1>1, <1>3, <1>4, <1>9, <2>1, <2>2 DEF SecretErrors
<1>11. ASSUME NEW k \in DOMAIN Intervals(ExporterType(e))
       PROVE  SecondsErrors(f, k, Intervals(ExporterType(e))[k]) = {}
  <2>1. ExporterType(e) \in {"rest", "mqtt"}
    BY Reported
  <2> DEFINE n == Intervals(ExporterType(e))[k]
  <2>2. k \in plain /\ n \in Nat \ {0}
    BY <2>1, IntervalsOfType, ConfigurationAssumption DEF Settings, plain
  <2>3. SecondsErrors(e, k, n) \subseteq errors
    BY Reported
  <2> HIDE DEF n
  <2> QED
    BY <1>1, <1>3, <1>4, <2>2, <2>3
       DEF SecondsErrors, WholeNumber, WholeNumberErrors, n
<1> QED
  BY <1>5, <1>6, <1>7, <1>8, <1>10, <1>11 DEF f

\* With the missing credentials added the exporter type is the same, and has them.
LEMMA CorrectedCredentials ==
    ASSUME NEW e \in Environments, "EXPORTER_TYPE" \notin ConfigErrors(e)
    PROVE  LET f == Corrected(e, ConfigErrors(e))
               c == Credentials(f)
           IN /\ ExporterType(f) = ExporterType(e)
              /\ ExporterType(e) = "rest" => NoText \notin {c.accessKey, c.secretKey}
              /\ ExporterType(e) = "mqtt" => NoText \notin {c.email, c.password}
<1> DEFINE errors == ConfigErrors(e)
           f == Corrected(e, errors)
           text == [is |-> "text", v |-> "added"]
           old == Credentials(e)
           c == Credentials(f)
           type == ExporterType(e)
<1>1. /\ \A k \in {"ECOFLOW_ACCESS_KEY", "ECOFLOW_SECRET_KEY"} :
            f[k] = IF "access key" \in errors THEN text ELSE e[k]
      /\ \A k \in {"ECOFLOW_EMAIL", "ECOFLOW_PASSWORD"} :
            f[k] = IF "password" \in errors THEN text ELSE e[k]
  BY CorrectedFacts, Zenon
<1>2. \A k \in {"ECOFLOW_SECRET_KEY_FILE", "ECOFLOW_PASSWORD_FILE", "EXPORTER_TYPE"} :
         \/ k \in errors /\ f[k] = Unset
         \/ k \notin errors /\ f[k] = e[k]
  <2>1. /\ \A k \in Settings : k \in errors => f[k] = Unset
        /\ \A k \in Settings :
              /\ k \notin errors
              /\ k \notin {"ECOFLOW_ACCESS_KEY", "ECOFLOW_SECRET_KEY", "ECOFLOW_EMAIL",
                           "ECOFLOW_PASSWORD", "ECOFLOW_DEVICES"}
              => f[k] = e[k]
    BY CorrectedFacts, Zenon
  <2>2. {"ECOFLOW_SECRET_KEY_FILE", "ECOFLOW_PASSWORD_FILE", "EXPORTER_TYPE"}
           \subseteq Settings
    BY DEF Settings
  <2> HIDE DEF f, errors
  <2> QED
    BY <2>1, <2>2
<1>3. /\ type \in {"rest", "mqtt"}
      /\ type = "rest" /\ NoText \in {old.accessKey, old.secretKey} =>
            "access key" \in errors
      /\ type = "mqtt" /\ NoText \in {old.email, old.password} => "password" \in errors
  BY Reported, Zenon
<1>4. /\ "access key" \in errors => type = "rest"
      /\ "ECOFLOW_SECRET_KEY_FILE" \in errors =>
            SecretErrors(e, "ECOFLOW_SECRET_KEY") # {}
      /\ "ECOFLOW_PASSWORD_FILE" \in errors => SecretErrors(e, "ECOFLOW_PASSWORD") # {}
  BY NotReported, Zenon
<1>5. /\ old.accessKey = Str(e, "ECOFLOW_ACCESS_KEY", NoText)
      /\ old.secretKey = Secret(e, "ECOFLOW_SECRET_KEY")
      /\ old.email = Str(e, "ECOFLOW_EMAIL", NoText)
      /\ old.password = Secret(e, "ECOFLOW_PASSWORD")
      /\ c.accessKey = Str(f, "ECOFLOW_ACCESS_KEY", NoText)
      /\ c.secretKey = Secret(f, "ECOFLOW_SECRET_KEY")
      /\ c.email = Str(f, "ECOFLOW_EMAIL", NoText)
      /\ c.password = Secret(f, "ECOFLOW_PASSWORD")
  BY DEF Credentials
<1>6. Given(e, "ECOFLOW_SECRET_KEY") => Secret(e, "ECOFLOW_SECRET_KEY") # NoText
  BY CredentialsGiven, <1>5
<1> HIDE DEF f, errors, old, c
<1>7. \A k : f[k] = text => Given(f, k) /\ f[k].v # NoText
  BY DEF Given, Unset, Blank, NoText
<1>8. \A k : f[k] = e[k] => (Given(f, k) <=> Given(e, k))
  BY DEF Given
<1>9. \A k : f[k] = Unset => ~Given(f, k)
  BY DEF Given
<1> HIDE DEF text, type
<1>10. \A s \in {"ECOFLOW_SECRET_KEY", "ECOFLOW_PASSWORD"} :
          /\ f[s] = text => Secret(f, s) # NoText
          /\ f[s] = e[s] => Secret(f, s) = Secret(e, s)
  <2> SUFFICES ASSUME NEW s \in {"ECOFLOW_SECRET_KEY", "ECOFLOW_PASSWORD"}
               PROVE  /\ f[s] = text => Secret(f, s) # NoText
                      /\ f[s] = e[s] => Secret(f, s) = Secret(e, s)
    OBVIOUS
  <2>1. f[s] = text => Secret(f, s) # NoText
    BY <1>7 DEF Secret
  <2>2. /\ FileKey[s] \in {"ECOFLOW_SECRET_KEY_FILE", "ECOFLOW_PASSWORD_FILE"}
        /\ FileKey[s] \in errors => SecretErrors(e, s) # {}
    <3>1. /\ FileKey["ECOFLOW_SECRET_KEY"] = "ECOFLOW_SECRET_KEY_FILE"
          /\ FileKey["ECOFLOW_PASSWORD"] = "ECOFLOW_PASSWORD_FILE"
      BY DEF FileKey
    <3>2. CASE s = "ECOFLOW_SECRET_KEY"
      BY <1>4, <3>1, <3>2
    <3>3. CASE s = "ECOFLOW_PASSWORD"
      BY <1>4, <3>1, <3>3
    <3> QED
      BY <3>2, <3>3
  <2>3. CASE f[s] = e[s] /\ FileKey[s] \in errors
    <3>1. Secret(e, s) = NoText /\ ~Given(e, s)
      BY <2>2, <2>3 DEF SecretErrors, Secret
    <3>2. ~Given(f, s) /\ ~Given(f, FileKey[s])
      BY <1>2, <1>8, <1>9, <2>2, <2>3, <3>1
    <3> QED
      BY <3>1, <3>2, <2>1 DEF Secret
  <2>4. CASE f[s] = e[s] /\ FileKey[s] \notin errors
    <3>1. f[FileKey[s]] = e[FileKey[s]]
      BY <1>2, <2>2, <2>4
    <3> QED
      BY <1>8, <2>1, <2>4, <3>1 DEF Secret
  <2> QED
    BY <2>1, <2>3, <2>4
<1>11. \A s : /\ f[s] = text => Str(f, s, NoText) # NoText
              /\ f[s] = e[s] => Str(f, s, NoText) = Str(e, s, NoText)
  BY <1>7, <1>8 DEF Str
<1>12. /\ "access key" \in errors => NoText \notin {c.accessKey, c.secretKey}
       /\ "access key" \notin errors => c.accessKey = old.accessKey /\ c.secretKey = old.secretKey
  BY <1>1, <1>5, <1>10, <1>11
<1>13. /\ "password" \in errors => NoText \notin {c.email, c.password}
       /\ "password" \notin errors => c.email = old.email /\ c.password = old.password
  BY <1>1, <1>5, <1>10, <1>11
<1>14. /\ type = "rest" => NoText \notin {c.accessKey, c.secretKey}
       /\ type = "mqtt" => NoText \notin {c.email, c.password}
  BY <1>3, <1>12, <1>13
<1>15. ExporterType(f) = type
  <2>1. CASE Given(e, "EXPORTER_TYPE")
    <3>1. f["EXPORTER_TYPE"] = e["EXPORTER_TYPE"] /\ Given(f, "EXPORTER_TYPE")
      BY <1>2, <1>8, <2>1 DEF errors
    <3> QED
      BY <2>1, <3>1 DEF ExporterType, type
  <2>2. CASE ~Given(e, "EXPORTER_TYPE")
    <3>1. ~Given(f, "EXPORTER_TYPE")
      BY <1>2, <1>8, <1>9, <2>2
    <3>2. ExporterType(f) = detectExporterType(c) /\ type = detectExporterType(old)
      BY <2>2, <3>1 DEF ExporterType, type, c, old
    <3>3. type = "mqtt" => old.accessKey = NoText /\ old.secretKey = NoText
      <4>1. old.accessKey # NoText \/ old.secretKey # NoText =>
              detectExporterType(old) = "rest"
        BY Zenon DEF detectExporterType
      <4> QED
        BY <3>2, <4>1
    <3>4. CASE type = "rest"
      <4>1. c.accessKey # NoText
        BY <1>14, <3>4
      <4>2. detectExporterType(c) = "rest"
        BY <4>1, Zenon DEF detectExporterType
      <4> QED
        BY <3>2, <3>4, <4>2
    <3>5. CASE type = "mqtt"
      <4>1. c.accessKey = NoText /\ c.secretKey = NoText /\ c.email # NoText
        BY <1>4, <1>12, <1>14, <3>3, <3>5
      <4>2. detectExporterType(c) = "mqtt"
        BY <4>1, Zenon DEF detectExporterType
      <4> QED
        BY <3>2, <3>5, <4>2
    <3> QED
      BY <1>3, <3>4, <3>5
  <2> QED
    BY <2>1, <2>2
<1> QED
  BY <1>14, <1>15 DEF f, c, errors, type

\* With a device added there is one.
LEMMA CorrectedDevices ==
    ASSUME NEW e \in Environments, "EXPORTER_TYPE" \notin ConfigErrors(e),
           ExporterType(e) = "mqtt"
    PROVE  Mapping(Corrected(e, ConfigErrors(e))) # NoDevices
<1> DEFINE errors == ConfigErrors(e)
           f == Corrected(e, errors)
           list == [is |-> "list", v |-> <<"added">>]
           Pretty(x) == Str(x, "ECOFLOW_DEVICES_PRETTY_NAMES", NoDevices)
           Names(x) == ToSet(Str(x, "ECOFLOW_DEVICES", <<>>))
           Known(x) == (DOMAIN Pretty(x) \cup Names(x)) \ {NoText}
<1>1. f["ECOFLOW_DEVICES"] = IF "devices" \in errors THEN list ELSE e["ECOFLOW_DEVICES"]
  BY CorrectedFacts, Zenon
<1>2. MappingErrors(f) = {}
  BY CorrectedVariables, Zenon
<1>3. Mapping(f) = [sn \in Known(f) |-> IF sn \in DOMAIN Pretty(f) THEN Pretty(f)[sn] ELSE sn]
  BY <1>2, Zenon DEF Mapping
<1>4. CASE "devices" \in errors
  <2>1. Str(f, "ECOFLOW_DEVICES", <<>>) = <<"added">>
    <3> HIDE DEF f
    <3> QED
      BY <1>1, <1>4 DEF Str, Given, Unset, Blank
  <2>2. Names(f) = {"added"}
    BY <2>1 DEF ToSet
  <2> HIDE DEF Names, Pretty, f
  <2>3. "added" \in DOMAIN Mapping(f)
    BY <1>3, <2>2 DEF NoText
  <2> QED
    BY <2>3 DEF NoDevices, f
<1>5. CASE "devices" \notin errors
  <2>1. Mapping(e) # NoDevices
    BY <1>5, Reported
  <2>2. MappingErrors(e) = {}
    BY <2>1, Zenon DEF Mapping
  <2>3. f["ECOFLOW_DEVICES_PRETTY_NAMES"] = e["ECOFLOW_DEVICES_PRETTY_NAMES"]
    <3>1. "ECOFLOW_DEVICES_PRETTY_NAMES" \notin errors
      BY <2>2, NotReported
    <3>2. "ECOFLOW_DEVICES_PRETTY_NAMES" \in Settings
      BY DEF Settings
    <3> QED
      BY <3>1, <3>2, CorrectedFacts
  <2> HIDE DEF f, errors
  <2>4. /\ Str(f, "ECOFLOW_DEVICES_PRETTY_NAMES", NoDevices)
              = Str(e, "ECOFLOW_DEVICES_PRETTY_NAMES", NoDevices)
        /\ Str(f, "ECOFLOW_DEVICES", <<>>) = Str(e, "ECOFLOW_DEVICES", <<>>)
    BY <1>1, <1>5, <2>3 DEF Str, Given
  <2>5. Mapping(e) = [sn \in Known(e) |-> IF sn \in DOMAIN Pretty(e) THEN Pretty(e)[sn] ELSE sn]
    BY <2>2, Zenon DEF Mapping
  <2>6. Pretty(f) = Pretty(e) /\ Known(f) = Known(e)
    BY <2>4
  <2> HIDE DEF Pretty, Known
  <2>7. Mapping(f) = Mapping(e)
    BY <1>3, <2>5, <2>6
  <2> QED
    BY <2>1, <2>7 DEF f, errors
<1> QED
  BY <1>4, <1>5

\* For every environment, whoever corrects what a rejected start reported is not
\* rejected again (README.md:56, config.go:151-206).
THEOREM ErrorsReportedAtOnce == ProcessSpec => []OneCorrectionSuffices
<1>1. ASSUME NEW e \in Environments, "EXPORTER_TYPE" \notin ConfigErrors(e)
      PROVE  ConfigErrors(Corrected(e, ConfigErrors(e))) = {}
  <2> DEFINE f == Corrected(e, ConfigErrors(e))
             type == ExporterType(f)
             c == Credentials(f)
             numbers == {SecondsErrors(f, k, Intervals(type)[k]) : k \in DOMAIN Intervals(type)}
             rest == IF NoText \in {c.accessKey, c.secretKey} THEN {"access key"} ELSE {}
             mqtt == (IF NoText \in {c.email, c.password} THEN {"password"} ELSE {})
                     \cup (IF Mapping(f) = NoDevices THEN {"devices"} ELSE {})
             others == CASE type = "rest" -> rest [] type = "mqtt" -> mqtt
                         [] OTHER -> {"EXPORTER_TYPE"}
  <2>1. TypeErrors(f) = (UNION numbers) \cup others
    BY Zenon DEF TypeErrors
  <2>2. /\ type = "rest" => others = rest
        /\ type = "mqtt" => others = mqtt
    BY Zenon
  <2>3. type = ExporterType(e) /\ type \in {"rest", "mqtt"}
    <3>1. type = ExporterType(e)
      BY <1>1, CorrectedCredentials
    <3>2. ExporterType(e) \in {"rest", "mqtt"}
      BY <1>1, Reported
    <3> QED
      BY <3>1, <3>2
  <2>4. /\ type = "rest" => NoText \notin {c.accessKey, c.secretKey}
        /\ type = "mqtt" => NoText \notin {c.email, c.password}
    BY <1>1, <2>3, CorrectedCredentials
  <2>5. type = "mqtt" => Mapping(f) # NoDevices
    BY <1>1, <2>3, CorrectedDevices
  <2>6. \A k \in DOMAIN Intervals(type) : SecondsErrors(f, k, Intervals(type)[k]) = {}
    BY <1>1, <2>3, CorrectedVariables
  <2>7. UNION numbers = {}
    BY <2>6
  <2> HIDE DEF type, c, others, numbers, f
  <2>8. others = {}
    BY <2>2, <2>3, <2>4, <2>5
  <2>9. TypeErrors(f) = {}
    BY <2>1, <2>7, <2>8
  <2>10. /\ PortErrors(f) = {} /\ BoolErrors(f, "PROTOBUF_DEBUG") = {}
         /\ PrefixErrors(f) = {} /\ MappingErrors(f) = {}
         /\ SecretErrors(f, "ECOFLOW_SECRET_KEY") = {}
         /\ SecretErrors(f, "ECOFLOW_PASSWORD") = {}
    BY <1>1, CorrectedVariables, Zenon DEF f
  <2>11. ConfigErrors(f) = {}
    BY <2>9, <2>10 DEF ConfigErrors
  <2> QED
    BY <2>11 DEF f
<1>2. StartOK => OneCorrectionSuffices
  BY <1>1 DEF StartOK, OneCorrectionSuffices
<1> QED
  BY <1>2, StartInvariant, PTL

=============================================================================
