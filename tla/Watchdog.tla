------------------------------ MODULE Watchdog ------------------------------
(***************************************************************************)
(* The process while its exporter runs (src/main.go:78-128), Process has   *)
(* how it gets there: run starts the exporter and the watchdog goroutine,  *)
(* which samples Health every watchdogInterval                             *)
(* and cancels the exporter when it has been failing for more than         *)
(* unhealthyExitAfter, so that the container is restarted; a signal        *)
(* cancels it as well.  The exporter is reduced to what both exporters     *)
(* promise: Health answers at any time, Run returns once its context is    *)
(* done (AllStop of MqttSession).                                          *)
(*                                                                         *)
(* Ages and the ticker count units of time, of which Interval and Limit    *)
(* have a fixed number.  Time does not pass while a tick waits for the     *)
(* watchdog: a check takes far less than a unit.                           *)
(***************************************************************************)
EXTENDS Integers

CONSTANTS
    Interval,   \* watchdogInterval
    Limit,      \* unhealthyExitAfter
    Absent      \* the zero time.Time

ASSUME WatchdogAssumption ==
    /\ Interval \in Nat \ {0}
    /\ Limit \in Nat \ {0}
    /\ Absent \notin Int

VARIABLES
    healthy,       \* Health() = nil
    untilTick,     \* time left to the next tick
    ticker,        \* the ticker channel holds a tick
    failingSince,  \* age of the first failed check of the row, Absent if none
    watchdog,      \* "running" | "fired" (it returned the error) | "ended"
    signalled,     \* ctx is done
    cause,         \* runCtx was cancelled with the watchdog's error
    exporter,      \* "running" | "returned": the call of exporter.Run
    main,          \* "running" | "closing" | "exited"
    result,        \* what run returns: "none" yet | "ok" | "error"
    unhealthyFor,  \* HISTORY: time since Health began to fail, Absent while it does not
    sinceGood      \* HISTORY: time since a check succeeded or the watchdog began

wdVars   == <<untilTick, ticker, failingSince, watchdog>>
procVars == <<signalled, cause, exporter, main, result>>
vars     == <<healthy, wdVars, procVars, unhealthyFor, sinceGood>>

AgeCap == Limit + 2 * Interval + 1    \* BOUND: ages stop here
Older(age) == IF age = Absent \/ age >= AgeCap THEN age ELSE age + 1

runCtxDone == signalled \/ cause \/ main # "running"

Init ==
    /\ healthy = FALSE       \* neither exporter has connected yet
    /\ untilTick = Interval /\ ticker = FALSE
    /\ failingSince = Absent /\ watchdog = "running"
    /\ signalled = FALSE /\ cause = FALSE
    /\ exporter = "running" /\ main = "running" /\ result = "none"
    /\ unhealthyFor = 0 /\ sinceGood = 0

\* The exporter recovers or fails.
HealthChanges ==
    /\ exporter = "running"
    /\ healthy' = ~healthy
    /\ unhealthyFor' = IF healthy THEN 0 ELSE Absent
    /\ UNCHANGED <<wdVars, procVars, sinceGood>>

TimePasses ==
    /\ ticker => watchdog # "running"
    /\ watchdog # "fired"
    /\ untilTick' = IF untilTick = 1 THEN Interval ELSE untilTick - 1
    /\ ticker' = (ticker \/ untilTick = 1)
    /\ failingSince' = Older(failingSince)
    /\ unhealthyFor' = Older(unhealthyFor)
    /\ sinceGood' = Older(sinceGood)
    /\ UNCHANGED <<healthy, watchdog, procVars>>

\* Mutant: every failed check starts the time over.
CheckRestarts ==
    /\ watchdog = "running" /\ ticker
    /\ ticker' = FALSE
    /\ watchdog' = IF ~healthy /\ failingSince # Absent /\ failingSince > Limit
                   THEN "fired" ELSE "running"
    /\ failingSince' = IF healthy THEN Absent ELSE 0
    /\ sinceGood' = IF healthy THEN 0 ELSE sinceGood
    /\ UNCHANGED <<healthy, untilTick, procVars, unhealthyFor>>
\* Mutant: a good check does not end the row of failed ones.
CheckKeepsRow ==
    /\ watchdog = "running" /\ ticker
    /\ ticker' = FALSE
    /\ watchdog' = IF ~healthy /\ failingSince # Absent /\ failingSince > Limit
                   THEN "fired" ELSE "running"
    /\ failingSince' = IF ~healthy /\ failingSince = Absent THEN 0 ELSE failingSince
    /\ sinceGood' = IF healthy THEN 0 ELSE sinceGood
    /\ UNCHANGED <<healthy, untilTick, procVars, unhealthyFor>>

\* A tick is taken and Health is checked.
Check ==
    /\ watchdog = "running" /\ ticker
    /\ ticker' = FALSE
    /\ \/ /\ healthy
          /\ failingSince' = Absent /\ sinceGood' = 0
          /\ UNCHANGED watchdog
       \/ /\ ~healthy /\ failingSince = Absent
          /\ failingSince' = 0
          /\ UNCHANGED <<watchdog, sinceGood>>
       \/ /\ ~healthy /\ failingSince # Absent
          /\ watchdog' = IF failingSince > Limit THEN "fired" ELSE "running"
          /\ UNCHANGED <<failingSince, sinceGood>>
    /\ UNCHANGED <<healthy, untilTick, procVars, unhealthyFor>>

\* Mutant: the error of the watchdog is dropped.
CancelRunForgets ==
    /\ watchdog = "fired"
    /\ watchdog' = "ended"
    /\ UNCHANGED <<healthy, untilTick, ticker, failingSince, procVars,
                   unhealthyFor, sinceGood>>

\* The goroutine that called the watchdog cancels runCtx with the error.
CancelRun ==
    /\ watchdog = "fired"
    /\ watchdog' = "ended"
    /\ cause' = TRUE
    /\ UNCHANGED <<healthy, untilTick, ticker, failingSince, signalled, exporter,
                   main, result, unhealthyFor, sinceGood>>

WatchdogEnds ==
    /\ watchdog = "running" /\ runCtxDone
    /\ watchdog' = "ended"
    /\ UNCHANGED <<healthy, untilTick, ticker, failingSince, procVars,
                   unhealthyFor, sinceGood>>

Signal ==
    /\ ~signalled /\ signalled' = TRUE
    /\ UNCHANGED <<healthy, wdVars, cause, exporter, main, result, unhealthyFor,
                   sinceGood>>

\* Run sees that its context is done; its client is gone.
ExporterReturns ==
    /\ exporter = "running" /\ runCtxDone
    /\ exporter' = "returned"
    /\ healthy' = FALSE
    /\ unhealthyFor' = IF healthy THEN 0 ELSE unhealthyFor
    /\ UNCHANGED <<wdVars, signalled, cause, main, result, sinceGood>>

\* Mutant: any end of runCtx is reported as a failure.
MainReturnsFailure ==
    /\ main = "running" /\ exporter = "returned"
    /\ result' = IF signalled \/ cause THEN "error" ELSE "ok"
    /\ main' = "closing"
    /\ UNCHANGED <<healthy, wdVars, signalled, cause, exporter, unhealthyFor,
                   sinceGood>>

\* run has its result; the deferred calls cancel runCtx ...
MainReturns ==
    /\ main = "running" /\ exporter = "returned"
    /\ result' = IF signalled THEN "ok" ELSE IF cause THEN "error" ELSE "ok"
    /\ main' = "closing"
    /\ UNCHANGED <<healthy, wdVars, signalled, cause, exporter, unhealthyFor,
                   sinceGood>>

\* ... and close the HTTP server, within shutdownTimeout.
CloseServer ==
    /\ main = "closing" /\ main' = "exited"
    /\ UNCHANGED <<healthy, wdVars, signalled, cause, exporter, result,
                   unhealthyFor, sinceGood>>

Next ==
    \/ HealthChanges \/ TimePasses \/ Check \/ CancelRun \/ WatchdogEnds
    \/ Signal \/ ExporterReturns \/ MainReturns \/ CloseServer

-----------------------------------------------------------------------------
\* The exporter is not left unhealthy for longer than the limit and two
\* sampling intervals, however its failure falls between two checks
\* (main.go:104-127).
FiresInTime ==
    watchdog = "running" /\ ~runCtxDone /\ unhealthyFor # Absent =>
        unhealthyFor <= Limit + 2 * Interval

\* The process is given up only if no check has succeeded for more than the
\* limit, and it fails at the moment of the verdict (main.go:112-125).
GivesUpOnlyWhenUnhealthy ==
    [][watchdog' = "fired" /\ watchdog # "fired" =>
          ~healthy /\ sinceGood > Limit]_vars

=============================================================================
