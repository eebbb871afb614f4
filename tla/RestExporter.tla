----------------------------- MODULE RestExporter ---------------------------
(***************************************************************************)
(* RestMetricsExporter (src/rest_exporter.go): Run polls the device list,  *)
(* then the parameters of every device on it in goroutines that share      *)
(* Concurrency slots, then passes the updates on to the store.  A scrape   *)
(* of Prometheus and the steps inside Handle are left to MetricStore and   *)
(* PrometheusExporter.                                                     *)
(*                                                                         *)
(* Time is counted in units of which the timeout of a request, the         *)
(* interval and the limit of Health have a fixed number.  Only requests    *)
(* and waiting take time: it does not pass while a goroutine can go on.    *)
(***************************************************************************)
EXTENDS MetricStore, FiniteSets

CONSTANTS
    Concurrency,   \* restConcurrency
    Timeout,       \* restRequestTimeout
    Interval,      \* e.interval
    MinLimit,      \* the two minutes of Health
    NoUpdate       \* the nil *DeviceUpdate

ASSUME RestAssumption ==
    /\ IsFiniteSet(Devices)
    /\ {Concurrency, Timeout, Interval} \subseteq Nat \ {0}
    /\ MinLimit \in Nat
    /\ NoUpdate \notin Updates

VARIABLES
    run,           \* "listing" | "fetching" | "dispatching" | "waiting" | "returned"
    listed,        \* [Devices -> its Online in the list of this scrape, or Absent]
    fetch,         \* [Devices -> "none" | "queued" | "running" | "done"]: goroutines
    updates,       \* [Devices -> an update to be dispatched, or NoUpdate]
    age,           \* [Devices -> time since its request began]
    listAge,       \* time since the request of the list began
    untilTick,     \* time left to the next tick
    ticker,        \* the ticker channel holds a tick
    sinceSuccess,  \* time since lastSuccess, since `started` until there is one
    cancelled,     \* ctx is done
    listFailed,    \* HISTORY: a list was not fetched since then
    failed         \* HISTORY: devices whose request failed in this scrape

timeVars   == <<age, listAge, untilTick, ticker, sinceSuccess>>
scrapeVars == <<run, listed, fetch, updates>>
history    == <<listFailed, failed>>
restVars   == <<scrapeVars, timeVars, cancelled, history>>
vars       == <<storeVars, scraped, restVars>>

Limit == IF 3 * Interval > MinLimit THEN 3 * Interval ELSE MinLimit
Healthy == sinceSuccess <= Limit
NoUpdates == [d \in Devices |-> NoUpdate]
Running == {d \in Devices : fetch[d] = "running"}

\* Mutant: the requests run one after another.
SlotFreeAlone == Running = {}

\* sem has room for one more.
SlotFree == Cardinality(Running) < Concurrency

RestInit ==
    /\ StoreInit
    /\ run = "listing"
    /\ listed = [d \in Devices |-> Absent]
    /\ fetch = [d \in Devices |-> "none"]
    /\ updates = NoUpdates
    /\ age = [d \in Devices |-> 0] /\ listAge = 0
    /\ untilTick = Interval /\ ticker = FALSE
    /\ sinceSuccess = 0
    /\ cancelled = FALSE
    /\ listFailed = FALSE /\ failed = {}

-----------------------------------------------------------------------------
(* scrape                                                                  *)

StoreUnchanged == UNCHANGED <<storeVars, scraped>>

ListFails ==
    /\ run = "listing" /\ run' = "waiting"
    /\ listed' = [d \in Devices |-> Absent]
    /\ listFailed' = TRUE
    /\ StoreUnchanged
    /\ UNCHANGED <<fetch, updates, timeVars, cancelled, failed>>

\* The list arrives; a goroutine is started for every device on it.
ListSucceeds ==
    /\ run = "listing" /\ run' = "fetching"
    /\ listed' \in [Devices -> {Absent, 0, 1}]
    /\ fetch' = [d \in Devices |-> IF listed'[d] = Absent THEN "none" ELSE "queued"]
    /\ sinceSuccess' = 0 /\ listFailed' = FALSE /\ failed' = {}
    /\ StoreUnchanged
    /\ UNCHANGED <<updates, age, listAge, untilTick, ticker, cancelled>>

FetchUnchanged ==
    /\ StoreUnchanged
    /\ UNCHANGED <<run, listed, listAge, untilTick, ticker, sinceSuccess, cancelled,
                   listFailed>>

\* A slot is free: the request begins.
Acquire(d) ==
    /\ fetch[d] = "queued" /\ SlotFree
    /\ fetch' = [fetch EXCEPT ![d] = "running"]
    /\ age' = [age EXCEPT ![d] = 0]
    /\ FetchUnchanged /\ UNCHANGED <<updates, failed>>

\* Cancelled while waiting for a slot.
Abandon(d) ==
    /\ fetch[d] = "queued" /\ cancelled
    /\ fetch' = [fetch EXCEPT ![d] = "done"]
    /\ FetchUnchanged /\ UNCHANGED <<age, updates, failed>>

EndRequest(d, update) ==
    /\ fetch[d] = "running"
    /\ fetch' = [fetch EXCEPT ![d] = "done"]
    /\ age' = [age EXCEPT ![d] = 0]
    /\ updates' = [updates EXCEPT ![d] = update]
    /\ FetchUnchanged

FetchSucceeds(d) ==
    /\ \E params \in Updates : EndRequest(d, params)
    /\ UNCHANGED failed

\* Mutant: a device whose request failed is not reported, offline or not.
FetchFailsSilently(d) ==
    /\ EndRequest(d, NoUpdate)
    /\ failed' = failed \cup {d}

\* An error or the timeout: the status of an offline device is reported
\* nevertheless, an online device is left as it is.
FetchFails(d) ==
    /\ EndRequest(d, IF listed[d] = 0 THEN NoSeries ELSE NoUpdate)
    /\ failed' = failed \cup {d}

\* Mutant: the results are counted, and a failed request sends none.
AllFetchedWithResult ==
    /\ run = "fetching" /\ run' = "dispatching"
    /\ \A d \in Devices : listed[d] # Absent => updates[d] # NoUpdate
    /\ StoreUnchanged
    /\ UNCHANGED <<listed, fetch, updates, timeVars, cancelled, history>>

\* wg.Wait returns.
AllFetched ==
    /\ run = "fetching" /\ run' = "dispatching"
    /\ \A d \in Devices : fetch[d] \in {"none", "done"}
    /\ StoreUnchanged
    /\ UNCHANGED <<listed, fetch, updates, timeVars, cancelled, history>>

\* Mutant: a device that is not on the list any more is set offline.
DispatchMissing(d) ==
    /\ run = "dispatching" /\ ~cancelled
    /\ \/ /\ updates[d] # NoUpdate
          /\ IF listed[d] = 0 THEN Offline(d) ELSE Update(d, updates[d])
       \/ listed[d] = Absent /\ online[d] = 1 /\ Offline(d)
    /\ updates' = [updates EXCEPT ![d] = NoUpdate]
    /\ UNCHANGED <<scraped, run, listed, fetch, timeVars, cancelled, history>>

\* One iteration of the last loop: Handle gets an update with the Online of the
\* list.  The list may have any order.
Dispatch(d) ==
    /\ run = "dispatching" /\ ~cancelled
    /\ updates[d] # NoUpdate
    /\ IF listed[d] = 0 THEN Offline(d) ELSE Update(d, updates[d])
    /\ updates' = [updates EXCEPT ![d] = NoUpdate]
    /\ UNCHANGED <<scraped, run, listed, fetch, timeVars, cancelled, history>>

\* Cancelled, the rest of the updates is skipped.
EndScrape ==
    /\ run = "dispatching" /\ run' = "waiting"
    /\ cancelled \/ updates = NoUpdates
    /\ updates' = NoUpdates
    /\ fetch' = [d \in Devices |-> "none"]
    /\ StoreUnchanged
    /\ UNCHANGED <<listed, timeVars, cancelled, history>>

-----------------------------------------------------------------------------
(* Run                                                                     *)

NextScrape ==
    /\ run = "waiting" /\ ticker
    /\ run' = "listing" /\ ticker' = FALSE /\ listAge' = 0
    /\ StoreUnchanged
    /\ UNCHANGED <<listed, fetch, updates, age, untilTick, sinceSuccess, cancelled,
                   history>>

Return ==
    /\ run = "waiting" /\ cancelled
    /\ run' = "returned"
    /\ StoreUnchanged
    /\ UNCHANGED <<listed, fetch, updates, timeVars, cancelled, history>>

Cancel ==
    /\ ~cancelled /\ cancelled' = TRUE
    /\ StoreUnchanged
    /\ UNCHANGED <<scrapeVars, timeVars, history>>

Step ==
    \/ ListFails \/ ListSucceeds \/ AllFetched \/ EndScrape \/ NextScrape \/ Return
    \/ \E d \in Devices :
          Acquire(d) \/ Abandon(d) \/ FetchSucceeds(d) \/ FetchFails(d) \/ Dispatch(d)

\* A goroutine can go on, or a request is at its timeout.
Due ==
    \/ run = "listing" /\ listAge = Timeout
    \/ run = "dispatching" \/ (run = "fetching" /\ \A d \in Devices : fetch[d] \in {"none", "done"})
    \/ run = "waiting" /\ (ticker \/ cancelled)
    \/ \E d \in Devices :
          \/ fetch[d] = "queued" /\ (cancelled \/ SlotFree)
          \/ fetch[d] = "running" /\ age[d] = Timeout

TimePasses ==
    /\ ~Due /\ run # "returned"
    /\ listAge' = IF run = "listing" THEN listAge + 1 ELSE 0
    /\ age' = [d \in Devices |-> IF fetch[d] = "running" THEN age[d] + 1 ELSE 0]
    /\ untilTick' = IF untilTick = 1 THEN Interval ELSE untilTick - 1
    /\ ticker' = (ticker \/ untilTick = 1)
    /\ sinceSuccess' = IF sinceSuccess > Limit THEN sinceSuccess ELSE sinceSuccess + 1
    /\ StoreUnchanged
    /\ UNCHANGED <<scrapeVars, cancelled, history>>

RestNext == Step \/ Cancel \/ TimePasses

RestSpec == RestInit /\ [][RestNext]_vars

\* Ready goroutines run, a request ends by its timeout, time goes on, and select
\* does not pass over ctx.Done() for ever.
FairRestSpec == RestSpec /\ WF_vars(Step) /\ WF_vars(TimePasses) /\ SF_vars(Return)

-----------------------------------------------------------------------------
\* After a scrape every device of the list is shown as the list has it, also if
\* some requests failed: an offline device is bare, an online one is online
\* unless its own request failed (rest_exporter.go:92-109, 126-135).
ScrapeReported ==
    run = "waiting" /\ ~cancelled =>
        \A d \in Devices :
            /\ listed[d] = 0 => online[d] = 0 /\ series[d] = NoSeries
            /\ listed[d] = 1 => online[d] = 1 \/ d \in failed

\* What is shown of a device changes by the updates of lists that have it only: a
\* device that vanishes from the list keeps its series and its `online`, right or
\* wrong, until a list has it again (rest_exporter.go:92-109).
VanishedStays ==
    [][\A d \in Devices :
          <<series'[d], online'[d]>> # <<series[d], online[d]>> =>
              listed[d] # Absent /\ updates[d] # NoUpdate]_vars

\* Health fails "when the device list could not be fetched" (rest_exporter.go:138,
\* 84-103, 146): slow or failing requests for parameters alone do not make it
\* fail, as long as all of them at their timeout, Concurrency at a time, leave
\* time for the next list.
Rounds == (Cardinality(Devices) + Concurrency - 1) \div Concurrency
UnhealthyExplained ==
    /\ (Rounds + 1) * Timeout <= Limit /\ Interval + Timeout <= Limit
    /\ ~Healthy
    => listFailed \/ cancelled

\* However requests fail and overlap, Run polls again and again, and returns
\* once ctx is cancelled (rest_exporter.go:54-70, 92-103).
KeepsPolling == []<>(run = "returned" \/ (run = "listing" /\ ~cancelled))

=============================================================================
