----------------------------- MODULE MetricStore ----------------------------
(***************************************************************************)
(* What PrometheusExporter promises its callers (src/prometheus.go:35-38): *)
(* the latest values of every device, changed by whole updates, emptied    *)
(* but for `online` when the device goes offline, and read by scrapes that *)
(* see the store between two updates.                                      *)
(***************************************************************************)
EXTENDS Integers

CONSTANTS
    Devices,   \* serial numbers
    Params,    \* metric names of numeric device parameters
    Values,    \* what a parameter may be
    Absent     \* no such series

ASSUME StoreAssumption == Absent \notin Values \cup {0, 1}

VARIABLES
    series,    \* [Devices -> [Params -> Values | Absent]]
    online,    \* [Devices -> Absent | 0 | 1]
    scraped    \* what the latest scrape saw of the two

storeVars == <<series, online>>

NoSeries == [p \in Params |-> Absent]
Updates  == [Params -> Values \cup {Absent}]

StoreInit ==
    /\ series = [d \in Devices |-> NoSeries]
    /\ online = [d \in Devices |-> Absent]
    /\ scraped = [series |-> series, online |-> online]

\* A series that the update has no value for keeps its own.
Overlay(old, update) ==
    [p \in Params |-> IF update[p] = Absent THEN old[p] ELSE update[p]]

\* An update of an online device.
Update(d, update) ==
    /\ series' = [series EXCEPT ![d] = Overlay(@, update)]
    /\ online' = [online EXCEPT ![d] = 1]

\* An update with Online 0, whatever parameters it has.
Offline(d) ==
    /\ series' = [series EXCEPT ![d] = NoSeries]
    /\ online' = [online EXCEPT ![d] = 0]

Scrape ==
    /\ scraped' = [series |-> series, online |-> online]
    /\ UNCHANGED storeVars

StoreNext ==
    \/ /\ \E d \in Devices : Offline(d) \/ \E update \in Updates : Update(d, update)
       /\ UNCHANGED scraped
    \/ Scrape

StoreSpec == StoreInit /\ [][StoreNext]_<<storeVars, scraped>>

-----------------------------------------------------------------------------
StoreTypeOK ==
    /\ series \in [Devices -> Updates]
    /\ online \in [Devices -> {Absent, 0, 1}]
    /\ scraped \in [series : [Devices -> Updates],
                    online : [Devices -> {Absent, 0, 1}]]

=============================================================================
