---------------------------- MODULE DeviceStatus ----------------------------
(***************************************************************************)
(* The record that MqttMetricsExporter keeps under statusMu: when each     *)
(* device was last heard, when it was last reported offline, and the       *)
(* backoff of the forced reconnects (src/mqtt_exporter.go:58-63).  Every   *)
(* operation below holds statusMu from its first read to its last write,   *)
(* so it is one atomic step.  The paho callbacks and the monitor goroutine *)
(* call the operations in any order; StatusSpec is that most general       *)
(* client, and OfflineMonitor is the client the program has.               *)
(*                                                                         *)
(* Instants are kept relative to the present, which Tick advances:         *)
(*   lastReceived[d], offlineSent[d]   ages, counted up to Threshold + 1,  *)
(*                                     Absent when the map has no key d    *)
(*   nextReconnect                     time left until that instant, 0     *)
(*                                     once it is reached (or zero Time)   *)
(***************************************************************************)
EXTENDS Integers

CONSTANTS
    Devices,            \* the configured serial numbers (m.devices)
    Threshold,          \* offlineThreshold
    MaxReconnectDelay,  \* maxReconnectDelay
    ReloginAfter,       \* reloginAfterReconnects
    Absent              \* "no such key" in a map of instants

\* NewMqttMetricsExporter refuses an empty device list and a threshold <= 0;
\* the other two are constants of the program, both positive.
ASSUME StatusAssumption ==
    /\ Devices # {}
    /\ Threshold \in Nat \ {0}
    /\ MaxReconnectDelay \in Nat \ {0}
    /\ ReloginAfter \in Nat \ {0}
    /\ Absent \notin Int

VARIABLES
    lastReceived,        \* [Devices -> age | Absent]
    offlineSent,         \* [Devices -> age | Absent]
    reconnectDelay,
    nextReconnect,
    fruitlessReconnects,
    sinceAttempt         \* HISTORY: age of the latest due reconnect, Absent if a
                         \* message came since

backoffVars == <<reconnectDelay, nextReconnect, sinceAttempt>>
statusVars  == <<lastReceived, offlineSent, fruitlessReconnects, backoffVars>>

Lesser(a, b)  == IF a <= b THEN a ELSE b
Greater(a, b) == IF a >= b THEN a ELSE b

\* Ages above the threshold are not told apart: every comparison of the code
\* is with the threshold.
Ages == 0 .. Threshold + 1
Older(age) == IF age = Absent THEN Absent ELSE Lesser(age + 1, Threshold + 1)

Seen    == {d \in Devices : lastReceived[d] # Absent}
Silent(d) == lastReceived[d] # Absent /\ lastReceived[d] > Threshold

-----------------------------------------------------------------------------
StatusInit ==
    /\ lastReceived = [d \in Devices |-> Absent]
    /\ offlineSent = [d \in Devices |-> Absent]
    /\ reconnectDelay = 0
    /\ nextReconnect = 0
    /\ fruitlessReconnects = 0
    /\ sinceAttempt = Absent

\* Mutant: the entry is looked up after it was deleted.
wasOfflineAfterDelete(d) == d \notin Devices

\* markReceived returns whether the device was considered offline.
wasOffline(d) == offlineSent[d] # Absent

\* A message of d arrived.
markReceived(d) ==
    /\ lastReceived' = [lastReceived EXCEPT ![d] = 0]
    /\ offlineSent' = [offlineSent EXCEPT ![d] = Absent]
    /\ reconnectDelay' = 0
    /\ nextReconnect' = 0
    /\ fruitlessReconnects' = 0
    /\ sinceAttempt' = Absent

\* A connection was established: devices never heard count from now.
initDeviceStatuses ==
    /\ lastReceived' = [d \in Devices |->
                           IF lastReceived[d] = Absent THEN 0 ELSE lastReceived[d]]
    /\ UNCHANGED <<offlineSent, fruitlessReconnects, backoffVars>>

\* Mutant: >= for >.
offlineDevicesEarly == {d \in Seen : lastReceived[d] >= Threshold}

\* The devices the monitor considers offline at this instant.
offlineDevices == {d \in Devices : Silent(d)}

\* Mutant: the loop ranges over all devices that were seen.
UpdateDueOfAll(offline) ==
    {d \in Seen \cup offline : offlineSent[d] = Absent \/ offlineSent[d] >= Threshold}
\* Mutant: the update is sent once, never repeated.
UpdateDueOnce(offline) == {d \in offline : offlineSent[d] = Absent}

\* Those of `offline` whose last offline update is at least a threshold old.
UpdateDue(offline) ==
    {d \in offline : offlineSent[d] = Absent \/ offlineSent[d] >= Threshold}

\* The caller sends the updates that are due; they are recorded as sent now.
offlineUpdatesDue(offline) ==
    /\ offlineSent' = [d \in Devices |->
                          IF d \in UpdateDue(offline) THEN 0 ELSE offlineSent[d]]
    /\ UNCHANGED <<lastReceived, fruitlessReconnects, backoffVars>>

\* reconnectDue: whether a forced reconnect may run now ...
ReconnectDue == nextReconnect = 0
\* Mutant: the delay does not grow.
NextDelayConstant(delay) == Lesser(Greater(delay, Threshold), MaxReconnectDelay)

NextDelay(delay) == Lesser(Greater(2 * delay, Threshold), MaxReconnectDelay)

\* ... and, if it may, what is recorded about it.
reconnectDue ==
    /\ ReconnectDue
    /\ reconnectDelay' = NextDelay(reconnectDelay)
    /\ nextReconnect' = NextDelay(reconnectDelay)
    /\ sinceAttempt' = 0
    /\ UNCHANGED <<lastReceived, offlineSent, fruitlessReconnects>>

\* Mutant: > for >=.
ReloginDueLate == fruitlessReconnects + 1 > ReloginAfter

\* reloginDue counts the forced reconnect; `ReloginDue` is what it returns.
ReloginDue == fruitlessReconnects + 1 >= ReloginAfter
\* Mutant: the reconnect is not counted.
reloginDueUncounted == UNCHANGED statusVars

reloginDue ==
    /\ fruitlessReconnects' = IF ReloginDue THEN 0 ELSE fruitlessReconnects + 1
    /\ UNCHANGED <<lastReceived, offlineSent, backoffVars>>

\* One unit of time passes.
Tick ==
    /\ lastReceived' = [d \in Devices |-> Older(lastReceived[d])]
    /\ offlineSent' = [d \in Devices |-> Older(offlineSent[d])]
    /\ nextReconnect' = Greater(nextReconnect - 1, 0)
    /\ sinceAttempt' = IF sinceAttempt = Absent THEN Absent
                       ELSE Lesser(sinceAttempt + 1, MaxReconnectDelay)
    /\ UNCHANGED <<reconnectDelay, fruitlessReconnects>>

\* Any call at any time.  The argument of offlineUpdatesDue is an earlier
\* result of offlineDevices, hence any set of devices that were ever seen.
StatusNext ==
    \/ \E d \in Devices : markReceived(d)
    \/ initDeviceStatuses
    \/ \E offline \in SUBSET Seen : offlineUpdatesDue(offline)
    \/ reconnectDue
    \/ reloginDue
    \/ Tick

StatusSpec == StatusInit /\ [][StatusNext]_statusVars

-----------------------------------------------------------------------------
TypeOK ==
    /\ lastReceived \in [Devices -> Ages \cup {Absent}]
    /\ offlineSent \in [Devices -> Ages \cup {Absent}]
    /\ reconnectDelay \in 0 .. MaxReconnectDelay
    /\ nextReconnect \in 0 .. MaxReconnectDelay
    /\ fruitlessReconnects \in 0 .. ReloginAfter - 1
    /\ sinceAttempt \in (0 .. MaxReconnectDelay) \cup {Absent}

\* A device is recorded as reported offline only after it was heard (or the
\* connection was made) and nothing was heard since that report: otherwise
\* markReceived would not ask a returning device for its full state
\* (mqtt_exporter.go:249-252, 270-277).
SentAfterReceived ==
    \A d \in Devices : offlineSent[d] # Absent =>
        /\ lastReceived[d] # Absent
        /\ offlineSent[d] <= lastReceived[d]

\* While reconnects bring nothing back the next one is always a full delay
\* after the latest one, whatever else was called in between; with no attempt
\* outstanding nothing is postponed (mqtt_exporter.go:460-473).
BackoffKept ==
    IF sinceAttempt = Absent
    THEN /\ reconnectDelay = 0
         /\ nextReconnect = 0
    ELSE /\ reconnectDelay >= Lesser(Threshold, MaxReconnectDelay)
         /\ nextReconnect <= reconnectDelay
         /\ nextReconnect + sinceAttempt >= reconnectDelay

\* Two forced reconnects with no message between them are at least the delay
\* announced by the first apart, and the delay never shrinks without a message
\* (mqtt_exporter.go:460-473).
AttemptsSpaced ==
    [][sinceAttempt # Absent /\ sinceAttempt' # Absent =>
          /\ reconnectDelay' >= reconnectDelay
          /\ reconnectDelay' # reconnectDelay => sinceAttempt >= reconnectDelay
          /\ sinceAttempt' < sinceAttempt => sinceAttempt >= reconnectDelay]_statusVars

=============================================================================
