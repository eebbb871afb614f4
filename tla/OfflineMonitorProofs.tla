------------------------ MODULE OfflineMonitorProofs ------------------------
(* For any set of devices, any threshold and any longest delay: what the    *)
(* record under statusMu guarantees, whatever order its operations are      *)
(* called in, and what the monitor, the callbacks and the passing of time   *)
(* keep true of the verdicts.                                               *)
EXTENDS OfflineMonitor, TLAPS

-----------------------------------------------------------------------------
(* The record: TypeOK makes the ages and delays numbers; given it, each of  *)
(* SentAfterReceived and BackoffKept is inductive.                          *)

IInv == TypeOK /\ SentAfterReceived /\ BackoffKept

\* Aging keeps an age in range and keeps the order of two ages.
LEMMA OlderFacts ==
    ASSUME NEW a \in Ages \cup {Absent}, NEW b \in Ages \cup {Absent}
    PROVE  /\ Older(a) \in Ages \cup {Absent}
           /\ Older(a) = Absent <=> a = Absent
           /\ (a # Absent /\ b # Absent /\ a <= b) => Older(a) <= Older(b)
  BY StatusAssumption DEF Ages, Older, Lesser

\* The next delay is a delay: not below the smaller of the threshold and the
\* cap, not above the cap and not below the delay before it.
LEMMA NextDelayFacts ==
    ASSUME NEW delay \in 0 .. MaxReconnectDelay
    PROVE  /\ NextDelay(delay) \in 1 .. MaxReconnectDelay
           /\ NextDelay(delay) >= delay
           /\ NextDelay(delay) >= Lesser(Threshold, MaxReconnectDelay)
  BY StatusAssumption DEF NextDelay, Lesser, Greater

\* Init establishes the invariant: no device seen, no attempt made.
LEMMA InitIInv == StatusInit => IInv
  BY StatusAssumption
     DEF StatusInit, IInv, TypeOK, SentAfterReceived, BackoffKept, Ages

\* Every operation keeps every value in its range.
LEMMA NextTypeOK == TypeOK /\ [StatusNext]_statusVars => TypeOK'
<1> SUFFICES ASSUME TypeOK, [StatusNext]_statusVars PROVE TypeOK'
  OBVIOUS
<1> USE StatusAssumption
<1>1. ASSUME NEW d \in Devices, markReceived(d) PROVE TypeOK'
  BY <1>1 DEF markReceived, TypeOK, Ages
<1>2. CASE initDeviceStatuses
  BY <1>2 DEF initDeviceStatuses, TypeOK, Ages, backoffVars
<1>3. ASSUME NEW list \in SUBSET Seen, offlineUpdatesDue(list)
      PROVE  TypeOK'
  BY <1>3 DEF offlineUpdatesDue, TypeOK, Ages, backoffVars
<1>4. CASE reconnectDue
  <2>1. NextDelay(reconnectDelay) \in 1 .. MaxReconnectDelay
    BY NextDelayFacts DEF TypeOK
  <2> QED
    BY <1>4, <2>1 DEF reconnectDue, TypeOK, Lesser
<1>5. CASE reloginDue
  BY <1>5 DEF reloginDue, ReloginDue, TypeOK, backoffVars
<1>6. CASE Tick
  <2>1. lastReceived' \in [Devices -> Ages \cup {Absent}]
    BY <1>6, OlderFacts DEF Tick, TypeOK
  <2>2. offlineSent' \in [Devices -> Ages \cup {Absent}]
    BY <1>6, OlderFacts DEF Tick, TypeOK
  <2>3. nextReconnect' \in 0 .. MaxReconnectDelay
    BY <1>6 DEF Tick, TypeOK, Greater
  <2>4. sinceAttempt' \in (0 .. MaxReconnectDelay) \cup {Absent}
    BY <1>6 DEF Tick, TypeOK, Lesser
  <2> QED
    BY <1>6, <2>1, <2>2, <2>3, <2>4 DEF Tick, TypeOK
<1>7. CASE UNCHANGED statusVars
  BY <1>7 DEF statusVars, backoffVars, TypeOK
<1> QED
  BY <1>1, <1>2, <1>3, <1>4, <1>5, <1>6, <1>7 DEF StatusNext

\* Every operation keeps the record of offline updates consistent with the
\* record of messages.
LEMMA NextSentAfterReceived ==
    TypeOK /\ SentAfterReceived /\ [StatusNext]_statusVars => SentAfterReceived'
<1> SUFFICES ASSUME TypeOK, SentAfterReceived, [StatusNext]_statusVars,
                    NEW d \in Devices, offlineSent'[d] # Absent
             PROVE  /\ lastReceived'[d] # Absent
                    /\ offlineSent'[d] <= lastReceived'[d]
  BY DEF SentAfterReceived
<1> USE StatusAssumption
<1>1. ASSUME NEW e \in Devices, markReceived(e)
      PROVE  lastReceived'[d] # Absent /\ offlineSent'[d] <= lastReceived'[d]
  BY <1>1 DEF markReceived, TypeOK, SentAfterReceived
<1>2. CASE initDeviceStatuses
  BY <1>2 DEF initDeviceStatuses, TypeOK, SentAfterReceived
<1>3. ASSUME NEW list \in SUBSET Seen, offlineUpdatesDue(list)
      PROVE  lastReceived'[d] # Absent /\ offlineSent'[d] <= lastReceived'[d]
  <2>1. CASE d \in UpdateDue(list)
    <3>1. d \in Seen
      BY <1>3, <2>1 DEF UpdateDue
    <3>2. lastReceived[d] \in Ages /\ lastReceived[d] # Absent
      BY <3>1 DEF Seen, TypeOK
    <3> QED
      BY <1>3, <2>1, <3>2 DEF offlineUpdatesDue, Ages
  <2>2. CASE d \notin UpdateDue(list)
    BY <1>3, <2>2 DEF offlineUpdatesDue, SentAfterReceived
  <2> QED
    BY <2>1, <2>2
<1>4. CASE reconnectDue
  BY <1>4 DEF reconnectDue, SentAfterReceived
<1>5. CASE reloginDue
  BY <1>5 DEF reloginDue, SentAfterReceived
<1>6. CASE Tick
  <2>1. /\ lastReceived'[d] = Older(lastReceived[d])
        /\ offlineSent'[d] = Older(offlineSent[d])
    BY <1>6 DEF Tick
  <2>2. /\ lastReceived[d] \in Ages \cup {Absent}
        /\ offlineSent[d] \in Ages \cup {Absent}
    BY DEF TypeOK
  <2>3. offlineSent[d] # Absent
    BY <2>1, <2>2, OlderFacts
  <2> QED
    BY <2>1, <2>2, <2>3, OlderFacts DEF SentAfterReceived
<1>7. CASE UNCHANGED statusVars
  BY <1>7 DEF statusVars, SentAfterReceived
<1> QED
  BY <1>1, <1>2, <1>3, <1>4, <1>5, <1>6, <1>7 DEF StatusNext

\* Every operation keeps the time left until the next attempt and the time
\* since the latest one together at a full delay or more.
LEMMA NextBackoffKept ==
    TypeOK /\ BackoffKept /\ [StatusNext]_statusVars => BackoffKept'
<1> SUFFICES ASSUME TypeOK, BackoffKept, [StatusNext]_statusVars
             PROVE  BackoffKept'
  OBVIOUS
<1> USE StatusAssumption
<1>1. ASSUME NEW d \in Devices, markReceived(d) PROVE BackoffKept'
  BY <1>1 DEF markReceived, BackoffKept
<1>2. ASSUME UNCHANGED backoffVars PROVE BackoffKept'
  BY <1>2 DEF backoffVars, BackoffKept
<1>3. CASE reconnectDue
  <2>1. /\ NextDelay(reconnectDelay) \in 1 .. MaxReconnectDelay
        /\ NextDelay(reconnectDelay) >= Lesser(Threshold, MaxReconnectDelay)
    BY NextDelayFacts DEF TypeOK
  <2> QED
    BY <1>3, <2>1 DEF reconnectDue, BackoffKept
<1>4. CASE Tick
  BY <1>4 DEF Tick, BackoffKept, TypeOK, Lesser, Greater
<1> QED
  BY <1>1, <1>2, <1>3, <1>4
     DEF StatusNext, initDeviceStatuses, offlineUpdatesDue, reloginDue, statusVars

\* The strengthened invariant holds of every behaviour.
THEOREM StatusInvariant == StatusSpec => []IInv
<1>1. StatusInit => IInv
  BY InitIInv
<1>2. IInv /\ [StatusNext]_statusVars => IInv'
  BY NextTypeOK, NextSentAfterReceived, NextBackoffKept DEF IInv
<1> QED
  BY <1>1, <1>2, PTL DEF StatusSpec

\* The record is well typed: no age, delay or count leaves its range, whatever
\* the callbacks and the monitor call (mqtt_exporter.go:58-63).
THEOREM StatusTypeOK == StatusSpec => []TypeOK
  BY StatusInvariant, PTL DEF IInv

\* offlineSent never outlives a message of its device, so wasOffline of
\* markReceived means "reported offline and silent since" (238-253).
THEOREM StatusSentAfterReceived == StatusSpec => []SentAfterReceived
  BY StatusInvariant, PTL DEF IInv

\* The time to the next forced reconnect is never cut short except by a
\* message (reconnectDue and markReceived, 238-253 and 460-473).
THEOREM StatusBackoffKept == StatusSpec => []BackoffKept
  BY StatusInvariant, PTL DEF IInv

\* Consecutive forced reconnects without a message are a full delay apart and
\* the delay does not shrink (460-473).
THEOREM StatusAttemptsSpaced == StatusSpec => AttemptsSpaced
<1> DEFINE Spaced ==
      sinceAttempt # Absent /\ sinceAttempt' # Absent =>
          /\ reconnectDelay' >= reconnectDelay
          /\ reconnectDelay' # reconnectDelay => sinceAttempt >= reconnectDelay
          /\ sinceAttempt' < sinceAttempt => sinceAttempt >= reconnectDelay
<1>1. IInv /\ [StatusNext]_statusVars => [Spaced]_statusVars
  <2> SUFFICES ASSUME IInv, StatusNext, sinceAttempt # Absent, sinceAttempt' # Absent
               PROVE  /\ reconnectDelay' >= reconnectDelay
                      /\ reconnectDelay' # reconnectDelay => sinceAttempt >= reconnectDelay
                      /\ sinceAttempt' < sinceAttempt => sinceAttempt >= reconnectDelay
    OBVIOUS
  <2> USE StatusAssumption DEF IInv, TypeOK, BackoffKept
  <2>1. ASSUME NEW d \in Devices, markReceived(d) PROVE FALSE
    BY <2>1 DEF markReceived
  <2>2. CASE UNCHANGED backoffVars
    BY <2>2 DEF backoffVars
  <2>3. CASE reconnectDue
    BY <2>3, NextDelayFacts DEF reconnectDue, ReconnectDue
  <2>4. CASE Tick
    BY <2>4 DEF Tick, Lesser
  <2> QED
    BY <2>1, <2>2, <2>3, <2>4
       DEF StatusNext, initDeviceStatuses, offlineUpdatesDue, reloginDue
<1> QED
  BY <1>1, StatusInvariant, PTL DEF StatusSpec, AttemptsSpaced

-----------------------------------------------------------------------------
(* The verdicts: the monitor works on copies (`offline`, `due`) of a record *)
(* that the callbacks change, so each property is strengthened by what the  *)
(* copies still mean:                                                       *)
(*   - a device on `offline` was seen, and is silent or spoke since;        *)
(*   - a device on `due` that spoke since the update was recorded was asked *)
(*     for its full state before the update is sent.                        *)

\* The copies are subsets of what was seen, and empty when they are not in use.
CopiesOK ==
    /\ offline \subseteq Seen
    /\ mon # "reporting" => due = {}

\* What is still to be sent is about a device with a recorded update, or one
\* that was already asked for its full state.
DueRefreshed == \A d \in due : offlineSent[d] = Absent => d \in asked

MonitorInv ==
    /\ TypeOK
    /\ MonitorTypeOK
    /\ CopiesOK
    /\ VerdictExplained
    /\ HiddenOnlyByRace
    /\ DueRefreshed
    /\ ReturnRefreshed

-----------------------------------------------------------------------------
\* At the start no device was seen and no list is in use.
LEMMA MonitorInitInv == MonitorInit => MonitorInv
<1> SUFFICES ASSUME MonitorInit PROVE MonitorInv
  OBVIOUS
<1> USE StatusAssumption
<1>1. TypeOK
  BY InitIInv DEF MonitorInit, IInv
<1>2. MonitorTypeOK
  <2>1. /\ relogin \in BOOLEAN /\ onConnect \in BOOLEAN
        /\ ticker \in BOOLEAN /\ cancelled \in BOOLEAN
        /\ handling \in [Devices -> BOOLEAN]
    BY ZenonT(20) DEF MonitorInit
  <2>2. /\ link \in {"down", "pending", "up"}
        /\ session \in {"login", "live", "ended"}
        /\ mon = "idle" /\ offline = {} /\ due = {}
        /\ online \in [Devices -> {Absent, 0, 1}]
        /\ asked = {} /\ spoke = {} /\ excused = Devices
        /\ reconnects \in 0 .. ReloginAfter /\ sinceReconnect = Absent
        /\ spacing \in 0 .. MaxReconnectDelay
    BY DEF MonitorInit
  <2> QED
    BY <2>1, <2>2 DEF MonitorTypeOK
<1>3. CopiesOK /\ VerdictExplained /\ HiddenOnlyByRace /\ DueRefreshed
  BY DEF MonitorInit, CopiesOK, VerdictExplained, HiddenOnlyByRace, DueRefreshed
<1>4. ReturnRefreshed
  BY DEF MonitorInit, ReturnRefreshed
<1> QED
  BY <1>1, <1>2, <1>3, <1>4 DEF MonitorInv

\* A call on the record other than the one for a message of d.
OtherCall(d) ==
    \/ \E e \in Devices \ {d} : markReceived(e)
    \/ initDeviceStatuses
    \/ \E off \in SUBSET Seen : offlineUpdatesDue(off)
    \/ reconnectDue \/ reloginDue \/ Tick

\* Every step is an operation of the record, called at an allowed moment, or
\* leaves the record alone; only the receipt of a message of d marks d.
LEMMA MonitorSteps ==
    ASSUME CopiesOK, [MonitorNext]_vars, NEW d \in Devices
    PROVE  Receive(d) \/ OtherCall(d) \/ UNCHANGED statusVars
<1>1. ASSUME NEW e \in Devices, Receive(e) PROVE Receive(d) \/ OtherCall(d)
  BY <1>1 DEF Receive, OtherCall
<1>2. CASE RecordUpdates
  BY <1>2 DEF RecordUpdates, CopiesOK, OtherCall
<1>3. CASE DecideReconnect \/ CountReconnect \/ RequestRelogin
  BY <1>3 DEF DecideReconnect, CountReconnect, RequestRelogin, OtherCall
<1>4. CASE OnConnect \/ TimePasses
  BY <1>4 DEF OnConnect, TimePasses, OtherCall
<1>5. ASSUME \/ \E e \in Devices : Handler(e) \/ ReportOffline(e)
             \/ Check \/ NoReconnect \/ Disconnect \/ Reconnect \/ EndReconnect
             \/ StopMonitor \/ EndSession \/ Login \/ StopRun \/ Connected
             \/ ConnectionLost \/ Cancel \/ UNCHANGED vars
      PROVE  UNCHANGED statusVars
  BY <1>5 DEF Handler, HandleUpdate, DropMessage, ReportOffline, Check,
     NoReconnect, Disconnect, Reconnect, EndReconnect, StopMonitor, EndSession,
     Login, StopRun, Connected, ConnectionLost, Cancel, vars
<1> QED
  BY <1>1, <1>2, <1>3, <1>4, <1>5 DEF MonitorNext, Monitor

\* A step of the monitor's system is one of the status record, or none of its.
LEMMA MonitorUsesStatus ==
    CopiesOK /\ [MonitorNext]_vars => [StatusNext]_statusVars
<1> SUFFICES ASSUME CopiesOK, [MonitorNext]_vars PROVE [StatusNext]_statusVars
  OBVIOUS
<1>1. PICK d \in Devices : TRUE
  BY StatusAssumption
<1>2. Receive(d) \/ OtherCall(d) \/ UNCHANGED statusVars
  BY MonitorSteps
<1> QED
  BY <1>2 DEF Receive, OtherCall, StatusNext

\* Only a message of d ends its silence, and only it brings back the record of
\* its latest offline update.
LEMMA OtherCallFacts ==
    ASSUME TypeOK, NEW d \in Devices, OtherCall(d) \/ UNCHANGED statusVars
    PROVE  /\ lastReceived[d] # Absent => lastReceived'[d] # Absent
           /\ Silent(d) => Silent(d)'
           /\ offlineSent[d] # Absent => offlineSent'[d] # Absent
<1> USE StatusAssumption
<1>1. ASSUME NEW e \in Devices \ {d}, markReceived(e)
      PROVE  lastReceived'[d] = lastReceived[d] /\ offlineSent'[d] = offlineSent[d]
  BY <1>1 DEF markReceived, TypeOK
<1>2. CASE initDeviceStatuses
  BY <1>2 DEF initDeviceStatuses, TypeOK, Silent
<1>3. ASSUME NEW off \in SUBSET Seen, offlineUpdatesDue(off)
      PROVE  /\ lastReceived' = lastReceived
             /\ offlineSent[d] # Absent => offlineSent'[d] # Absent
  BY <1>3 DEF offlineUpdatesDue
<1>4. CASE reconnectDue \/ reloginDue \/ UNCHANGED statusVars
  BY <1>4 DEF reconnectDue, reloginDue, statusVars, Silent
<1>5. CASE Tick
  <2>1. /\ lastReceived[d] \in Ages \cup {Absent}
        /\ offlineSent[d] \in Ages \cup {Absent}
    BY DEF TypeOK
  <2>2. /\ lastReceived'[d] = Older(lastReceived[d])
        /\ offlineSent'[d] = Older(offlineSent[d])
    BY <1>5 DEF Tick
  <2>3. Silent(d) => Silent(d)'
    BY <2>1, <2>2 DEF Silent, Older, Lesser, Ages
  <2> QED
    BY <2>1, <2>2, <2>3, OlderFacts
<1> QED
  BY <1>1, <1>2, <1>3, <1>4, <1>5 DEF OtherCall, Silent

-----------------------------------------------------------------------------
\* The session and the passing of time leave the monitor's copies, the updates
\* and what they are compared with alone.
Environment ==
    \/ EndSession \/ Login \/ StopRun \/ Connected \/ OnConnect
    \/ ConnectionLost \/ Cancel \/ TimePasses

\* Sessions, logins and time leave the monitor's own state alone.
LEMMA EnvironmentFacts ==
    Environment \/ UNCHANGED vars =>
        UNCHANGED <<monitorVars, handling, online, asked, spoke, excused, reconnects>>
  BY DEF Environment, EndSession, Login, StopRun, Connected, OnConnect,
     ConnectionLost, Cancel, TimePasses, EnvironmentUnchanged, history, vars

\* Every step keeps the control state of the goroutines in range.
LEMMA NextMonitorTypeOK ==
    MonitorTypeOK /\ CopiesOK /\ [MonitorNext]_vars => MonitorTypeOK'
<1> SUFFICES ASSUME MonitorTypeOK, CopiesOK, [MonitorNext]_vars
             PROVE  MonitorTypeOK'
  OBVIOUS
<1> USE StatusAssumption DEF MonitorTypeOK, linkVars, monitorVars, history,
        MonitorUnchanged
<1>1. ASSUME NEW d \in Devices, Receive(d) PROVE MonitorTypeOK'
  BY <1>1 DEF Receive
<1>2. ASSUME NEW d \in Devices, HandleUpdate(d) PROVE MonitorTypeOK'
  BY <1>2 DEF HandleUpdate
<1>3. ASSUME NEW d \in Devices, DropMessage(d) PROVE MonitorTypeOK'
  BY <1>3 DEF DropMessage
<1>4. CASE Check
  BY <1>4 DEF Check, offlineDevices, CopiesOK
<1>5. CASE RecordUpdates
  BY <1>5 DEF RecordUpdates, UpdateDue
<1>6. ASSUME NEW d \in Devices, ReportOffline(d) PROVE MonitorTypeOK'
  BY <1>6 DEF ReportOffline
<1>7. CASE NoReconnect
  BY <1>7 DEF NoReconnect
<1>8. CASE DecideReconnect
  <2>1. /\ sinceReconnect' \in (0 .. Longest) \cup {Absent}
        /\ spacing' \in 0 .. MaxReconnectDelay
    BY <1>8 DEF DecideReconnect, Longest, Lesser, Greater
  <2> QED
    BY <1>8, <2>1 DEF DecideReconnect
<1>9. CASE CountReconnect
  BY <1>9 DEF CountReconnect
<1>10. CASE RequestRelogin
  BY <1>10 DEF RequestRelogin, CopiesOK
<1>11. CASE Disconnect
  BY <1>11 DEF Disconnect, Lesser
<1>12. CASE Reconnect
  BY <1>12 DEF Reconnect
<1>13. CASE EndReconnect
  BY <1>13 DEF EndReconnect, CopiesOK
<1>14. CASE StopMonitor
  BY <1>14 DEF StopMonitor
<1>15. CASE TimePasses
  <2>1. sinceReconnect' \in (0 .. Longest) \cup {Absent}
    BY <1>15 DEF TimePasses, Longest, Lesser, Greater
  <2> QED
    BY <1>15, <2>1 DEF TimePasses
<1>16. CASE EndSession \/ Login \/ StopRun
  <2>1. CASE EndSession
    BY <2>1 DEF EndSession, EnvironmentUnchanged
  <2>2. CASE Login
    BY <2>2 DEF Login, EnvironmentUnchanged
  <2>3. CASE StopRun
    BY <2>3 DEF StopRun, EnvironmentUnchanged
  <2> QED
    BY <1>16, <2>1, <2>2, <2>3, Zenon
<1>17. CASE Connected \/ OnConnect \/ ConnectionLost \/ Cancel
  <2>1. CASE Connected
    BY <2>1 DEF Connected, EnvironmentUnchanged
  <2>2. CASE OnConnect
    BY <2>2 DEF OnConnect, EnvironmentUnchanged
  <2>3. CASE ConnectionLost
    BY <2>3 DEF ConnectionLost, EnvironmentUnchanged
  <2>4. CASE Cancel
    BY <2>4 DEF Cancel, EnvironmentUnchanged
  <2> QED
    BY <1>17, <2>1, <2>2, <2>3, <2>4, Zenon
<1>18. CASE UNCHANGED vars
  BY <1>18 DEF vars
<1> QED
  BY <1>1, <1>2, <1>3, <1>4, <1>5, <1>6, <1>7, <1>8, <1>9, <1>10, <1>11, <1>12,
     <1>13, <1>14, <1>15, <1>16, <1>17, <1>18 DEF MonitorNext, Monitor, Handler

\* The monitor's list stays within the devices that were seen, and what is due
\* is used up before the monitor goes on.
LEMMA NextCopiesOK ==
    TypeOK /\ MonitorTypeOK /\ CopiesOK /\ [MonitorNext]_vars => CopiesOK'
<1> SUFFICES ASSUME TypeOK, MonitorTypeOK, CopiesOK, [MonitorNext]_vars
             PROVE  CopiesOK'
  OBVIOUS
<1>1. ASSUME NEW d \in Devices, lastReceived[d] # Absent
      PROVE  lastReceived'[d] # Absent
  <2>1. CASE Receive(d)
    BY <2>1, StatusAssumption DEF Receive, markReceived, TypeOK
  <2> QED
    BY <1>1, <2>1, MonitorSteps, OtherCallFacts
<1>2. Seen \subseteq Seen'
  BY <1>1 DEF Seen
<1>3. CASE Check
  BY <1>3, <1>2 DEF Check, offlineDevices, Silent, Seen, CopiesOK
<1>4. CASE RecordUpdates
  BY <1>4, <1>2 DEF RecordUpdates, CopiesOK
<1>5. ASSUME NEW d \in Devices, ReportOffline(d) PROVE CopiesOK'
  BY <1>5, <1>2 DEF ReportOffline, CopiesOK
<1>6. CASE NoReconnect \/ DecideReconnect
  BY <1>6, <1>2 DEF NoReconnect, DecideReconnect, CopiesOK
<1>7. CASE CountReconnect \/ RequestRelogin \/ Disconnect \/ Reconnect
  BY <1>7, <1>2 DEF CountReconnect, RequestRelogin, Disconnect, Reconnect, CopiesOK
<1>8. CASE EndReconnect \/ StopMonitor
  BY <1>8, <1>2 DEF EndReconnect, StopMonitor, CopiesOK
<1>9. ASSUME \/ \E d \in Devices : Receive(d) \/ Handler(d)
             \/ Environment \/ UNCHANGED vars
      PROVE  UNCHANGED monitorVars
  BY <1>9, EnvironmentFacts
     DEF Receive, Handler, HandleUpdate, DropMessage, monitorVars
<1>10. CASE UNCHANGED monitorVars
  BY <1>10, <1>2 DEF monitorVars, CopiesOK
<1> QED
  BY <1>3, <1>4, <1>5, <1>6, <1>7, <1>8, <1>9, <1>10
     DEF MonitorNext, Monitor, Environment

\* A device on the monitor's list keeps its reason to be there.
LEMMA NextVerdictExplained ==
    /\ TypeOK /\ MonitorTypeOK /\ CopiesOK /\ VerdictExplained
    /\ [MonitorNext]_vars
    => VerdictExplained'
<1> SUFFICES ASSUME TypeOK, MonitorTypeOK, CopiesOK, VerdictExplained,
                    [MonitorNext]_vars, NEW d \in offline'
             PROVE  Silent(d)' \/ d \in spoke'
  BY DEF VerdictExplained
<1>1. CASE Check
  <2>1. CASE connected
    BY <1>1, <2>1 DEF Check, offlineDevices, Silent, statusVars
  <2>2. CASE ~connected
    BY <1>1, <2>2 DEF Check, VerdictExplained, Silent, statusVars
  <2> QED
    BY <2>1, <2>2
<1>2. CASE NoReconnect \/ RequestRelogin \/ EndReconnect
  BY <1>2 DEF NoReconnect, RequestRelogin, EndReconnect
<1>3. CASE ~(Check \/ NoReconnect \/ RequestRelogin \/ EndReconnect)
  <2>1. UNCHANGED offline /\ spoke \subseteq spoke'
    BY <1>3, EnvironmentFacts
       DEF MonitorNext, Monitor, Environment, Receive, Handler, HandleUpdate,
           DropMessage, RecordUpdates, ReportOffline, DecideReconnect,
           CountReconnect, Disconnect, Reconnect, StopMonitor, monitorVars, history
  <2>2. d \in offline /\ d \in Devices
    BY <2>1 DEF MonitorTypeOK
  <2>3. CASE Receive(d)
    BY <2>2, <2>3 DEF Receive
  <2>4. Receive(d) \/ (Silent(d) => Silent(d)')
    BY <2>2, MonitorSteps, OtherCallFacts
  <2> QED
    BY <2>1, <2>2, <2>3, <2>4 DEF VerdictExplained
<1> QED
  BY <1>1, <1>2, <1>3

\* An offline update hides a device only if it is silent, or excused because it
\* spoke after the verdict.
LEMMA NextHiddenOnlyByRace ==
    /\ TypeOK /\ MonitorTypeOK /\ CopiesOK /\ VerdictExplained /\ HiddenOnlyByRace
    /\ [MonitorNext]_vars
    => HiddenOnlyByRace'
<1> SUFFICES ASSUME TypeOK, MonitorTypeOK, CopiesOK, VerdictExplained,
                    HiddenOnlyByRace, [MonitorNext]_vars,
                    NEW d \in Devices, d \notin excused'
             PROVE  Silent(d)' \/ online'[d] = 1
  BY DEF HiddenOnlyByRace
<1>1. CASE Receive(d)
  BY <1>1 DEF Receive
<1>2. CASE HandleUpdate(d)
  BY <1>2 DEF HandleUpdate, MonitorTypeOK
<1>3. CASE ReportOffline(d)
  <2>1. d \in offline /\ d \notin spoke
    BY <1>3 DEF ReportOffline, MonitorTypeOK
  <2>2. Silent(d)
    BY <2>1 DEF VerdictExplained
  <2> QED
    BY <1>3, <2>2 DEF ReportOffline, Silent, statusVars
<1>4. CASE ~(Receive(d) \/ HandleUpdate(d) \/ ReportOffline(d))
  <2>1. d \notin excused /\ online'[d] = online[d]
    <3>1. ASSUME NEW e \in Devices, e # d,
                 Receive(e) \/ HandleUpdate(e) \/ DropMessage(e) \/ ReportOffline(e)
          PROVE  d \notin excused /\ online'[d] = online[d]
      BY <3>1 DEF Receive, HandleUpdate, DropMessage, ReportOffline,
         MonitorTypeOK, history
    <3>2. CASE DropMessage(d)
      BY <3>2 DEF DropMessage, history
    <3>3. CASE Environment \/ UNCHANGED vars
      BY <3>3, EnvironmentFacts
    <3>4. ASSUME \/ Check \/ RecordUpdates \/ NoReconnect \/ DecideReconnect
                 \/ CountReconnect \/ RequestRelogin \/ Disconnect \/ Reconnect
                 \/ EndReconnect \/ StopMonitor
          PROVE  UNCHANGED <<online, excused>>
      BY <3>4 DEF Check, RecordUpdates, NoReconnect, DecideReconnect,
         CountReconnect, RequestRelogin, Disconnect, Reconnect, EndReconnect,
         StopMonitor
    <3> QED
      BY <1>4, <3>1, <3>2, <3>3, <3>4
         DEF MonitorNext, Monitor, Handler, Environment
  <2>2. Silent(d) => Silent(d)'
    BY <1>4, MonitorSteps, OtherCallFacts
  <2> QED
    BY <2>1, <2>2 DEF HiddenOnlyByRace
<1> QED
  BY <1>1, <1>2, <1>3, <1>4

\* Only recording an offline update takes a device from `asked`, and with it
\* the device is recorded as reported; only a message undoes that record, and
\* it asks the device.
LEMMA AskedFacts ==
    ASSUME TypeOK, MonitorTypeOK, CopiesOK, [MonitorNext]_vars,
           NEW d \in Devices, offlineSent'[d] = Absent
    PROVE  /\ offlineSent[d] = Absent => (d \in asked => d \in asked')
           /\ offlineSent[d] # Absent => d \in asked'
           /\ d \in due' => d \in due
<1>1. CASE Receive(d)
  BY <1>1 DEF Receive, wasOffline, monitorVars
<1>2. CASE RecordUpdates
  BY <1>2, StatusAssumption
     DEF RecordUpdates, offlineUpdatesDue, TypeOK
<1>3. CASE ~(Receive(d) \/ RecordUpdates)
  <2>1. asked \subseteq asked' /\ due' \subseteq due
    <3>1. CASE Environment \/ UNCHANGED vars
      BY <3>1, EnvironmentFacts DEF monitorVars
    <3>2. ASSUME \E e \in Devices : Receive(e) \/ Handler(e) \/ ReportOffline(e)
          PROVE  asked \subseteq asked' /\ due' \subseteq due
      BY <3>2 DEF Receive, Handler, HandleUpdate, DropMessage, ReportOffline,
         monitorVars
    <3>3. ASSUME \/ Check \/ NoReconnect \/ DecideReconnect \/ CountReconnect
                 \/ RequestRelogin \/ Disconnect \/ Reconnect \/ EndReconnect
                 \/ StopMonitor
          PROVE  UNCHANGED <<asked, due>>
      BY <3>3 DEF Check, NoReconnect, DecideReconnect, CountReconnect,
         RequestRelogin, Disconnect, Reconnect, EndReconnect, StopMonitor
    <3> QED
      BY <1>3, <3>1, <3>2, <3>3 DEF MonitorNext, Monitor, Environment
  <2>2. offlineSent[d] = Absent
    BY <1>3, MonitorSteps, OtherCallFacts
  <2> QED
    BY <2>1, <2>2
<1> QED
  BY <1>1, <1>2, <1>3

\* What the lists of the monitor and of the handlers say of a returning device
\* is kept: it is asked again each time it returns.
LEMMA NextRefreshed ==
    /\ TypeOK /\ MonitorTypeOK /\ CopiesOK /\ DueRefreshed /\ ReturnRefreshed
    /\ [MonitorNext]_vars
    => DueRefreshed' /\ ReturnRefreshed'
<1> SUFFICES ASSUME TypeOK, MonitorTypeOK, CopiesOK, DueRefreshed,
                    ReturnRefreshed, [MonitorNext]_vars
             PROVE  DueRefreshed' /\ ReturnRefreshed'
  OBVIOUS
<1>1. DueRefreshed'
  <2> SUFFICES ASSUME NEW d \in due', offlineSent'[d] = Absent PROVE d \in asked'
    BY DEF DueRefreshed
  <2>1. d \in Devices
    BY NextMonitorTypeOK DEF MonitorTypeOK
  <2> QED
    BY <2>1, AskedFacts DEF DueRefreshed
<1>2. ASSUME NEW d \in Devices, online'[d] = 0, offlineSent'[d] = Absent
      PROVE  d \in asked'
  <2>1. CASE ReportOffline(d)
    BY <1>2, <2>1, AskedFacts DEF ReportOffline, DueRefreshed
  <2>2. CASE ~ReportOffline(d)
    <3>1. online[d] = 0
      <4>1. ASSUME NEW e \in Devices, HandleUpdate(e) PROVE online[d] = 0
        BY <1>2, <4>1 DEF HandleUpdate, MonitorTypeOK
      <4>2. ASSUME NEW e \in Devices, e # d, ReportOffline(e) PROVE online[d] = 0
        BY <1>2, <4>2 DEF ReportOffline, MonitorTypeOK
      <4>3. CASE Environment \/ UNCHANGED vars
        BY <1>2, <4>3, EnvironmentFacts
      <4>4. ASSUME \/ \E e \in Devices : Receive(e) \/ DropMessage(e)
                   \/ Check \/ RecordUpdates \/ NoReconnect \/ DecideReconnect
                   \/ CountReconnect \/ RequestRelogin \/ Disconnect \/ Reconnect
                   \/ EndReconnect \/ StopMonitor
            PROVE  UNCHANGED online
        BY <4>4 DEF Receive, DropMessage, Check, RecordUpdates, NoReconnect,
           DecideReconnect, CountReconnect, RequestRelogin, Disconnect, Reconnect,
           EndReconnect, StopMonitor
      <4> QED
        BY <1>2, <2>2, <4>1, <4>2, <4>3, <4>4
           DEF MonitorNext, Monitor, Handler, Environment
    <3> QED
      BY <1>2, <3>1, AskedFacts DEF ReturnRefreshed
  <2> QED
    BY <2>1, <2>2
<1> QED
  BY <1>1, <1>2 DEF ReturnRefreshed

-----------------------------------------------------------------------------
\* The strengthened invariant holds of every behaviour of the monitor.
THEOREM MonitorInvariant == MonitorSpec => []MonitorInv
<1>1. MonitorInv /\ [MonitorNext]_vars => MonitorInv'
  <2> SUFFICES ASSUME MonitorInv, [MonitorNext]_vars PROVE MonitorInv'
    OBVIOUS
  <2>1. TypeOK'
    BY MonitorUsesStatus, NextTypeOK DEF MonitorInv
  <2>2. MonitorTypeOK' /\ CopiesOK'
    BY NextMonitorTypeOK, NextCopiesOK DEF MonitorInv
  <2>3. VerdictExplained' /\ HiddenOnlyByRace'
    BY NextVerdictExplained, NextHiddenOnlyByRace DEF MonitorInv
  <2>4. DueRefreshed' /\ ReturnRefreshed'
    BY NextRefreshed DEF MonitorInv
  <2> QED
    BY <2>1, <2>2, <2>3, <2>4 DEF MonitorInv
<1> QED
  BY <1>1, MonitorInitInv, PTL DEF MonitorSpec

\* The goroutines use the record under statusMu only through its operations, so
\* everything proved of StatusSpec holds of the program (58-63, 238-253,
\* 428-486).
THEOREM MonitorImplementsStatus == MonitorSpec => UsesStatus
<1>1. MonitorInit => StatusInit
  BY DEF MonitorInit
<1>2. MonitorInv /\ [MonitorNext]_vars => [StatusNext]_statusVars
  BY MonitorUsesStatus DEF MonitorInv
<1> QED
  BY <1>1, <1>2, MonitorInvariant, PTL DEF MonitorSpec, UsesStatus, StatusSpec

\* The control state of the monitor and the callbacks stays in range, and what
\* is due is part of the monitor's list (391-426).
THEOREM MonitorIsTyped == MonitorSpec => []MonitorTypeOK
  BY MonitorInvariant, PTL DEF MonitorInv

\* A device the monitor is working on is silent, or was heard after the verdict
\* (409-417).
THEOREM MonitorVerdicts == MonitorSpec => []VerdictExplained
  BY MonitorInvariant, PTL DEF MonitorInv

\* A device that is not silent is shown offline only by an update that was made
\* from a verdict older than its message (335-361 against 409-413).
THEOREM MonitorHidesOnlyByRace == MonitorSpec => []HiddenOnlyByRace
  BY MonitorInvariant, PTL DEF MonitorInv

\* A device that returns is asked for its full state (270-277, 443-458).
THEOREM MonitorRefreshes == MonitorSpec => []ReturnRefreshed
  BY MonitorInvariant, PTL DEF MonitorInv

\* With the callbacks and the monitor running, forced reconnects without a
\* message between them are a full delay apart (460-473).
THEOREM MonitorSpacesAttempts == MonitorSpec => AttemptsSpaced
  BY MonitorImplementsStatus, StatusAttemptsSpaced DEF UsesStatus

-----------------------------------------------------------------------------
\* Each counted reconnect was made, or is about to be.
CountKept ==
    fruitlessReconnects <= reconnects + (IF mon = "reconnecting" THEN 1 ELSE 0)

\* The count never runs ahead of the reconnects: a message resets both.
LEMMA NextCountKept ==
    MonitorInv /\ CountKept /\ [MonitorNext]_vars => CountKept'
<1> SUFFICES ASSUME MonitorInv, CountKept, [MonitorNext]_vars PROVE CountKept'
  OBVIOUS
<1> USE StatusAssumption DEF MonitorInv, CountKept
<1>1. /\ fruitlessReconnects \in 0 .. ReloginAfter - 1
      /\ reconnects \in 0 .. ReloginAfter
  BY DEF TypeOK, MonitorTypeOK
<1>2. ASSUME NEW d \in Devices, Receive(d) PROVE CountKept'
  BY <1>1, <1>2 DEF Receive, markReceived, monitorVars
<1>3. CASE CountReconnect
  BY <1>1, <1>3 DEF CountReconnect, reloginDue, ReloginDue
<1>4. CASE RequestRelogin
  BY <1>1, <1>4 DEF RequestRelogin, reloginDue, ReloginDue
<1>5. CASE Disconnect
  BY <1>1, <1>5 DEF Disconnect, Lesser, statusVars
<1>6. CASE UNCHANGED <<fruitlessReconnects, mon, reconnects>>
  BY <1>6
<1>7. ASSUME /\ UNCHANGED <<fruitlessReconnects, reconnects>>
             /\ mon # "reconnecting" /\ mon' # "reconnecting"
      PROVE  CountKept'
  BY <1>7
<1>8. CASE Check \/ RecordUpdates \/ NoReconnect \/ DecideReconnect \/ Reconnect
           \/ EndReconnect \/ StopMonitor
  BY <1>7, <1>8
     DEF Check, RecordUpdates, NoReconnect, DecideReconnect, Reconnect,
         EndReconnect, StopMonitor, offlineUpdatesDue, reconnectDue, statusVars
<1>9. ASSUME \/ \E d \in Devices : Handler(d) \/ ReportOffline(d)
             \/ Environment \/ UNCHANGED vars
      PROVE  UNCHANGED <<fruitlessReconnects, mon, reconnects>>
  BY <1>9
     DEF Handler, HandleUpdate, DropMessage, ReportOffline, Environment,
         EndSession, Login, StopRun, Connected, OnConnect, initDeviceStatuses,
         ConnectionLost, Cancel, TimePasses, Tick, EnvironmentUnchanged,
         monitorVars, history, statusVars, vars
<1> QED
  BY <1>2, <1>3, <1>4, <1>5, <1>6, <1>8, <1>9 DEF MonitorNext, Monitor, Environment

\* What the code keeps of "three reconnects": one less than it says, because the
\* reconnect that fills the count is not made (compare ReloginNotEarly).
ReloginNotEarlier ==
    [][RequestRelogin => reconnects >= ReloginAfter - 1]_vars

\* A new login is requested only after at least ReloginAfter - 1 forced
\* reconnects without a message (415-423, 475-486).
THEOREM MonitorReloginNotEarlier == MonitorSpec => ReloginNotEarlier
<1>1. MonitorInit => CountKept
  BY DEF MonitorInit, StatusInit, CountKept
<1>2. MonitorInv /\ CountKept /\ [MonitorNext]_vars
      => [RequestRelogin => reconnects >= ReloginAfter - 1]_vars
  BY StatusAssumption
     DEF MonitorInv, TypeOK, MonitorTypeOK, CountKept, RequestRelogin, ReloginDue
<1> QED
  BY <1>1, <1>2, NextCountKept, MonitorInvariant, PTL
     DEF MonitorSpec, ReloginNotEarlier

\* Each reconnect that was made was counted, unless a message came between the
\* two; that is at most one, the reconnect the monitor had decided on.
MadeKept ==
    reconnects <= fruitlessReconnects + (IF mon = "reconnecting" THEN 0 ELSE 1)

\* The reconnects never run ahead of the count by more.
LEMMA NextMadeKept ==
    MonitorInv /\ MadeKept /\ [MonitorNext]_vars => MadeKept'
<1> SUFFICES ASSUME MonitorInv, MadeKept, [MonitorNext]_vars PROVE MadeKept'
  OBVIOUS
<1> USE StatusAssumption DEF MonitorInv, MadeKept
<1>1. /\ fruitlessReconnects \in 0 .. ReloginAfter - 1
      /\ reconnects \in 0 .. ReloginAfter
  BY DEF TypeOK, MonitorTypeOK
<1>2. ASSUME NEW d \in Devices, Receive(d) PROVE MadeKept'
  BY <1>1, <1>2 DEF Receive, markReceived, monitorVars
<1>3. CASE CountReconnect
  BY <1>1, <1>3 DEF CountReconnect, reloginDue, ReloginDue
<1>4. CASE RequestRelogin
  BY <1>1, <1>4 DEF RequestRelogin, reloginDue, ReloginDue
<1>5. CASE Disconnect
  BY <1>1, <1>5 DEF Disconnect, Lesser, statusVars
<1>6. CASE UNCHANGED <<fruitlessReconnects, mon, reconnects>>
  BY <1>6
<1>7. ASSUME /\ UNCHANGED <<fruitlessReconnects, reconnects>>
             /\ mon # "reconnecting" /\ mon' # "reconnecting"
      PROVE  MadeKept'
  BY <1>7
<1>8. CASE Check \/ RecordUpdates \/ NoReconnect \/ DecideReconnect \/ Reconnect
           \/ EndReconnect \/ StopMonitor
  BY <1>7, <1>8
     DEF Check, RecordUpdates, NoReconnect, DecideReconnect, Reconnect,
         EndReconnect, StopMonitor, offlineUpdatesDue, reconnectDue, statusVars
<1>9. ASSUME \/ \E d \in Devices : Handler(d) \/ ReportOffline(d)
             \/ Environment \/ UNCHANGED vars
      PROVE  UNCHANGED <<fruitlessReconnects, mon, reconnects>>
  BY <1>9
     DEF Handler, HandleUpdate, DropMessage, ReportOffline, Environment,
         EndSession, Login, StopRun, Connected, OnConnect, initDeviceStatuses,
         ConnectionLost, Cancel, TimePasses, Tick, EnvironmentUnchanged,
         monitorVars, history, statusVars, vars
<1> QED
  BY <1>2, <1>3, <1>4, <1>5, <1>6, <1>8, <1>9 DEF MonitorNext, Monitor, Environment

\* Never more than ReloginAfter forced reconnects in a row without a message: the
\* next one is a new login (README.md:79; 415-423, 475-486).
THEOREM MonitorReloginInTime == MonitorSpec => ReloginInTime
<1>1. MonitorInit => MadeKept
  BY DEF MonitorInit, StatusInit, MadeKept
<1>2. MonitorInv /\ MadeKept /\ [MonitorNext]_vars
      => [Disconnect => reconnects < ReloginAfter]_vars
  BY StatusAssumption
     DEF MonitorInv, TypeOK, MonitorTypeOK, MadeKept, Disconnect
<1> QED
  BY <1>1, <1>2, NextMadeKept, MonitorInvariant, PTL DEF MonitorSpec, ReloginInTime

-----------------------------------------------------------------------------
\* The backoff is the spacing that was promised: the threshold first, then twice
\* the last one, up to the cap.  Until a message ends the row, the time left and
\* the time since the latest decision make it up; after the message some device
\* was heard since, or the smallest delay is made up.
SpacingKept ==
    /\ spacing = reconnectDelay
    /\ spacing = 0 \/ spacing >= Lesser(Threshold, MaxReconnectDelay)
    /\ \/ sinceReconnect = Absent
       \/ nextReconnect + sinceReconnect
             >= Greater(spacing, Lesser(Threshold, MaxReconnectDelay))
       \/ /\ spacing = 0
          /\ \E d \in Devices :
                lastReceived[d] # Absent /\ lastReceived[d] <= sinceReconnect

\* Time moves between the two parts, a message counts as heard since.
LEMMA NextSpacingKept ==
    MonitorInv /\ SpacingKept /\ [MonitorNext]_vars => SpacingKept'
<1> SUFFICES ASSUME MonitorInv, SpacingKept, [MonitorNext]_vars PROVE SpacingKept'
  OBVIOUS
<1> USE StatusAssumption
<1> DEFINE Heard(d) == lastReceived[d] # Absent /\ lastReceived[d] <= sinceReconnect
           Needed == Greater(spacing, Lesser(Threshold, MaxReconnectDelay))
<1>1. /\ lastReceived \in [Devices -> Ages \cup {Absent}]
      /\ sinceReconnect \in (0 .. Longest) \cup {Absent}
      /\ nextReconnect \in 0 .. MaxReconnectDelay
      /\ reconnectDelay \in 0 .. MaxReconnectDelay
      /\ spacing = reconnectDelay
      /\ spacing = 0 \/ spacing >= Lesser(Threshold, MaxReconnectDelay)
  BY DEF MonitorInv, TypeOK, MonitorTypeOK, SpacingKept
<1>2. ASSUME NEW d \in Devices, Receive(d) PROVE SpacingKept'
  <2>1. /\ sinceReconnect' = sinceReconnect /\ lastReceived'[d] = 0
        /\ spacing' = 0 /\ reconnectDelay' = 0
    BY <1>1, <1>2 DEF Receive, markReceived
  <2> QED
    BY <1>1, <2>1 DEF SpacingKept, Longest
<1>3. CASE DecideReconnect
  <2>1. spacing' = NextDelay(reconnectDelay)
    BY <1>1, <1>3 DEF DecideReconnect, NextDelay, Lesser, Greater
  <2>2. /\ NextDelay(reconnectDelay) \in 1 .. MaxReconnectDelay
        /\ NextDelay(reconnectDelay) >= Lesser(Threshold, MaxReconnectDelay)
    BY <1>1, NextDelayFacts
  <2> QED
    BY <1>3, <2>1, <2>2 DEF DecideReconnect, reconnectDue, SpacingKept, Greater
<1>4. CASE TimePasses
  <2>1. ASSUME NEW d \in Devices, Heard(d), sinceReconnect # Absent PROVE Heard(d)'
    BY <1>1, <1>4, <2>1
       DEF TimePasses, Tick, Older, Ages, Longest, Lesser, Greater
  <2>2. ASSUME sinceReconnect # Absent, nextReconnect + sinceReconnect >= Needed
        PROVE  nextReconnect' + sinceReconnect' >= Needed
    BY <1>1, <1>4, <2>2 DEF TimePasses, Tick, Longest, Lesser, Greater
  <2>3. /\ sinceReconnect = Absent => sinceReconnect' = Absent
        /\ UNCHANGED <<spacing, reconnectDelay>>
    BY <1>4 DEF TimePasses, Tick
  <2>4. Needed' = Needed
    BY <2>3
  <2> QED
    BY <1>1, <2>1, <2>2, <2>3, <2>4 DEF SpacingKept
<1>5. CASE OnConnect
  BY <1>1, <1>5 DEF OnConnect, initDeviceStatuses, EnvironmentUnchanged, history,
     backoffVars, SpacingKept
<1>6. ASSUME \/ \E d \in Devices : Handler(d) \/ ReportOffline(d)
             \/ Check \/ RecordUpdates \/ NoReconnect \/ CountReconnect
             \/ RequestRelogin \/ Disconnect \/ Reconnect \/ EndReconnect
             \/ StopMonitor \/ EndSession \/ Login \/ StopRun \/ Connected
             \/ ConnectionLost \/ Cancel \/ UNCHANGED vars
      PROVE  UNCHANGED <<lastReceived, nextReconnect, reconnectDelay,
                         sinceReconnect, spacing>>
  BY <1>6
     DEF Handler, HandleUpdate, DropMessage, ReportOffline, Check, RecordUpdates,
         offlineUpdatesDue, NoReconnect, CountReconnect, reloginDue, RequestRelogin,
         Disconnect, Reconnect, EndReconnect, StopMonitor, EndSession, Login,
         StopRun, Connected, ConnectionLost, Cancel, EnvironmentUnchanged, history,
         statusVars, backoffVars, vars
<1>7. CASE UNCHANGED <<lastReceived, nextReconnect, reconnectDelay,
                       sinceReconnect, spacing>>
  BY <1>7 DEF SpacingKept
<1> QED
  BY <1>2, <1>3, <1>4, <1>5, <1>6, <1>7 DEF MonitorNext, Monitor

\* While nothing is heard, decisions to reconnect are further and further apart,
\* up to the cap; a message between them leaves the smallest delay, unless it
\* came after the verdict (409-418, 460-473).
THEOREM MonitorReconnectsSpaced == MonitorSpec => ReconnectsSpaced
<1> DEFINE Needed == Greater(spacing, Lesser(Threshold, MaxReconnectDelay))
           Spaced ==
      DecideReconnect => \/ sinceReconnect = Absent
                         \/ sinceReconnect >= Needed
                         \/ spoke # {}
<1>1. MonitorInit => SpacingKept
  BY DEF MonitorInit, StatusInit, SpacingKept
<1>2. MonitorInv /\ SpacingKept /\ [MonitorNext]_vars => [Spaced]_vars
  <2> SUFFICES ASSUME MonitorInv, SpacingKept, DecideReconnect,
                      sinceReconnect # Absent, ~(sinceReconnect >= Needed)
               PROVE  spoke # {}
    OBVIOUS
  <2> USE StatusAssumption DEF MonitorInv
  <2>1. nextReconnect = 0 /\ offline = Devices
    BY DEF DecideReconnect, reconnectDue, ReconnectDue
  <2>2. sinceReconnect \in 0 .. Longest
    BY DEF MonitorTypeOK
  <2>3. PICK d \in Devices : /\ spacing = 0
                             /\ lastReceived[d] # Absent
                             /\ lastReceived[d] <= sinceReconnect
    BY <2>1, <2>2 DEF SpacingKept, Longest
  <2>4. lastReceived[d] \in Ages
    BY <2>3 DEF TypeOK
  <2>5. ~Silent(d)
    BY <2>2, <2>3, <2>4 DEF Silent, Lesser, Greater, Ages, Longest
  <2> QED
    BY <2>1, <2>5 DEF VerdictExplained
<1> QED
  BY <1>1, <1>2, NextSpacingKept, MonitorInvariant, PTL
     DEF MonitorSpec, ReconnectsSpaced

=============================================================================
