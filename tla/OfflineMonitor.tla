--------------------------- MODULE OfflineMonitor ---------------------------
(***************************************************************************)
(* The goroutines that share the record of DeviceStatus:                   *)
(*   - monitorDeviceStatus (src/mqtt_exporter.go:391-426), which reports   *)
(*     silent devices as offline, forces a reconnect when all of them are  *)
(*     silent, and asks for a new login when reconnecting does not help;   *)
(*   - MessageHandler (255-362), a paho callback that runs for a message   *)
(*     of a device and reports it online;                                  *)
(*   - OnConnect (364-380), and Run as far as it answers a relogin request.*)
(*                                                                         *)
(* statusMu is held only inside an operation of DeviceStatus, so the       *)
(* callbacks and the passing of time fall between any two steps of the     *)
(* monitor.  One unit of time is a period of the monitor's ticker, a       *)
(* quarter of the threshold in the code.                                   *)
(*                                                                         *)
(* The session (which client is current, what Connect may do to it) is     *)
(* reduced to `link`; MqttSession details it.                              *)
(***************************************************************************)
EXTENDS DeviceStatus

VARIABLES
    link,            \* the current client: "down" | "pending" | "up"
    session,         \* what Run does: "login" | "live" | "ended"
    relogin,         \* the relogin channel (capacity 1) holds a request
    onConnect,       \* an OnConnect callback is started and not run yet
    ticker,          \* the ticker channel (capacity 1) holds a tick
    cancelled,       \* ctx.Done() is closed
    mon,             \* where the monitor goroutine is
    offline,         \* its local `offline`
    due,             \* what is left of the range over offlineUpdatesDue
    handling,        \* [Devices -> BOOLEAN]: MessageHandler is past markReceived
    online,          \* [Devices -> Absent | 0 | 1]: the latest update handled
    asked,           \* devices asked for their full state since their latest offline update
    spoke,           \* HISTORY: members of `offline` heard since that list was made
    excused,         \* HISTORY: devices whose latest message became no update, or was
                     \* overtaken by an offline update made from an older verdict
    reconnects,      \* HISTORY: forced reconnects since a message or a relogin request
    sinceReconnect,  \* HISTORY: age of the latest decision to reconnect
    spacing          \* HISTORY: how far apart the next decision has to be from it:
                     \* twice as far each time, up to the cap; 0 after a message

monitorVars == <<mon, offline, due>>
linkVars    == <<link, session, relogin, onConnect>>
history     == <<spoke, excused, reconnects, sinceReconnect, spacing>>
vars == <<statusVars, linkVars, ticker, cancelled, monitorVars, handling,
          online, asked, history>>

\* Times since a reconnect are counted as far as a device or the spacing tells them
\* apart.
Longest == Greater(Threshold + 1, MaxReconnectDelay)

\* connected(): paho's IsConnected also holds while it is (re)connecting.
connected == link # "down"

MonitorInit ==
    /\ StatusInit
    /\ link = "down" /\ session = "login" /\ relogin = FALSE /\ onConnect = FALSE
    /\ ticker = FALSE /\ cancelled = FALSE
    /\ mon = "idle" /\ offline = {} /\ due = {}
    /\ handling = [d \in Devices |-> FALSE]
    /\ online = [d \in Devices |-> Absent]
    /\ asked = {}
    /\ spoke = {} /\ excused = Devices
    /\ reconnects = 0 /\ sinceReconnect = Absent /\ spacing = 0

-----------------------------------------------------------------------------
(* MessageHandler                                                          *)

\* Up to markReceived and the request of a returning device; the message is
\* not decoded yet, but it counts as received.
Receive(d) ==
    /\ link = "up"
    /\ ~handling[d]
    /\ markReceived(d)
    /\ handling' = [handling EXCEPT ![d] = TRUE]
    /\ asked' = IF wasOffline(d) THEN asked \cup {d} ELSE asked
    /\ spoke' = spoke \cup ({d} \cap offline)
    /\ excused' = excused \cup {d}
    /\ reconnects' = 0 /\ spacing' = 0
    /\ UNCHANGED <<linkVars, ticker, cancelled, monitorVars, online,
                   sinceReconnect>>

\* The message had parameters: the handlers get an update with Online 1.
HandleUpdate(d) ==
    /\ handling[d]
    /\ handling' = [handling EXCEPT ![d] = FALSE]
    /\ online' = [online EXCEPT ![d] = 1]
    /\ excused' = excused \ {d}
    /\ UNCHANGED <<statusVars, linkVars, ticker, cancelled, monitorVars, asked,
                   spoke, reconnects, sinceReconnect, spacing>>

\* Undecodable, of unknown format, or without parameters: no update.
DropMessage(d) ==
    /\ handling[d]
    /\ handling' = [handling EXCEPT ![d] = FALSE]
    /\ UNCHANGED <<statusVars, linkVars, ticker, cancelled, monitorVars, online,
                   asked, history>>

-----------------------------------------------------------------------------
(* monitorDeviceStatus                                                     *)

MonitorUnchanged == UNCHANGED <<cancelled, handling>>

\* A tick is taken: without a client there is nothing to check, otherwise the
\* verdict is made.  Once cancelled, select may still pick the tick.
Check ==
    /\ mon = "idle" /\ ticker
    /\ ticker' = FALSE
    /\ IF connected
       THEN mon' = "checked" /\ offline' = offlineDevices /\ spoke' = {}
       ELSE UNCHANGED <<mon, offline, spoke>>
    /\ MonitorUnchanged
    /\ UNCHANGED <<statusVars, linkVars, due, online, asked, excused, reconnects,
                   sinceReconnect, spacing>>

\* offlineUpdatesDue: the updates are recorded before they are sent.
RecordUpdates ==
    /\ mon = "checked"
    /\ offlineUpdatesDue(offline)
    /\ due' = UpdateDue(offline)
    /\ asked' = asked \ UpdateDue(offline)
    /\ mon' = "reporting"
    /\ MonitorUnchanged
    /\ UNCHANGED <<linkVars, ticker, offline, online, spoke, excused, reconnects,
                   sinceReconnect, spacing>>

\* One iteration of the loop: dispatch of an update with Online 0.
ReportOffline(d) ==
    /\ mon = "reporting" /\ d \in due
    /\ due' = due \ {d}
    /\ online' = [online EXCEPT ![d] = 0]
    /\ excused' = excused \cup ({d} \cap spoke)
    /\ MonitorUnchanged
    /\ UNCHANGED <<statusVars, linkVars, ticker, mon, offline, asked, spoke,
                   reconnects, sinceReconnect, spacing>>

\* Mutant: the loop over the due updates is left early.
NoReconnectEarly ==
    /\ mon = "reporting"
    /\ offline # Devices \/ ~ReconnectDue
    /\ mon' = "idle" /\ offline' = {} /\ spoke' = {}
    /\ MonitorUnchanged
    /\ UNCHANGED <<statusVars, linkVars, ticker, due, online, asked, excused,
                   reconnects, sinceReconnect, spacing>>

\* Not all devices were silent, or the backoff postpones the reconnect.
NoReconnect ==
    /\ mon = "reporting" /\ due = {}
    /\ offline # Devices \/ ~ReconnectDue
    /\ mon' = "idle" /\ offline' = {} /\ spoke' = {}
    /\ MonitorUnchanged
    /\ UNCHANGED <<statusVars, linkVars, ticker, due, online, asked, excused,
                   reconnects, sinceReconnect, spacing>>

\* All were silent and reconnectDue() returns true.
DecideReconnect ==
    /\ mon = "reporting" /\ due = {}
    /\ offline = Devices
    /\ reconnectDue
    /\ mon' = "counting"
    /\ sinceReconnect' = 0
    /\ spacing' = Lesser(IF spacing = 0 THEN Threshold ELSE 2 * spacing,
                       MaxReconnectDelay)
    /\ MonitorUnchanged
    /\ UNCHANGED <<linkVars, ticker, offline, due, online, asked, spoke, excused,
                   reconnects>>

\* reloginDue() is false: forceReconnect begins.
CountReconnect ==
    /\ mon = "counting" /\ ~ReloginDue
    /\ reloginDue
    /\ mon' = "reconnecting"
    /\ MonitorUnchanged
    /\ UNCHANGED <<linkVars, ticker, offline, due, online, asked, spoke, excused,
                   reconnects, sinceReconnect, spacing>>

\* reloginDue() is true: requestRelogin, which leaves a pending request alone.
RequestRelogin ==
    /\ mon = "counting" /\ ReloginDue
    /\ reloginDue
    /\ relogin' = TRUE
    /\ reconnects' = 0
    /\ mon' = "idle" /\ offline' = {} /\ spoke' = {}
    /\ MonitorUnchanged
    /\ UNCHANGED <<link, session, onConnect, ticker, due, online, asked, excused,
                   sinceReconnect, spacing>>

\* forceReconnect drops the connection, ...
Disconnect ==
    /\ mon = "reconnecting"
    /\ link' = "down"
    /\ reconnects' = Lesser(reconnects + 1, ReloginAfter)
    /\ mon' = "pausing"
    /\ MonitorUnchanged
    /\ UNCHANGED <<statusVars, session, relogin, onConnect, ticker, offline, due,
                   online, asked, spoke, excused, sinceReconnect, spacing>>

\* ... after the pause calls Connect, which the client may refuse (if Run has
\* stored another client meanwhile, that one stays as it is), ...
Reconnect ==
    /\ mon = "pausing"
    /\ link' \in IF link = "down" THEN {"pending", "down"} ELSE {link}
    /\ mon' = "waiting"
    /\ MonitorUnchanged
    /\ UNCHANGED <<statusVars, session, relogin, onConnect, ticker, offline, due,
                   online, asked, spoke, excused, reconnects, sinceReconnect,
                   spacing>>

\* ... and waits for its outcome, at most 30 s.  Cancelled, it returns without
\* connecting again.
EndReconnect ==
    /\ mon = "waiting" \/ (mon = "pausing" /\ cancelled)
    /\ mon' = "idle" /\ offline' = {} /\ spoke' = {}
    /\ MonitorUnchanged
    /\ UNCHANGED <<statusVars, linkVars, ticker, due, online, asked, excused,
                   reconnects, sinceReconnect, spacing>>

\* select picks ctx.Done().
StopMonitor ==
    /\ mon = "idle" /\ cancelled
    /\ mon' = "stopped"
    /\ MonitorUnchanged
    /\ UNCHANGED <<statusVars, linkVars, ticker, offline, due, online, asked,
                   spoke, excused, reconnects, sinceReconnect, spacing>>

Monitor ==
    \/ Check \/ RecordUpdates
    \/ \E d \in Devices : ReportOffline(d)
    \/ NoReconnect \/ DecideReconnect \/ CountReconnect \/ RequestRelogin
    \/ Disconnect \/ Reconnect \/ EndReconnect \/ StopMonitor

-----------------------------------------------------------------------------
(* Run, the client and time                                                *)

EnvironmentUnchanged ==
    UNCHANGED <<monitorVars, handling, online, asked, history>>

\* Run takes the request and drops the client.
EndSession ==
    /\ session = "live" /\ relogin
    /\ relogin' = FALSE /\ session' = "login" /\ link' = "down"
    /\ EnvironmentUnchanged
    /\ UNCHANGED <<statusVars, onConnect, ticker, cancelled>>

\* Run logs in, stores the new client and calls Connect.
Login ==
    /\ session = "login" /\ ~cancelled
    /\ session' = "live" /\ link' = "pending"
    /\ EnvironmentUnchanged
    /\ UNCHANGED <<statusVars, relogin, onConnect, ticker, cancelled>>

\* Run returns and its client is disconnected.
StopRun ==
    /\ cancelled /\ session # "ended"
    /\ session' = "ended" /\ link' = "down"
    /\ EnvironmentUnchanged
    /\ UNCHANGED <<statusVars, relogin, onConnect, ticker, cancelled>>

\* The client reaches the broker; paho starts OnConnect in a goroutine.
Connected ==
    /\ link = "pending"
    /\ link' = "up" /\ onConnect' = TRUE
    /\ EnvironmentUnchanged
    /\ UNCHANGED <<statusVars, session, relogin, ticker, cancelled>>

\* OnConnect starts the clock of the devices that were never heard.
OnConnect ==
    /\ onConnect
    /\ onConnect' = FALSE
    /\ initDeviceStatuses
    /\ EnvironmentUnchanged
    /\ UNCHANGED <<link, session, relogin, ticker, cancelled>>

\* The connection breaks; the client reconnects by itself.
ConnectionLost ==
    /\ link = "up"
    /\ link' = "pending"
    /\ EnvironmentUnchanged
    /\ UNCHANGED <<statusVars, session, relogin, onConnect, ticker, cancelled>>

Cancel ==
    /\ ~cancelled /\ cancelled' = TRUE
    /\ EnvironmentUnchanged
    /\ UNCHANGED <<statusVars, linkVars, ticker>>

\* A ticker period passes; a tick that nobody took is not queued twice.
TimePasses ==
    /\ Tick
    /\ ticker' = TRUE
    /\ sinceReconnect' = IF sinceReconnect = Absent THEN Absent
                         ELSE Lesser(sinceReconnect + 1, Longest)
    /\ UNCHANGED <<linkVars, cancelled, monitorVars, handling, online, asked,
                   spoke, excused, reconnects, spacing>>

Handler(d) == HandleUpdate(d) \/ DropMessage(d)

MonitorNext ==
    \/ \E d \in Devices : Receive(d) \/ Handler(d)
    \/ Monitor
    \/ EndSession \/ Login \/ StopRun \/ Connected \/ OnConnect \/ ConnectionLost
    \/ Cancel \/ TimePasses

MonitorSpec == MonitorInit /\ [][MonitorNext]_vars

\* Go runs every ready goroutine and the ticker goes on.  Of two ready cases
\* select picks one at random, so ctx.Done() is not passed over for ever.
FairMonitorSpec ==
    /\ MonitorSpec
    /\ WF_vars(TimePasses)
    /\ WF_vars(Monitor) /\ SF_vars(StopMonitor)
    /\ \A d \in Devices : WF_vars(Handler(d))
    /\ WF_vars(EndSession) /\ WF_vars(Login) /\ WF_vars(OnConnect)

-----------------------------------------------------------------------------
(* Properties                                                              *)

MonitorTypeOK ==
    /\ link \in {"down", "pending", "up"}
    /\ session \in {"login", "live", "ended"}
    /\ relogin \in BOOLEAN /\ onConnect \in BOOLEAN
    /\ ticker \in BOOLEAN /\ cancelled \in BOOLEAN
    /\ mon \in {"idle", "checked", "reporting", "counting", "reconnecting",
                "pausing", "waiting", "stopped"}
    /\ offline \subseteq Devices /\ due \subseteq offline
    /\ handling \in [Devices -> BOOLEAN]
    /\ online \in [Devices -> {Absent, 0, 1}]
    /\ asked \subseteq Devices
    /\ spoke \subseteq offline /\ excused \subseteq Devices
    /\ reconnects \in 0 .. ReloginAfter
    /\ sinceReconnect \in (0 .. Longest) \cup {Absent}
    /\ spacing \in 0 .. MaxReconnectDelay

\* The monitor's list and what it still has to report stay explained while
\* time and messages go on: each device on it is silent beyond the threshold,
\* or was heard after the list was made (mqtt_exporter.go:409-417).
VerdictExplained ==
    \A d \in offline : Silent(d) \/ d \in spoke

\* A device whose latest message became an update and which is not silent is
\* shown online, unless an offline update overtook that message, made from a
\* verdict older than the message (335-361 against 409-413).
HiddenOnlyByRace ==
    \A d \in Devices \ excused : Silent(d) \/ online[d] = 1

\* A device that is shown offline and no longer counted as offline has been
\* asked for its full state since that update was recorded, so its parameters
\* return even if it only sends changes from now on (270-277, 443-458).
ReturnRefreshed ==
    \A d \in Devices :
        online[d] = 0 /\ offlineSent[d] = Absent => d \in asked

\* "With growing pauses" (README.md:78): while nothing is heard, decisions to
\* reconnect are a threshold, twice, four times the threshold apart, up to the
\* cap.  A message ends that, but its device has to fall silent first, so they
\* are still the smallest delay apart, unless the message came between the
\* verdict and the decision (417 against 243-246, 460-473).
ReconnectsSpaced ==
    [][DecideReconnect =>
          \/ sinceReconnect = Absent
          \/ sinceReconnect >= Greater(spacing, Lesser(Threshold, MaxReconnectDelay))
          \/ spoke # {}]_vars

\* "If three reconnects bring nothing back, it logs in again" (README.md:79),
\* so there is never one more in a row, however messages, sessions and time fall
\* between the count and the reconnect (415-423, 475-486).
ReloginInTime ==
    [][Disconnect => reconnects < ReloginAfter]_vars

\* "how many forced reconnects without data are tried before logging in again"
\* (74-75; three, README.md:79): a new login is requested only after that many.
ReloginNotEarly ==
    [][RequestRelogin => reconnects >= ReloginAfter]_vars

\* Whatever the goroutines do to the shared record is one of its operations, with
\* an argument it is made for: the monitor's list never names a device that was
\* never seen (statusMu, 58-63; 409-410).
UsesStatus == StatusSpec

\* The monitor is not kept from its checks: when a tick comes there is a client
\* that is connected or tries to, or Run is about to store one.
ChecksGoOn == ~cancelled /\ (mon = "idle" => connected \/ session = "login")

\* A device that stays silent is shown offline in the end and from then on, also
\* if a late update of its last message came after the first offline update, and
\* whatever reconnects are forced meanwhile (391-393, 448-458).
SilentIsReported ==
    \A d \in Devices :
        <>[](Silent(d) /\ ChecksGoOn) => <>[](online[d] = 0)

\* When no device is heard from some time on and the reconnects succeed, Run is
\* asked again and again to log in (415-423, 475-486).
ReloginRepeats ==
    <>[](offlineDevices = Devices /\ ChecksGoOn) => []<>relogin

\* "reports devices that did not send data within the offline threshold as
\* offline" (391-393): the update with Online 0 is about a device that is silent
\* when it is sent.
OfflineReportTruthful ==
    [][\A d \in Devices : ReportOffline(d) => Silent(d)]_vars

=============================================================================
