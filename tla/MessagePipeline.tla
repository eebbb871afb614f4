--------------------------- MODULE MessagePipeline --------------------------
(***************************************************************************)
(* From a message to the exposed series: MessageHandler merges the         *)
(* parameters of a message into deviceState under stateMu, clones the full *)
(* state, and later hands it to the metric store as an update with Online  *)
(* 1 (src/mqtt_exporter.go:335-361); the monitor hands over updates with   *)
(* Online 0 (409-413).                                                     *)
(*                                                                         *)
(* A client runs its callbacks one after another; when a session replaces  *)
(* another, the callback of the old client may still run next to one of    *)
(* the new.  A goroutine here is the callback routine of one client.       *)
(*                                                                         *)
(* Messages are numbered; the value of a parameter is the number of the    *)
(* message that brought it.                                                *)
(***************************************************************************)
EXTENDS MetricStore

CONSTANTS
    Routines,      \* callback routines
    NoDevice,      \* the routine runs no callback
    MaxMessages    \* BOUND: messages of a behaviour

ASSUME PipelineAssumption ==
    /\ MaxMessages \in Nat
    /\ Values = 1 .. MaxMessages
    /\ NoDevice \notin Devices

VARIABLES
    deviceState,   \* [Devices -> [Params -> value | Absent]]
    handling,      \* [Routines -> the device of its message, or NoDevice]
    fullState,     \* [Routines -> the clone it is about to dispatch]
    messages,      \* HISTORY: messages merged so far
    merged,        \* HISTORY: [Routines -> number of the message it merged]
    shown,         \* HISTORY: [Devices -> number of the newest message dispatched]
    overtaken      \* HISTORY: devices whose latest dispatch followed that of a
                   \* newer message

pipeVars == <<deviceState, handling, fullState, messages, merged, shown, overtaken>>
vars == <<storeVars, scraped, pipeVars>>

PipelineInit ==
    /\ StoreInit
    /\ deviceState = [d \in Devices |-> NoSeries]
    /\ handling = [r \in Routines |-> NoDevice]
    /\ fullState = [r \in Routines |-> NoSeries]
    /\ messages = 0
    /\ merged = [r \in Routines |-> 0]
    /\ shown = [d \in Devices |-> 0]
    /\ overtaken = {}

\* The parameters of the next message: `present` of them, and not none (a
\* message without parameters is skipped).
Message(present) == [p \in Params |-> IF p \in present THEN messages + 1 ELSE Absent]

\* Mutant: the handlers get the parameters of the message only.
MergeDelta(r, d, present) ==
    /\ messages < MaxMessages
    /\ handling[r] = NoDevice /\ present # {}
    /\ deviceState' = [deviceState EXCEPT ![d] = Overlay(@, Message(present))]
    /\ fullState' = [fullState EXCEPT ![r] = Message(present)]
    /\ handling' = [handling EXCEPT ![r] = d]
    /\ messages' = messages + 1
    /\ merged' = [merged EXCEPT ![r] = messages + 1]
    /\ UNCHANGED <<storeVars, scraped, shown, overtaken>>
\* Mutant: the message is merged into the clone, the cache is only filled once.
MergeIntoClone(r, d, present) ==
    /\ messages < MaxMessages
    /\ handling[r] = NoDevice /\ present # {}
    /\ fullState' = [fullState EXCEPT ![r] = Overlay(deviceState[d], Message(present))]
    /\ deviceState' = IF deviceState[d] = NoSeries
                      THEN [deviceState EXCEPT ![d] = fullState'[r]] ELSE deviceState
    /\ handling' = [handling EXCEPT ![r] = d]
    /\ messages' = messages + 1
    /\ merged' = [merged EXCEPT ![r] = messages + 1]
    /\ UNCHANGED <<storeVars, scraped, shown, overtaken>>

Merge(r, d, present) ==
    /\ messages < MaxMessages
    /\ handling[r] = NoDevice /\ present # {}
    /\ deviceState' = [deviceState EXCEPT ![d] = Overlay(@, Message(present))]
    /\ fullState' = [fullState EXCEPT ![r] = deviceState'[d]]
    /\ handling' = [handling EXCEPT ![r] = d]
    /\ messages' = messages + 1
    /\ merged' = [merged EXCEPT ![r] = messages + 1]
    /\ UNCHANGED <<storeVars, scraped, shown, overtaken>>

Dispatch(r) ==
    /\ handling[r] # NoDevice
    /\ Update(handling[r], fullState[r])
    /\ handling' = [handling EXCEPT ![r] = NoDevice]
    /\ fullState' = [fullState EXCEPT ![r] = NoSeries]
    /\ merged' = [merged EXCEPT ![r] = 0]
    /\ shown' = [shown EXCEPT ![handling[r]] = IF merged[r] < @ THEN @ ELSE merged[r]]
    /\ overtaken' = IF merged[r] < shown[handling[r]]
                    THEN overtaken \cup {handling[r]} ELSE overtaken \ {handling[r]}
    /\ UNCHANGED <<scraped, deviceState, messages>>

\* The monitor's update; deviceState keeps what it has.
DispatchOffline(d) ==
    /\ Offline(d)
    /\ UNCHANGED <<scraped, deviceState, handling, fullState, messages, merged,
                   shown, overtaken>>

PipelineNext ==
    \/ \E r \in Routines :
          \/ Dispatch(r)
          \/ \E d \in Devices, present \in SUBSET Params : Merge(r, d, present)
    \/ \E d \in Devices : DispatchOffline(d)
    \/ Scrape /\ UNCHANGED pipeVars

PipelineSpec == PipelineInit /\ [][PipelineNext]_vars

-----------------------------------------------------------------------------
PipelineTypeOK ==
    /\ StoreTypeOK
    /\ deviceState \in [Devices -> Updates]
    /\ handling \in [Routines -> Devices \cup {NoDevice}]
    /\ fullState \in [Routines -> Updates]
    /\ messages \in 0 .. MaxMessages
    /\ merged \in [Routines -> 0 .. messages]
    /\ shown \in [Devices -> 0 .. messages]
    /\ overtaken \subseteq Devices

\* When no callback is running, a device shown online exposes every parameter it
\* ever sent with its latest value, also if its latest message had only some of
\* them and an offline update removed the others, unless the update of its
\* latest message was overtaken (335-361, prometheus.go:92-113).
ShownIsLatest ==
    \A d \in Devices :
        /\ \A r \in Routines : handling[r] # d
        /\ online[d] = 1
        => d \in overtaken \/ series[d] = deviceState[d]

\* An exposed value is taken back to an older message only by an update that a
\* newer one overtook, which takes the callbacks of two clients (335-361).
ValuesAdvance ==
    [][\A d \in Devices, p \in Params :
          series[d][p] # Absent /\ series'[d][p] # Absent =>
              series'[d][p] >= series[d][p] \/ d \in overtaken']_vars

=============================================================================
