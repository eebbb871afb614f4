----------------------------- MODULE RestProofs -----------------------------
(* The polling of the REST exporter, for any number of devices, request     *)
(* slots, timeouts and intervals: what is shown after a scrape, what is     *)
(* left alone, and that slow requests for parameters alone do not make      *)
(* Health fail.                                                             *)
(*   - A scrape goes through its stages: which goroutine may hold an update *)
(*     and of which device (StagesOK), and what is dispatched or shown when *)
(*     they are done (ReportOK).                                            *)
(*   - The time of a scrape: while a request waits for a slot all slots     *)
(*     are busy, so every Timeout takes at least Concurrency devices off    *)
(*     the list (SlotsBusy, FetchInTime), and no tick is lost (PollInTime). *)
EXTENDS RestExporter, FiniteSetTheorems, TLAPS

RestTypeOK ==
    /\ series \in [Devices -> Updates] /\ online \in [Devices -> {Absent, 0, 1}]
    /\ run \in {"listing", "fetching", "dispatching", "waiting", "returned"}
    /\ listed \in [Devices -> {Absent, 0, 1}]
    /\ fetch \in [Devices -> {"none", "queued", "running", "done"}]
    /\ updates \in [Devices -> Updates \cup {NoUpdate}]
    /\ age \in [Devices -> 0 .. Timeout] /\ listAge \in 0 .. Timeout
    /\ untilTick \in 1 .. Interval /\ ticker \in BOOLEAN
    /\ sinceSuccess \in Nat
    /\ cancelled \in BOOLEAN /\ listFailed \in BOOLEAN /\ failed \subseteq Devices

\* Only devices on the list have a goroutine, a result comes from one that is
\* done, and without a cancellation an offline device has one in any case.
StagesOK ==
    /\ run \notin {"fetching", "dispatching"} =>
          updates = NoUpdates /\ \A d \in Devices : fetch[d] = "none"
    /\ run = "dispatching" => \A d \in Devices : fetch[d] \in {"none", "done"}
    /\ \A d \in Devices : updates[d] # NoUpdate => fetch[d] = "done"
    /\ run \in {"fetching", "dispatching"} =>
          \A d \in Devices : fetch[d] = "none" <=> listed[d] = Absent
    /\ run = "fetching" /\ ~cancelled =>
          \A d \in Devices : fetch[d] = "done" =>
             updates[d] # NoUpdate \/ (listed[d] = 1 /\ d \in failed)

\* What has been dispatched is shown.
ReportOK ==
    run \in {"dispatching", "waiting"} /\ ~cancelled =>
        \A d \in Devices :
            \/ updates[d] # NoUpdate
            \/ /\ listed[d] = 0 => online[d] = 0 /\ series[d] = NoSeries
               /\ listed[d] = 1 => online[d] = 1 \/ d \in failed

\* The devices whose request has ended, or has been running for r at least.
Old(r) ==
    {d \in Devices : fetch[d] = "done" \/ (fetch[d] = "running" /\ age[d] >= r)}

\* While some device waits for a slot: i times all slots were taken by requests
\* that have ended or have been running for r, in (i - 1) timeouts and r.
SlotsBusy ==
    (\E d \in Devices : fetch[d] = "queued") =>
        \E i \in Nat, r \in 1 .. Timeout :
            /\ sinceSuccess <= (i - 1) * Timeout + r
            /\ Concurrency * i <= Cardinality(Old(r))

\* No request begins later than a timeout before the last round ends.
FetchInTime ==
    /\ SlotsBusy
    /\ sinceSuccess <= Rounds * Timeout
    /\ \A d \in Running : sinceSuccess + Timeout <= Rounds * Timeout + age[d]

Longest == IF Rounds * Timeout >= Interval THEN Rounds * Timeout ELSE Interval

\* The age of the last success at each stage, if there was no failure since.
PollInTime ==
    ~listFailed /\ ~cancelled =>
        /\ run = "listing" => sinceSuccess <= Longest + listAge
        /\ run = "fetching" => FetchInTime
        /\ run = "dispatching" => sinceSuccess <= Rounds * Timeout
        /\ run = "waiting" => sinceSuccess <= Longest
        /\ run \in {"fetching", "dispatching", "waiting"} /\ ~ticker =>
              sinceSuccess <= Interval - untilTick
        /\ run # "returned"

RestInv == RestTypeOK /\ StagesOK /\ ReportOK /\ PollInTime

-----------------------------------------------------------------------------
\* What the operators of the store give.
LEMMA StoreFacts ==
    /\ NoSeries \in Updates /\ Absent # 0 /\ Absent # 1
    /\ \A old, update \in Updates : Overlay(old, update) \in Updates
  BY StoreAssumption DEF NoSeries, Updates, Overlay

\* The first scrape begins at once, with no updates and no goroutines.
LEMMA InitRestInv == RestInit => RestInv
<1> SUFFICES ASSUME RestInit PROVE RestInv
  OBVIOUS
<1> USE RestAssumption, StoreFacts DEF RestInit, StoreInit
<1>1. NoUpdates \in [Devices -> Updates \cup {NoUpdate}]
  BY DEF NoUpdates
<1>2. RestTypeOK
  <2>1. 0 \in 0 .. Timeout /\ Interval \in 1 .. Interval
    OBVIOUS
  <2>2. /\ series \in [Devices -> Updates] /\ online \in [Devices -> {Absent, 0, 1}]
        /\ listed \in [Devices -> {Absent, 0, 1}]
        /\ fetch \in [Devices -> {"none", "queued", "running", "done"}]
    OBVIOUS
  <2>3. age \in [Devices -> 0 .. Timeout] /\ listAge \in 0 .. Timeout
    BY <2>1
  <2> QED
    BY <1>1, <2>1, <2>2, <2>3 DEF RestTypeOK
<1>3. StagesOK /\ ReportOK
  BY DEF StagesOK, ReportOK, NoUpdates
<1>4. Longest \in Nat
  BY FS_CardinalityType DEF Longest, Rounds
<1>5. PollInTime
  BY <1>4 DEF PollInTime
<1> QED
  BY <1>2, <1>3, <1>5 DEF RestInv

\* Every step keeps every variable in its range.
LEMMA NextRestTypeOK == RestTypeOK /\ StagesOK /\ [RestNext]_vars => RestTypeOK'
<1> SUFFICES ASSUME RestTypeOK, StagesOK, [RestNext]_vars PROVE RestTypeOK'
  OBVIOUS
<1> USE RestAssumption, StoreFacts DEF RestTypeOK, StoreUnchanged, storeVars
<1>1. CASE ListFails
  BY <1>1 DEF ListFails, timeVars
<1>11. CASE NextScrape
  <2>1. 0 \in 0 .. Timeout
    OBVIOUS
  <2> QED
    BY <1>11, <2>1 DEF NextScrape, history
<1>2. CASE ListSucceeds
  <2>1. fetch' \in [Devices -> {"none", "queued", "running", "done"}]
    BY <1>2 DEF ListSucceeds
  <2> QED
    BY <1>2, <2>1 DEF ListSucceeds
<1>3. ASSUME NEW d \in Devices, Acquire(d) \/ Abandon(d) PROVE RestTypeOK'
  <2>1. fetch' \in [Devices -> {"none", "queued", "running", "done"}]
    BY <1>3 DEF Acquire, Abandon
  <2>2. age' \in [Devices -> 0 .. Timeout]
    BY <1>3 DEF Acquire, Abandon
  <2> QED
    BY <1>3, <2>1, <2>2 DEF Acquire, Abandon, FetchUnchanged
<1>4. ASSUME NEW d \in Devices, NEW u \in Updates \cup {NoUpdate}, EndRequest(d, u),
             failed' \subseteq Devices
      PROVE  RestTypeOK'
  <2>1. /\ fetch' \in [Devices -> {"none", "queued", "running", "done"}]
        /\ updates' \in [Devices -> Updates \cup {NoUpdate}]
    BY <1>4 DEF EndRequest
  <2>2. age' \in [Devices -> 0 .. Timeout]
    BY <1>4 DEF EndRequest
  <2> QED
    BY <1>4, <2>1, <2>2 DEF EndRequest, FetchUnchanged
<1>5. ASSUME NEW d \in Devices, FetchSucceeds(d) \/ FetchFails(d) PROVE RestTypeOK'
  BY <1>4, <1>5 DEF FetchSucceeds, FetchFails
<1>6. CASE AllFetched \/ Return \/ Cancel
  BY <1>6 DEF AllFetched, Return, Cancel, timeVars, scrapeVars, history
<1>7. ASSUME NEW d \in Devices, Dispatch(d) PROVE RestTypeOK'
  <2>1. updates[d] \in Updates /\ updates' \in [Devices -> Updates \cup {NoUpdate}]
    BY <1>7 DEF Dispatch
  <2>2. series' \in [Devices -> Updates] /\ online' \in [Devices -> {Absent, 0, 1}]
    BY <1>7, <2>1 DEF Dispatch, Offline, Update
  <2> QED
    BY <1>7, <2>1, <2>2 DEF Dispatch, timeVars, history
<1>8. CASE EndScrape
  <2>1. /\ fetch' \in [Devices -> {"none", "queued", "running", "done"}]
        /\ updates' \in [Devices -> Updates \cup {NoUpdate}]
    BY <1>8 DEF EndScrape, NoUpdates
  <2> QED
    BY <1>8, <2>1 DEF EndScrape, timeVars, history
<1>9. CASE TimePasses
  <2>1. age' \in [Devices -> 0 .. Timeout]
    <3>1. \A d \in Devices : fetch[d] = "running" => age[d] # Timeout
      BY <1>9 DEF TimePasses, Due
    <3> QED
      BY <1>9, <3>1 DEF TimePasses
  <2>2. listAge' \in 0 .. Timeout
    <3>1. run = "listing" => listAge # Timeout
      BY <1>9 DEF TimePasses, Due
    <3> QED
      BY <1>9, <3>1 DEF TimePasses
  <2>3. untilTick' \in 1 .. Interval /\ ticker' \in BOOLEAN
    BY <1>9 DEF TimePasses
  <2>4. sinceSuccess' \in Nat
    BY <1>9 DEF TimePasses
  <2> QED
    BY <1>9, <2>1, <2>2, <2>3, <2>4 DEF TimePasses, scrapeVars, history
<1>10. CASE UNCHANGED vars
  BY <1>10 DEF vars, restVars, scrapeVars, timeVars, history
<1> QED
  BY <1>1, <1>2, <1>3, <1>5, <1>6, <1>7, <1>8, <1>9, <1>10, <1>11 DEF RestNext, Step

\* A scrape goes through its stages.
LEMMA NextStagesOK == RestTypeOK /\ StagesOK /\ [RestNext]_vars => StagesOK'
<1> SUFFICES ASSUME RestTypeOK, StagesOK, [RestNext]_vars PROVE StagesOK'
  OBVIOUS
<1>1. CASE ListFails \/ NextScrape \/ Return
  BY <1>1 DEF ListFails, NextScrape, Return, StagesOK, NoUpdates
<1>2. CASE ListSucceeds
  <2>1. /\ run = "listing" /\ run' = "fetching" /\ UNCHANGED <<updates, cancelled>>
        /\ fetch' = [d \in Devices |-> IF listed'[d] = Absent THEN "none" ELSE "queued"]
        /\ listed' \in [Devices -> {Absent, 0, 1}]
    BY <1>2 DEF ListSucceeds
  <2>2. \A d \in Devices : updates[d] = NoUpdate
    BY <2>1 DEF StagesOK, NoUpdates
  <2> QED
    BY <2>1, <2>2 DEF StagesOK
<1>3. ASSUME NEW d \in Devices, Acquire(d) \/ Abandon(d) PROVE StagesOK'
  <2>1. /\ UNCHANGED <<run, listed, updates, cancelled, failed>>
        /\ fetch[d] = "queued" /\ (fetch'[d] = "running" \/ (fetch'[d] = "done" /\ cancelled))
        /\ \A c \in Devices \ {d} : fetch'[c] = fetch[c]
    BY <1>3 DEF Acquire, Abandon, FetchUnchanged, RestTypeOK
  <2>2. run = "fetching"
    BY <2>1 DEF StagesOK, RestTypeOK
  <2> QED
    BY <2>1, <2>2 DEF StagesOK
<1>4. ASSUME NEW d \in Devices, FetchSucceeds(d) \/ FetchFails(d) PROVE StagesOK'
  <2>1. /\ UNCHANGED <<run, listed, cancelled>> /\ failed \subseteq failed'
        /\ fetch[d] = "running" /\ fetch'[d] = "done"
        /\ \A c \in Devices \ {d} : fetch'[c] = fetch[c] /\ updates'[c] = updates[c]
    BY <1>4 DEF FetchSucceeds, FetchFails, EndRequest, FetchUnchanged, RestTypeOK
  <2>2. run = "fetching"
    BY <2>1 DEF StagesOK, RestTypeOK
  <2>3. updates'[d] # NoUpdate \/ (d \in failed' /\ listed[d] # 0)
    BY <1>4, RestAssumption, StoreFacts
       DEF FetchSucceeds, FetchFails, EndRequest, RestTypeOK
  <2>4. listed[d] # Absent /\ (listed[d] # 0 => listed[d] = 1)
    BY <2>1, <2>2 DEF StagesOK, RestTypeOK
  <2> QED
    BY <2>1, <2>2, <2>3, <2>4 DEF StagesOK
<1>5. CASE AllFetched
  BY <1>5 DEF AllFetched, StagesOK
<1>6. ASSUME NEW d \in Devices, Dispatch(d) PROVE StagesOK'
  <2>1. /\ UNCHANGED <<run, listed, fetch, cancelled, failed>> /\ run = "dispatching"
        /\ updates' = [updates EXCEPT ![d] = NoUpdate]
    BY <1>6 DEF Dispatch, history
  <2> QED
    BY <2>1 DEF StagesOK, RestTypeOK
<1>7. CASE EndScrape
  BY <1>7 DEF EndScrape, StagesOK, NoUpdates
<1>8. CASE Cancel
  BY <1>8 DEF Cancel, StagesOK, scrapeVars, history
<1>9. CASE TimePasses \/ UNCHANGED vars
  BY <1>9 DEF TimePasses, vars, restVars, scrapeVars, history, StagesOK
<1> QED
  BY <1>1, <1>2, <1>3, <1>4, <1>5, <1>6, <1>7, <1>8, <1>9 DEF RestNext, Step

\* Once all goroutines are done, every device of the list has its update or its
\* failure, and Handle shows what it gets.
LEMMA NextReportOK ==
    RestTypeOK /\ StagesOK /\ ReportOK /\ [RestNext]_vars => ReportOK'
<1> SUFFICES ASSUME RestTypeOK, StagesOK, ReportOK, [RestNext]_vars PROVE ReportOK'
  OBVIOUS
<1> USE DEF StoreUnchanged, storeVars
<1>1. CASE ListFails
  BY <1>1, StoreFacts DEF ListFails, ReportOK
<1>2. CASE ListSucceeds \/ NextScrape \/ Return
  BY <1>2 DEF ListSucceeds, NextScrape, Return, ReportOK
<1>3. ASSUME NEW d \in Devices,
             Acquire(d) \/ Abandon(d) \/ FetchSucceeds(d) \/ FetchFails(d)
      PROVE  ReportOK'
  <2>1. run' = run /\ fetch[d] \in {"queued", "running"}
    BY <1>3 DEF Acquire, Abandon, FetchSucceeds, FetchFails, EndRequest, FetchUnchanged
  <2> QED
    BY <2>1 DEF StagesOK, ReportOK, RestTypeOK
<1>4. CASE AllFetched
  <2>1. /\ UNCHANGED <<listed, fetch, updates, cancelled, failed, series, online>>
        /\ run = "fetching" /\ \A d \in Devices : fetch[d] \in {"none", "done"}
    BY <1>4 DEF AllFetched, history
  <2>2. ~cancelled => \A d \in Devices :
           \/ updates[d] # NoUpdate \/ listed[d] = Absent \/ (listed[d] = 1 /\ d \in failed)
    BY <2>1 DEF StagesOK
  <2> QED
    BY <2>1, <2>2, StoreFacts DEF ReportOK
<1>5. ASSUME NEW d \in Devices, Dispatch(d) PROVE ReportOK'
  <2>1. /\ UNCHANGED <<run, listed, cancelled, failed>> /\ run = "dispatching"
        /\ \A c \in Devices \ {d} : /\ updates'[c] = updates[c]
                                    /\ series'[c] = series[c] /\ online'[c] = online[c]
    BY <1>5 DEF Dispatch, history, Offline, Update, RestTypeOK
  <2>2. /\ listed[d] = 0 => online'[d] = 0 /\ series'[d] = NoSeries
        /\ listed[d] # 0 => online'[d] = 1
    BY <1>5 DEF Dispatch, Offline, Update, RestTypeOK
  <2> QED
    BY <2>1, <2>2 DEF ReportOK
<1>6. CASE EndScrape
  BY <1>6 DEF EndScrape, ReportOK, NoUpdates, history
<1>7. CASE Cancel
  BY <1>7 DEF Cancel, ReportOK
<1>8. CASE TimePasses \/ UNCHANGED vars
  BY <1>8 DEF TimePasses, vars, restVars, scrapeVars, history, ReportOK
<1> QED
  BY <1>1, <1>2, <1>3, <1>4, <1>5, <1>6, <1>7, <1>8 DEF RestNext, Step

-----------------------------------------------------------------------------
(* The time of a scrape                                                    *)

\* i full rounds leave a round for one device more.
LEMMA RoundsFacts ==
    /\ Cardinality(Devices) \in Nat /\ Rounds \in Nat
    /\ Rounds * Timeout \in Nat /\ Longest \in Nat
    /\ \A i \in Nat : Concurrency * i < Cardinality(Devices) =>
          i * Timeout + Timeout <= Rounds * Timeout
<1> DEFINE N == Cardinality(Devices)
<1> USE RestAssumption
<1>1. N \in Nat
  BY FS_CardinalityType
<1>2. Rounds \in Nat
  BY <1>1 DEF Rounds
<1>3. Rounds * Timeout \in Nat /\ Longest \in Nat
  BY <1>2 DEF Longest
<1>4. ASSUME NEW i \in Nat, Concurrency * i < N PROVE i + 1 <= Rounds
  <2> DEFINE top == N + Concurrency - 1
  <2>1. top \in Nat /\ Concurrency * (i + 1) <= top
    BY <1>1, <1>4
  <2>2. \A x, q \in Nat, c \in Nat \ {0} : c * q <= x => q <= x \div c
    BY Z3
  <2> HIDE DEF top
  <2>3. i + 1 <= top \div Concurrency
    <3>1. i + 1 \in Nat /\ Concurrency \in Nat \ {0}
      OBVIOUS
    <3> QED
      BY <2>1, <2>2, <3>1, Zenon
  <2> QED
    BY <2>3 DEF Rounds, top
<1>5. ASSUME NEW i \in Nat, i + 1 <= Rounds
      PROVE  i * Timeout + Timeout <= Rounds * Timeout
  <2>1. \A a, b, t \in Nat : a <= b => a * t <= b * t
    BY Z3
  <2>2. (i + 1) * Timeout <= Rounds * Timeout
    BY <1>2, <1>5, <2>1
  <2>3. (i + 1) * Timeout = i * Timeout + Timeout
    BY Z3
  <2> QED
    BY <2>2, <2>3
<1> QED
  BY <1>1, <1>2, <1>3, <1>4, <1>5

\* Sets of devices are finite, and a larger one has at least as many.
LEMMA DeviceSets ==
    /\ \A S \in SUBSET Devices : IsFiniteSet(S) /\ Cardinality(S) \in Nat
    /\ \A S, U \in SUBSET Devices : S \subseteq U => Cardinality(S) <= Cardinality(U)
    /\ \A S \in SUBSET Devices : \A d \in Devices \ S : Cardinality(S) < Cardinality(Devices)
    /\ \A S, U \in SUBSET Devices : S \cap U = {} =>
          Cardinality(S \cup U) = Cardinality(S) + Cardinality(U)
<1>1. IsFiniteSet(Devices)
  BY RestAssumption
<1>2. \A S \in SUBSET Devices : IsFiniteSet(S) /\ Cardinality(S) \in Nat
  BY <1>1, FS_Subset, FS_CardinalityType
<1>3. ASSUME NEW S \in SUBSET Devices, NEW U \in SUBSET Devices, S \subseteq U
      PROVE  Cardinality(S) <= Cardinality(U)
  BY <1>2, <1>3, FS_Subset
<1>4. ASSUME NEW S \in SUBSET Devices, NEW d \in Devices \ S
      PROVE  Cardinality(S) < Cardinality(Devices)
  BY <1>1, <1>2, FS_Subset
<1>5. ASSUME NEW S \in SUBSET Devices, NEW U \in SUBSET Devices, S \cap U = {}
      PROVE  Cardinality(S \cup U) = Cardinality(S) + Cardinality(U)
  <2>1. Cardinality(S \cup U) = Cardinality(S) + Cardinality(U) - Cardinality(S \cap U)
    BY <1>2, FS_Union
  <2>2. Cardinality(S \cap U) = 0
    BY <1>5, FS_EmptySet
  <2> QED
    BY <1>2, <2>1, <2>2
<1> QED
  BY <1>2, <1>3, <1>4, <1>5

\* A request that begins has a round left.
LEMMA AcquireInTime ==
    ASSUME RestTypeOK, FetchInTime, NEW d \in Devices, Acquire(d)
    PROVE  FetchInTime'
<1> USE RestAssumption DEF RestTypeOK
<1>1. /\ fetch[d] = "queued" /\ fetch' = [fetch EXCEPT ![d] = "running"]
      /\ age' = [age EXCEPT ![d] = 0] /\ sinceSuccess' = sinceSuccess
  BY DEF Acquire, FetchUnchanged
<1>2. PICK i \in Nat, r \in 1 .. Timeout :
         sinceSuccess <= (i - 1) * Timeout + r /\ Concurrency * i <= Cardinality(Old(r))
  BY <1>1 DEF FetchInTime, SlotsBusy
<1>3. \A q \in 1 .. Timeout : Old(q)' = Old(q)
  BY <1>1 DEF Old
<1>4. SlotsBusy'
  BY <1>1, <1>2, <1>3 DEF SlotsBusy
<1>5. sinceSuccess + Timeout <= Rounds * Timeout
  <2>1. d \notin Old(r) /\ Old(r) \in SUBSET Devices
    BY <1>1 DEF Old
  <2>2. Concurrency * i < Cardinality(Devices)
    <3>1. Cardinality(Old(r)) < Cardinality(Devices) /\ Cardinality(Old(r)) \in Nat
      BY <2>1, DeviceSets
    <3>2. Concurrency * i \in Nat
      OBVIOUS
    <3> QED
      BY <1>2, <3>1, <3>2, RoundsFacts
  <2>3. i * Timeout + Timeout <= Rounds * Timeout
    BY <2>2, RoundsFacts
  <2>4. (i - 1) * Timeout = i * Timeout - Timeout /\ i * Timeout \in Nat
    BY Z3
  <2> QED
    BY <1>2, <2>3, <2>4, RoundsFacts
<1>6. \A c \in Running' : sinceSuccess' + Timeout <= Rounds * Timeout + age'[c]
  BY <1>1, <1>5, RoundsFacts DEF FetchInTime, Running
<1> QED
  BY <1>1, <1>4, <1>6 DEF FetchInTime, Rounds

\* A request that ends is not counted less.
LEMMA EndInTime ==
    ASSUME RestTypeOK, FetchInTime, NEW d \in Devices,
           FetchSucceeds(d) \/ FetchFails(d)
    PROVE  FetchInTime'
<1> USE RestAssumption DEF RestTypeOK
<1>1. /\ fetch[d] = "running" /\ fetch' = [fetch EXCEPT ![d] = "done"]
      /\ age' = [age EXCEPT ![d] = 0] /\ sinceSuccess' = sinceSuccess
  BY DEF FetchSucceeds, FetchFails, EndRequest, FetchUnchanged
<1>2. \A q \in 1 .. Timeout : Old(q) \subseteq Old(q)' /\ Old(q)' \subseteq Devices
  BY <1>1 DEF Old
<1>3. SlotsBusy'
  <2> SUFFICES ASSUME NEW c \in Devices, fetch'[c] = "queued" PROVE SlotsBusy'
    BY DEF SlotsBusy
  <2>1. fetch[c] = "queued"
    BY <1>1
  <2>2. PICK i \in Nat, r \in 1 .. Timeout :
           sinceSuccess <= (i - 1) * Timeout + r /\ Concurrency * i <= Cardinality(Old(r))
    BY <2>1 DEF FetchInTime, SlotsBusy
  <2>3. /\ Cardinality(Old(r)) <= Cardinality(Old(r)')
        /\ Cardinality(Old(r)) \in Nat /\ Cardinality(Old(r)') \in Nat
    BY <1>2, DeviceSets
  <2>4. Concurrency * i <= Cardinality(Old(r)')
    <3>1. Concurrency * i \in Nat
      OBVIOUS
    <3> QED
      BY <2>2, <2>3, <3>1
  <2> QED
    BY <1>1, <2>2, <2>4 DEF SlotsBusy
<1>4. \A c \in Running' : c \in Running /\ age'[c] = age[c]
  BY <1>1 DEF Running
<1> QED
  BY <1>1, <1>3, <1>4 DEF FetchInTime, Rounds

\* While a request runs, time takes from the rest of its round; while one waits,
\* from all slots.
LEMMA TimeInTime ==
    ASSUME RestTypeOK, FetchInTime, run = "fetching", TimePasses
    PROVE  FetchInTime'
<1> USE RestAssumption DEF RestTypeOK
<1>1. /\ fetch' = fetch
      /\ sinceSuccess' <= sinceSuccess + 1 /\ sinceSuccess' \in Nat
      /\ \A d \in Running : age[d] \in 0 .. Timeout - 1 /\ age'[d] = age[d] + 1
  BY DEF TimePasses, Due, Running, scrapeVars
<1>2. \A c \in Devices : fetch[c] = "queued" =>
         Cardinality(Running) \in Nat /\ Concurrency <= Cardinality(Running)
  <2>1. Cardinality(Running) \in Nat
    BY DeviceSets DEF Running
  <2> QED
    BY <2>1 DEF TimePasses, Due, SlotFree
<1>3. PICK d \in Devices : d \in Running
  <2>1. PICK c \in Devices : fetch[c] \notin {"none", "done"}
    BY DEF TimePasses, Due
  <2>2. CASE fetch[c] = "running"
    BY <2>2 DEF Running
  <2>3. CASE fetch[c] = "queued"
    <3>1. Cardinality(Running) # 0
      BY <1>2, <2>3
    <3>2. Running # {}
      BY <3>1, FS_EmptySet
    <3> QED
      BY <3>2 DEF Running
  <2> QED
    BY <2>1, <2>2, <2>3
<1>4. Running' = Running
  BY <1>1 DEF Running
<1>5. \A c \in Running' : sinceSuccess' + Timeout <= Rounds * Timeout + age'[c]
  BY <1>1, <1>4, RoundsFacts DEF FetchInTime, Running
<1>6. sinceSuccess' <= Rounds * Timeout
  BY <1>1, <1>3, RoundsFacts DEF FetchInTime, Running
<1>7. SlotsBusy'
  <2> SUFFICES ASSUME NEW c \in Devices, fetch[c] = "queued" PROVE SlotsBusy'
    BY <1>1 DEF SlotsBusy
  <2>1. PICK i \in Nat, r \in 1 .. Timeout :
           sinceSuccess <= (i - 1) * Timeout + r /\ Concurrency * i <= Cardinality(Old(r))
    BY DEF FetchInTime, SlotsBusy
  <2>2. CASE r < Timeout
    <3>1. Old(r + 1)' = Old(r)
      BY <1>1 DEF Old, Running
    <3>2. r + 1 \in 1 .. Timeout /\ (i - 1) * Timeout \in Int
      BY <2>2
    <3>3. sinceSuccess' <= (i - 1) * Timeout + (r + 1)
      BY <1>1, <2>1, <3>2
    <3> QED
      BY <2>1, <3>1, <3>2, <3>3 DEF SlotsBusy
  <2>3. CASE r = Timeout
    <3> DEFINE done == {e \in Devices : fetch[e] = "done"}
    <3>1. Old(r) = done
      BY <1>1, <2>3 DEF Old, Running
    <3>2. Old(1)' = done \cup Running /\ done \cap Running = {}
      BY <1>1 DEF Old, Running
    <3>3. done \in SUBSET Devices /\ Running \in SUBSET Devices
      BY DEF Running
    <3> HIDE DEF done
    <3>4. /\ Cardinality(Old(1)') = Cardinality(done) + Cardinality(Running)
          /\ Cardinality(done) \in Nat
      BY <3>2, <3>3, DeviceSets
    <3>5. Concurrency * (i + 1) = Concurrency * i + Concurrency /\ Concurrency * i \in Nat
      BY Z3
    <3>6. Concurrency * (i + 1) <= Cardinality(Old(1)')
      BY <1>2, <2>1, <3>1, <3>4, <3>5
    <3>7. sinceSuccess' <= ((i + 1) - 1) * Timeout + 1
      <4>1. /\ (i - 1) * Timeout + Timeout = i * Timeout /\ i * Timeout \in Nat
            /\ (i - 1) * Timeout \in Int /\ (i + 1) - 1 = i
        BY Z3
      <4> QED
        BY <1>1, <2>1, <2>3, <4>1
    <3>8. i + 1 \in Nat /\ 1 \in 1 .. Timeout
      OBVIOUS
    <3> QED
      BY <3>6, <3>7, <3>8 DEF SlotsBusy
  <2> QED
    BY <2>2, <2>3
<1> QED
  BY <1>5, <1>6, <1>7 DEF FetchInTime, Rounds

\* A new list starts the time over.
LEMMA ListInTime == ASSUME RestTypeOK, ListSucceeds PROVE FetchInTime'
<1> USE RestAssumption DEF RestTypeOK
<1>1. sinceSuccess' = 0 /\ \A d \in Devices : fetch'[d] \in {"none", "queued"}
  BY DEF ListSucceeds
<1>2. Running' = {}
  BY <1>1 DEF Running
<1>3. SlotsBusy'
  <2>1. (0 - 1) * Timeout + Timeout = 0 /\ Concurrency * 0 = 0
    BY Z3
  <2>2. Old(Timeout)' \in SUBSET Devices
    BY DEF Old
  <2>3. Cardinality(Old(Timeout)') \in Nat
    BY <2>2, DeviceSets
  <2>4. /\ 0 \in Nat /\ Timeout \in 1 .. Timeout
        /\ sinceSuccess' <= (0 - 1) * Timeout + Timeout
        /\ Concurrency * 0 <= Cardinality(Old(Timeout)')
    BY <1>1, <2>1, <2>3
  <2> QED
    BY <2>4 DEF SlotsBusy
<1> QED
  BY <1>1, <1>2, <1>3, RoundsFacts DEF FetchInTime, Rounds

\* No stage of a scrape is longer than it may be.
LEMMA NextPollInTime ==
    RestTypeOK /\ StagesOK /\ PollInTime /\ [RestNext]_vars => PollInTime'
<1> SUFFICES ASSUME RestTypeOK, StagesOK, PollInTime, [RestNext]_vars,
                    ~listFailed', ~cancelled'
             PROVE  PollInTime'
  BY DEF PollInTime
<1> USE RestAssumption, RoundsFacts DEF RestTypeOK
<1> DEFINE inTick == run \in {"fetching", "dispatching", "waiting"} /\ ~ticker =>
                        sinceSuccess <= Interval - untilTick
<1>1. Longest' = Longest /\ (Rounds * Timeout)' = Rounds * Timeout
      /\ Rounds * Timeout <= Longest /\ Interval <= Longest
  BY DEF Longest, Rounds
<1>2. CASE ListSucceeds
  <2>1. /\ run' = "fetching" /\ sinceSuccess' = 0 /\ untilTick' = untilTick
        /\ 0 <= Interval - untilTick
    BY <1>2 DEF ListSucceeds
  <2> QED
    BY <1>2, <2>1, ListInTime DEF PollInTime
<1>3. ASSUME NEW d \in Devices,
             Acquire(d) \/ Abandon(d) \/ FetchSucceeds(d) \/ FetchFails(d)
      PROVE  PollInTime'
  <2>1. /\ fetch[d] \in {"queued", "running"}
        /\ UNCHANGED <<run, listAge, untilTick, ticker, sinceSuccess, cancelled, listFailed>>
    BY <1>3 DEF Acquire, Abandon, FetchSucceeds, FetchFails, EndRequest, FetchUnchanged
  <2>2. run = "fetching"
    BY <2>1 DEF StagesOK
  <2>3. FetchInTime /\ inTick
    BY <2>1, <2>2 DEF PollInTime
  <2>4. FetchInTime'
    BY <1>3, <2>1, <2>3, AcquireInTime, EndInTime DEF Abandon
  <2> QED
    BY <2>1, <2>2, <2>3, <2>4 DEF PollInTime
<1>4. CASE AllFetched
  BY <1>4 DEF AllFetched, PollInTime, FetchInTime, Rounds, timeVars, history
<1>5. ASSUME NEW d \in Devices, Dispatch(d) PROVE PollInTime'
  BY <1>1, <1>5 DEF Dispatch, PollInTime, timeVars, history
<1>6. CASE EndScrape
  <2>1. /\ run = "dispatching" /\ run' = "waiting"
        /\ UNCHANGED <<listAge, untilTick, ticker, sinceSuccess, cancelled, listFailed>>
    BY <1>6 DEF EndScrape, timeVars, history
  <2> QED
    BY <1>1, <2>1 DEF PollInTime
<1>7. CASE NextScrape
  BY <1>1, <1>7 DEF NextScrape, PollInTime, history
<1>8. CASE ListFails \/ Return \/ Cancel
  BY <1>8 DEF ListFails, Return, Cancel
<1>9. CASE TimePasses
  <2>1. /\ run' = run /\ UNCHANGED <<cancelled, listFailed, failed>> /\ run # "returned"
        /\ sinceSuccess' <= sinceSuccess + 1 /\ sinceSuccess' \in Nat
        /\ untilTick' = IF untilTick = 1 THEN Interval ELSE untilTick - 1
        /\ ticker' = (ticker \/ untilTick = 1)
        /\ run = "listing" => listAge' = listAge + 1
        /\ run = "waiting" => ~ticker
        /\ run # "dispatching"
    BY <1>9 DEF TimePasses, Due, scrapeVars, history
  <2>2. run = "listing" => sinceSuccess' <= Longest + listAge'
    BY <2>1 DEF PollInTime
  <2>3. run = "fetching" => FetchInTime'
    BY <1>9, <2>1, TimeInTime DEF PollInTime
  <2>4. run \in {"fetching", "waiting"} /\ ~ticker' => sinceSuccess' <= Interval - untilTick'
    <3> SUFFICES ASSUME run \in {"fetching", "waiting"}, ~ticker'
                 PROVE  sinceSuccess' <= Interval - untilTick'
      OBVIOUS
    <3>1. ~ticker /\ untilTick # 1 /\ untilTick' = untilTick - 1
      BY <2>1
    <3>2. sinceSuccess <= Interval - untilTick
      BY <2>1, <3>1 DEF PollInTime
    <3> QED
      BY <2>1, <3>1, <3>2
  <2>5. run = "waiting" => sinceSuccess' <= Longest
    <3>1. run = "waiting" => sinceSuccess <= Interval - untilTick
      BY <2>1 DEF PollInTime
    <3> QED
      BY <1>1, <2>1, <3>1
  <2> QED
    BY <1>1, <2>1, <2>2, <2>3, <2>4, <2>5 DEF PollInTime
<1>10. CASE UNCHANGED vars
  BY <1>1, <1>10 DEF vars, restVars, scrapeVars, timeVars, history, PollInTime, FetchInTime,
                SlotsBusy, Old, Running, Rounds
<1> QED
  BY <1>2, <1>3, <1>4, <1>5, <1>6, <1>7, <1>8, <1>9, <1>10 DEF RestNext, Step

\* The polling's invariant.
LEMMA RestInvariant == RestSpec => []RestInv
<1>1. RestInv /\ [RestNext]_vars => RestInv'
  BY NextRestTypeOK, NextStagesOK, NextReportOK, NextPollInTime DEF RestInv
<1> QED
  BY <1>1, InitRestInv, PTL DEF RestSpec

\* After a scrape every device of the list is shown as the list has it, in any
\* order of requests and failures (rest_exporter.go:92-109, 126-135).
THEOREM ScrapeIsReported == RestSpec => []ScrapeReported
<1>1. RestInv => ScrapeReported
  <2> SUFFICES ASSUME RestInv, run = "waiting", ~cancelled, NEW d \in Devices
               PROVE  /\ listed[d] = 0 => online[d] = 0 /\ series[d] = NoSeries
                      /\ listed[d] = 1 => online[d] = 1 \/ d \in failed
    BY Zenon DEF ScrapeReported
  <2>1. updates[d] = NoUpdate
    BY DEF RestInv, StagesOK, NoUpdates
  <2> QED
    BY <2>1 DEF RestInv, ReportOK
<1> QED
  BY <1>1, RestInvariant, PTL

\* What is shown of a device that is not on the list is never touched
\* (rest_exporter.go:92-109).
THEOREM VanishedIsLeftAlone == RestSpec => VanishedStays
<1>1. RestInv /\ [RestNext]_vars =>
        [\A d \in Devices :
            <<series'[d], online'[d]>> # <<series[d], online[d]>> =>
                listed[d] # Absent /\ updates[d] # NoUpdate]_vars
  <2> SUFFICES ASSUME RestInv, RestNext, NEW d \in Devices,
                      <<series'[d], online'[d]>> # <<series[d], online[d]>>
               PROVE  listed[d] # Absent /\ updates[d] # NoUpdate
    OBVIOUS
  <2>1. PICK c \in Devices : Dispatch(c)
    BY DEF RestNext, Step, ListFails, ListSucceeds, AllFetched, EndScrape, NextScrape,
           Return, Acquire, Abandon, FetchSucceeds, FetchFails, EndRequest,
           FetchUnchanged, Cancel, TimePasses, StoreUnchanged, storeVars
  <2>2. c = d
    BY <2>1 DEF Dispatch, Offline, Update, RestInv, RestTypeOK
  <2> QED
    BY <2>1, <2>2 DEF Dispatch, RestInv, StagesOK
<1> QED
  BY <1>1, RestInvariant, PTL DEF RestSpec, VanishedStays

\* Whatever the number of devices and slots, slow or failing requests for
\* parameters alone do not make Health fail (rest_exporter.go:84-103, 138-150).
THEOREM UnhealthyIsExplained == RestSpec => []UnhealthyExplained
<1>1. RestInv => UnhealthyExplained
  <2> SUFFICES ASSUME RestInv, ~listFailed, ~cancelled,
                      (Rounds + 1) * Timeout <= Limit, Interval + Timeout <= Limit
               PROVE  Healthy
    BY DEF UnhealthyExplained
  <2> USE RestAssumption, RoundsFacts DEF RestInv, RestTypeOK
  <2>1. Limit \in Nat
    BY DEF Limit
  <2>2. Rounds * Timeout + Timeout <= Limit
    <3>1. (Rounds + 1) * Timeout = Rounds * Timeout + Timeout
      BY Z3
    <3> QED
      BY <3>1
  <2>3. Longest + Timeout <= Limit
    BY <2>2 DEF Longest
  <2>4. sinceSuccess <= Longest + Timeout
    <3>1. Rounds * Timeout <= Longest
      BY DEF Longest
    <3> QED
      BY <3>1 DEF PollInTime, FetchInTime
  <2> QED
    BY <2>1, <2>3, <2>4 DEF Healthy
<1> QED
  BY <1>1, RestInvariant, PTL

=============================================================================
