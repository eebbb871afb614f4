-------------------------- MODULE PrometheusExporter ------------------------
(***************************************************************************)
(* PrometheusExporter step by step (src/prometheus.go:84-149): Handle      *)
(* changes the map p.metrics one key at a time under p.mu, Collect sends   *)
(* one key at a time under p.mu.RLock, and several goroutines call both.   *)
(* It implements MetricStore, the store that changes and is read at once.  *)
(***************************************************************************)
EXTENDS Integers

CONSTANTS
    Devices, Params, Values, Absent,   \* as in MetricStore
    Writers,   \* goroutines that call Handle: paho callbacks and the monitor
    Readers,   \* scrapes that call Collect
    Nobody,    \* p.mu has no writer
    NoCall     \* the goroutine is not in Handle

\* A parameter whose metric name is the one of `online` is no member of Params:
\* MessageDecoding has it.
ASSUME ExporterAssumption ==
    /\ "online" \notin Params
    /\ Absent \notin Values \cup {0, 1}
    /\ Nobody \notin Writers

VARIABLES
    metrics,   \* p.metrics: [Devices -> [Keys -> value | Absent]]
    writer,    \* the goroutine that holds p.mu, or Nobody
    readers,   \* the goroutines that hold p.mu.RLock
    step,      \* [Writers -> "idle" | "waiting" | "writing" | "written"]
    call,      \* [Writers -> the update passed to Handle, or NoCall]
    left,      \* keys the loop of the writer has not reached
    unread,    \* [Readers -> keys the range over p.metrics has not reached]
    sent,      \* [Readers -> [Devices -> [Keys -> value | Absent]]]
    scraped,   \* what the latest complete Collect sent
    before     \* HISTORY: the device's entries when the writer took the lock

vars == <<metrics, writer, readers, step, call, left, unread, sent, scraped, before>>

Keys == Params \cup {"online"}
NoEntry == [k \in Keys |-> Absent]
Nothing == [d \in Devices |-> NoEntry]
Present(m) == {dk \in Devices \X Keys : m[dk[1]][dk[2]] # Absent}
Calls == [device : Devices, online : {0, 1},
          params : [Params -> Values \cup {Absent}]]

Init ==
    /\ metrics = Nothing
    /\ writer = Nobody /\ readers = {}
    /\ step = [w \in Writers |-> "idle"]
    /\ call = [w \in Writers |-> NoCall]
    /\ left = {}
    /\ unread = [r \in Readers |-> {}]
    /\ sent = [r \in Readers |-> Nothing]
    /\ scraped = Nothing
    /\ before = NoEntry

-----------------------------------------------------------------------------
\* Handle is called; the samples are computed before the lock.
Handle(w) ==
    /\ step[w] = "idle"
    /\ \E u \in Calls : call' = [call EXCEPT ![w] = u]
    /\ step' = [step EXCEPT ![w] = "waiting"]
    /\ UNCHANGED <<metrics, writer, readers, left, unread, sent, scraped, before>>

\* p.mu.Lock, and what the loop of Handle ranges over: the entries of an
\* offline device, the numeric samples otherwise.
Lock(w) ==
    /\ step[w] = "waiting"
    /\ writer = Nobody /\ readers = {}
    /\ writer' = w
    /\ step' = [step EXCEPT ![w] = "writing"]
    /\ before' = metrics[call[w].device]
    /\ left' = IF call[w].online = 0
               THEN {p \in Params : metrics[call[w].device][p] # Absent}
               ELSE {p \in Params : call[w].params[p] # Absent}
    /\ UNCHANGED <<metrics, readers, call, unread, sent, scraped>>

\* One iteration: delete, or setLocked.
Write(w, p) ==
    /\ step[w] = "writing" /\ p \in left
    /\ metrics' = [metrics EXCEPT ![call[w].device][p] =
                      IF call[w].online = 0 THEN Absent ELSE call[w].params[p]]
    /\ left' = left \ {p}
    /\ UNCHANGED <<writer, readers, step, call, unread, sent, scraped, before>>

\* The last setLocked: online is always set.
WriteOnline(w) ==
    /\ step[w] = "writing" /\ left = {}
    /\ metrics' = [metrics EXCEPT ![call[w].device]["online"] = call[w].online]
    /\ step' = [step EXCEPT ![w] = "written"]
    /\ UNCHANGED <<writer, readers, call, left, unread, sent, scraped, before>>

Unlock(w) ==
    /\ step[w] = "written"
    /\ writer' = Nobody
    /\ step' = [step EXCEPT ![w] = "idle"]
    /\ call' = [call EXCEPT ![w] = NoCall]
    /\ before' = NoEntry
    /\ UNCHANGED <<metrics, readers, left, unread, sent, scraped>>

\* Mutant: Collect does not take the lock.
RLockMissing(r) ==
    /\ r \notin readers
    /\ readers' = readers \cup {r}
    /\ unread' = [unread EXCEPT ![r] = Present(metrics)]
    /\ UNCHANGED <<metrics, writer, step, call, left, sent, scraped, before>>

\* Collect: p.mu.RLock, ...
RLock(r) ==
    /\ r \notin readers /\ writer = Nobody
    /\ readers' = readers \cup {r}
    /\ unread' = [unread EXCEPT ![r] = Present(metrics)]
    /\ UNCHANGED <<metrics, writer, step, call, left, sent, scraped, before>>

\* ... one entry at a time in the order of the map, which is arbitrary, ...
Collect(r, d, k) ==
    /\ r \in readers /\ <<d, k>> \in unread[r]
    /\ sent' = [sent EXCEPT ![r][d][k] = metrics[d][k]]
    /\ unread' = [unread EXCEPT ![r] = @ \ {<<d, k>>}]
    /\ UNCHANGED <<metrics, writer, readers, step, call, left, scraped, before>>

\* ... and RUnlock.
RUnlock(r) ==
    /\ r \in readers /\ unread[r] = {}
    /\ readers' = readers \ {r}
    /\ scraped' = sent[r]
    /\ sent' = [sent EXCEPT ![r] = Nothing]
    /\ UNCHANGED <<metrics, writer, step, call, left, unread, before>>

Next ==
    \/ \E w \in Writers :
          \/ Handle(w) \/ Lock(w) \/ WriteOnline(w) \/ Unlock(w)
          \/ \E p \in Params : Write(w, p)
    \/ \E r \in Readers :
          \/ RLock(r) \/ RUnlock(r)
          \/ \E d \in Devices, k \in Keys : Collect(r, d, k)

Spec == Init /\ [][Next]_vars

-----------------------------------------------------------------------------
TypeOK ==
    /\ metrics \in [Devices -> [Keys -> Values \cup {Absent, 0, 1}]]
    /\ writer \in Writers \cup {Nobody} /\ readers \subseteq Readers
    /\ step \in [Writers -> {"idle", "waiting", "writing", "written"}]
    /\ call \in [Writers -> Calls \cup {NoCall}]
    /\ left \subseteq Params
    /\ unread \in [Readers -> SUBSET (Devices \X Keys)]
    /\ sent \in [Readers -> [Devices -> [Keys -> Values \cup {Absent, 0, 1}]]]
    /\ scraped \in [Devices -> [Keys -> Values \cup {Absent, 0, 1}]]
    /\ before \in [Keys -> Values \cup {Absent, 0, 1}]

\* An update takes effect when it sets `online`, its last write: until then the
\* store is what it was when the lock was taken.
Store ==
    IF writer # Nobody /\ step[writer] = "writing"
    THEN [metrics EXCEPT ![call[writer].device] = before]
    ELSE metrics

SeriesOf(m) == [d \in Devices |-> [p \in Params |-> m[d][p]]]
OnlineOf(m) == [d \in Devices |-> m[d]["online"]]

Abstract == INSTANCE MetricStore WITH
    series  <- SeriesOf(Store),
    online  <- OnlineOf(Store),
    scraped <- [series |-> SeriesOf(scraped), online |-> OnlineOf(scraped)]

\* Handle and Collect are one step each for everybody else: no scrape sees a
\* device between two states, or two devices at different moments
\* (prometheus.go:88-89, 139-140).
ImplementsStore == Abstract!StoreSpec

=============================================================================
