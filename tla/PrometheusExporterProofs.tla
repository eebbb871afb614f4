---------------------- MODULE PrometheusExporterProofs ----------------------
(* Handle and Collect under p.mu implement the atomic store, for any number *)
(* of goroutines, devices and parameters.  The refinement needs to know     *)
(*   - that p.mu excludes: a writer is alone (LockOK);                      *)
(*   - what the loop of Handle has done so far, compared with the entries   *)
(*     it found (WriterOK);                                                 *)
(*   - that what Collect has sent is what p.metrics still has (ReaderOK).   *)
EXTENDS PrometheusExporter, TLAPS

\* p.mu: at most one goroutine is in Handle's critical section, and no Collect
\* is under way then.
LockOK ==
    /\ \A w \in Writers : step[w] \in {"writing", "written"} <=> writer = w
    /\ writer # Nobody => readers = {}
    /\ \A w \in Writers : step[w] # "idle" => call[w] \in Calls

\* What Handle makes of an entry that its call is about.
Result(u, old, p) ==
    IF u.online = 0 THEN Absent
    ELSE IF u.params[p] = Absent THEN old[p] ELSE u.params[p]

\* The entries the loop has not reached are as they were, the others are done;
\* `online` comes after the loop.
WriterOK ==
    \A w \in Writers :
        step[w] = "writing" =>
            LET now == metrics[call[w].device]
            IN /\ now["online"] = before["online"]
               /\ \A p \in Params :
                     now[p] = IF p \in left THEN before[p] ELSE Result(call[w], before, p)
               /\ \A p \in left : call[w].online # 0 => call[w].params[p] # Absent

\* A Collect has sent what is there and nothing else, but for what it has not
\* reached yet.
ReaderOK ==
    \A r \in Readers : \A d \in Devices, k \in Keys :
        sent[r][d][k] = IF r \in readers /\ <<d, k>> \notin unread[r]
                        THEN metrics[d][k] ELSE Absent

StoreInv == TypeOK /\ LockOK /\ WriterOK /\ ReaderOK

-----------------------------------------------------------------------------
\* At the start the map is empty and nobody holds the lock.
LEMMA InitStoreInv == Init => StoreInv
  BY ExporterAssumption
     DEF Init, StoreInv, TypeOK, LockOK, WriterOK, ReaderOK, Nothing, NoEntry

\* Handle and Collect keep every variable in its range.
LEMMA NextTypeOK == TypeOK /\ LockOK /\ WriterOK /\ [Next]_vars => TypeOK'
<1> SUFFICES ASSUME TypeOK, LockOK, WriterOK, [Next]_vars PROVE TypeOK'
  OBVIOUS
<1> USE DEF TypeOK
<1>1. ASSUME NEW w \in Writers, Handle(w) PROVE TypeOK'
  BY <1>1 DEF Handle
<1>2. ASSUME NEW w \in Writers, Lock(w) PROVE TypeOK'
  <2>1. call[w] \in Calls
    BY <1>2 DEF Lock, LockOK
  <2> QED
    BY <1>2, <2>1 DEF Lock, Calls
<1>3. ASSUME NEW w \in Writers, NEW p \in Params, Write(w, p) PROVE TypeOK'
  <2>1. call[w] \in Calls /\ p \in Keys
    BY <1>3 DEF Write, LockOK, Keys
  <2> QED
    BY <1>3, <2>1 DEF Write, Calls
<1>4. ASSUME NEW w \in Writers, WriteOnline(w) PROVE TypeOK'
  <2>1. call[w] \in Calls /\ "online" \in Keys
    BY <1>4 DEF WriteOnline, LockOK, Keys
  <2> QED
    BY <1>4, <2>1 DEF WriteOnline, Calls
<1>5. ASSUME NEW w \in Writers, Unlock(w) PROVE TypeOK'
  BY <1>5 DEF Unlock, NoEntry
<1>6. ASSUME NEW r \in Readers, RLock(r) PROVE TypeOK'
  BY <1>6 DEF RLock, Present
<1>7. ASSUME NEW r \in Readers, NEW d \in Devices, NEW k \in Keys, Collect(r, d, k)
      PROVE  TypeOK'
  BY <1>7 DEF Collect
<1>8. ASSUME NEW r \in Readers, RUnlock(r) PROVE TypeOK'
  BY <1>8 DEF RUnlock, Nothing, NoEntry
<1>9. CASE UNCHANGED vars
  BY <1>9 DEF vars
<1> QED
  BY <1>1, <1>2, <1>3, <1>4, <1>5, <1>6, <1>7, <1>8, <1>9 DEF Next

\* p.mu is handed on by Lock and Unlock only.
LEMMA NextLockOK == TypeOK /\ LockOK /\ [Next]_vars => LockOK'
<1> SUFFICES ASSUME TypeOK, LockOK, [Next]_vars PROVE LockOK'
  OBVIOUS
<1> USE ExporterAssumption DEF LockOK, TypeOK
<1>1. ASSUME NEW w \in Writers, Handle(w) PROVE LockOK'
  BY <1>1 DEF Handle
<1>2. ASSUME NEW w \in Writers, Lock(w) PROVE LockOK'
  BY <1>2 DEF Lock
<1>3. ASSUME NEW w \in Writers, NEW p \in Params, Write(w, p) PROVE LockOK'
  BY <1>3 DEF Write
<1>4. ASSUME NEW w \in Writers, WriteOnline(w) PROVE LockOK'
  BY <1>4 DEF WriteOnline
<1>5. ASSUME NEW w \in Writers, Unlock(w) PROVE LockOK'
  BY <1>5 DEF Unlock
<1>6. ASSUME NEW r \in Readers, RLock(r) \/ RUnlock(r) PROVE LockOK'
  BY <1>6 DEF RLock, RUnlock
<1>7. ASSUME NEW r \in Readers, NEW d \in Devices, NEW k \in Keys, Collect(r, d, k)
      PROVE  LockOK'
  BY <1>7 DEF Collect
<1>8. CASE UNCHANGED vars
  BY <1>8 DEF vars
<1> QED
  BY <1>1, <1>2, <1>3, <1>4, <1>5, <1>6, <1>7, <1>8 DEF Next

\* One entry of a map of maps, and of a map of such maps, is changed.
LEMMA EntryChanged ==
    ASSUME NEW S, NEW T, NEW V, NEW f \in [S -> [T -> V]],
           NEW s \in S, NEW t \in T, NEW v
    PROVE  \A a \in S, b \in T :
              [f EXCEPT ![s][t] = v][a][b] = IF a = s /\ b = t THEN v ELSE f[a][b]
  OBVIOUS

\* The same for a table of tables.
LEMMA DeepEntryChanged ==
    ASSUME NEW R, NEW S, NEW T, NEW V, NEW f \in [R -> [S -> [T -> V]]],
           NEW r \in R, NEW s \in S, NEW t \in T, NEW v
    PROVE  \A q \in R, a \in S, b \in T :
              [f EXCEPT ![r][s][t] = v][q][a][b]
                  = IF q = r /\ a = s /\ b = t THEN v ELSE f[q][a][b]
<1> TAKE q \in R, a \in S, b \in T
<1>1. CASE q # r
  BY <1>1
<1>2. CASE q = r
  <2>1. [f EXCEPT ![r][s][t] = v][q] = [f[r] EXCEPT ![s][t] = v]
    BY <1>2
  <2> QED
    BY <1>2, <2>1, EntryChanged
<1> QED
  BY <1>1, <1>2

\* Nothing changes under a writer but by its own hand.
LEMMA NextWriterOK == TypeOK /\ LockOK /\ WriterOK /\ [Next]_vars => WriterOK'
<1> SUFFICES ASSUME TypeOK, LockOK, WriterOK, [Next]_vars,
                    NEW w \in Writers, step'[w] = "writing"
             PROVE  /\ metrics'[call'[w].device]["online"] = before'["online"]
                    /\ \A p \in Params :
                          metrics'[call'[w].device][p] =
                              IF p \in left' THEN before'[p] ELSE Result(call'[w], before', p)
                    /\ \A p \in left' : call'[w].online # 0 => call'[w].params[p] # Absent
  BY DEF WriterOK, Result
<1>1. ASSUME NEW v \in Writers, Lock(v)
      PROVE  /\ w = v /\ call' = call /\ metrics' = metrics
             /\ before' = metrics[call[w].device] /\ call[w] \in Calls
             /\ left' = IF call[w].online = 0
                        THEN {p \in Params : metrics[call[w].device][p] # Absent}
                        ELSE {p \in Params : call[w].params[p] # Absent}
  BY <1>1, ExporterAssumption, ZenonT(60) DEF Lock, LockOK, TypeOK
<1>2. ASSUME NEW v \in Writers, NEW p \in Params, Write(v, p)
      PROVE  /\ w = v /\ call' = call /\ before' = before /\ left' = left \ {p}
             /\ p \in left /\ step[w] = "writing" /\ call[w] \in Calls
             /\ metrics' = [metrics EXCEPT ![call[w].device][p] =
                               IF call[w].online = 0 THEN Absent ELSE call[w].params[p]]
  BY <1>2, ExporterAssumption DEF Write, LockOK, TypeOK
<1>3. ASSUME \/ \E v \in Writers : Handle(v) \/ WriteOnline(v) \/ Unlock(v)
             \/ \E r \in Readers : RLock(r) \/ RUnlock(r)
             \/ \E r \in Readers, d \in Devices, k \in Keys : Collect(r, d, k)
             \/ UNCHANGED vars
      PROVE  /\ step[w] = "writing" /\ left' = left /\ before' = before
             /\ call'[w] = call[w] /\ metrics' = metrics
  BY <1>3, ExporterAssumption, ZenonT(60)
     DEF Handle, WriteOnline, Unlock, RLock, RUnlock, Collect, vars, TypeOK, LockOK
<1>4. CASE \E v \in Writers : Lock(v)
  <2>1. call[w].online = 0 => \A p \in Params \ left' : metrics[call[w].device][p] = Absent
    BY <1>1, <1>4
  <2> QED
    BY <1>1, <1>4, <2>1 DEF Result, Calls
<1>5. CASE \E v \in Writers, p \in Params : Write(v, p)
  <2>1. PICK p \in Params : \E v \in Writers : Write(v, p)
    BY <1>5
  <2>2. call[w].device \in Devices /\ Params \subseteq Keys /\ "online" \in Keys
    BY <1>2, <2>1 DEF Calls, Keys
  <2>3. /\ metrics'[call[w].device]["online"] = metrics[call[w].device]["online"]
        /\ \A q \in Params : metrics'[call[w].device][q] =
              IF q = p THEN IF call[w].online = 0 THEN Absent ELSE call[w].params[p]
              ELSE metrics[call[w].device][q]
    <3>1. metrics \in [Devices -> [Keys -> Values \cup {Absent, 0, 1}]]
      BY DEF TypeOK
    <3>2. metrics' = [metrics EXCEPT ![call[w].device][p] =
                         IF call[w].online = 0 THEN Absent ELSE call[w].params[p]]
      BY <1>2, <2>1
    <3>3. \A e \in Devices, q \in Keys :
              metrics'[e][q] = IF e = call[w].device /\ q = p
                               THEN IF call[w].online = 0 THEN Absent ELSE call[w].params[p]
                               ELSE metrics[e][q]
      BY <2>2, <3>1, <3>2, EntryChanged
    <3> QED
      BY <2>2, <3>3, ExporterAssumption
  <2>4. p \in left /\ step[w] = "writing" /\ left' = left \ {p}
    BY <1>2, <2>1
  <2>5. call[w].online # 0 => call[w].params[p] # Absent
    BY <2>4 DEF WriterOK
  <2>6. /\ call' = call /\ before' = before
        /\ metrics[call[w].device]["online"] = before["online"]
        /\ \A q \in Params : metrics[call[w].device][q] =
              IF q \in left THEN before[q] ELSE Result(call[w], before, q)
        /\ \A q \in left : call[w].online # 0 => call[w].params[q] # Absent
    BY <1>2, <2>1, <2>4 DEF WriterOK
  <2>7. Result(call[w], before, p) = IF call[w].online = 0 THEN Absent ELSE call[w].params[p]
    BY <2>5 DEF Result
  <2> QED
    BY <2>3, <2>4, <2>6, <2>7
<1> QED
  BY <1>3, <1>4, <1>5 DEF Next, WriterOK

\* While a Collect is under way nobody writes, so what was sent stays right.
LEMMA NextReaderOK == TypeOK /\ LockOK /\ ReaderOK /\ [Next]_vars => ReaderOK'
<1> SUFFICES ASSUME TypeOK, LockOK, ReaderOK, [Next]_vars PROVE ReaderOK'
  OBVIOUS
<1>1. ASSUME NEW w \in Writers, WriteOnline(w) \/ \E p \in Params : Write(w, p)
      PROVE  ReaderOK'
  <2>1. readers = {} /\ readers' = {} /\ sent' = sent
    BY <1>1, ExporterAssumption DEF WriteOnline, Write, LockOK, TypeOK
  <2> QED
    BY <2>1 DEF ReaderOK
<1>2. ASSUME NEW w \in Writers, Handle(w) \/ Lock(w) \/ Unlock(w) PROVE ReaderOK'
  <2>1. UNCHANGED <<metrics, readers, unread, sent>>
    BY <1>2 DEF Handle, Lock, Unlock
  <2> QED
    BY <2>1 DEF ReaderOK
<1>3. ASSUME NEW r \in Readers, RLock(r) PROVE ReaderOK'
  <2>1. /\ metrics' = metrics /\ sent' = sent /\ readers' = readers \cup {r} /\ r \notin readers
        /\ unread' = [unread EXCEPT ![r] = Present(metrics)]
    BY <1>3 DEF RLock
  <2>2. ASSUME NEW d \in Devices, NEW k \in Keys, <<d, k>> \notin unread'[r]
        PROVE  metrics[d][k] = Absent
    BY <2>1, <2>2 DEF Present, TypeOK
  <2> QED
    <3>1. \A q \in Readers : q # r => unread'[q] = unread[q]
      BY <2>1 DEF TypeOK
    <3> SUFFICES ASSUME NEW q \in Readers, NEW d \in Devices, NEW k \in Keys
                 PROVE  sent'[q][d][k] = IF q \in readers' /\ <<d, k>> \notin unread'[q]
                                         THEN metrics'[d][k] ELSE Absent
      BY DEF ReaderOK
    <3>2. sent[q][d][k] = IF q \in readers /\ <<d, k>> \notin unread[q]
                          THEN metrics[d][k] ELSE Absent
      BY Zenon DEF ReaderOK
    <3>3. CASE q = r
      BY <2>1, <2>2, <3>2, <3>3
    <3>4. CASE q # r
      BY <2>1, <3>1, <3>2, <3>4
    <3> QED
      BY <3>3, <3>4
<1>4. ASSUME NEW r \in Readers, NEW d \in Devices, NEW k \in Keys, Collect(r, d, k)
      PROVE  ReaderOK'
  <2>1. /\ metrics' = metrics /\ readers' = readers /\ r \in readers
        /\ sent' = [sent EXCEPT ![r][d][k] = metrics[d][k]]
        /\ unread' = [unread EXCEPT ![r] = @ \ {<<d, k>>}]
    BY <1>4 DEF Collect
  <2>2. ASSUME NEW q \in Readers, NEW e \in Devices, NEW j \in Keys
        PROVE  sent'[q][e][j] = IF q = r /\ e = d /\ j = k
                                THEN metrics[d][k] ELSE sent[q][e][j]
    <3>1. sent \in [Readers -> [Devices -> [Keys -> Values \cup {Absent, 0, 1}]]]
      BY DEF TypeOK
    <3> QED
      BY <2>1, <3>1, DeepEntryChanged
  <2>3. ASSUME NEW q \in Readers, NEW e \in Devices, NEW j \in Keys
        PROVE  <<e, j>> \in unread'[q] <=>
                   <<e, j>> \in unread[q] /\ ~(q = r /\ e = d /\ j = k)
    BY <2>1 DEF TypeOK
  <2> SUFFICES ASSUME NEW q \in Readers, NEW e \in Devices, NEW j \in Keys
               PROVE  sent'[q][e][j] = IF q \in readers' /\ <<e, j>> \notin unread'[q]
                                       THEN metrics'[e][j] ELSE Absent
    BY DEF ReaderOK
  <2>4. sent[q][e][j] = IF q \in readers /\ <<e, j>> \notin unread[q]
                        THEN metrics[e][j] ELSE Absent
    BY DEF ReaderOK
  <2>5. CASE q = r /\ e = d /\ j = k
    BY <2>1, <2>2, <2>3, <2>5
  <2>6. CASE ~(q = r /\ e = d /\ j = k)
    <3>1. sent'[q][e][j] = sent[q][e][j]
      BY <2>2, <2>6
    <3>2. <<e, j>> \in unread'[q] <=> <<e, j>> \in unread[q]
      BY <2>3, <2>6
    <3> QED
      BY <2>1, <2>4, <3>1, <3>2
  <2> QED
    BY <2>5, <2>6
<1>5. ASSUME NEW r \in Readers, RUnlock(r) PROVE ReaderOK'
  <2>1. /\ metrics' = metrics /\ readers' = readers \ {r} /\ unread' = unread
        /\ sent' = [sent EXCEPT ![r] = Nothing]
    BY <1>5 DEF RUnlock
  <2>2. \A d \in Devices, k \in Keys : Nothing[d][k] = Absent
    BY DEF Nothing, NoEntry
  <2> QED
    BY <2>1, <2>2, ZenonT(60) DEF ReaderOK, TypeOK
<1>6. CASE UNCHANGED vars
  BY <1>6 DEF vars, ReaderOK
<1> QED
  BY <1>1, <1>2, <1>3, <1>4, <1>5, <1>6 DEF Next

\* The strengthened invariant holds of every behaviour.
THEOREM StoreInvariant == Spec => []StoreInv
<1>1. StoreInv /\ [Next]_vars => StoreInv'
  BY NextTypeOK, NextLockOK, NextWriterOK, NextReaderOK DEF StoreInv
<1> QED
  BY <1>1, InitStoreInv, PTL DEF Spec

-----------------------------------------------------------------------------
\* The store as the abstract specification has it, one entry at a time.
LEMMA StoreEntries ==
    ASSUME StoreInv
    PROVE  /\ Store \in [Devices -> [Keys -> Values \cup {Absent, 0, 1}]]
           /\ writer # Nobody /\ step[writer] = "writing" =>
                 \A d \in Devices : Store[d] = IF d = call[writer].device
                                               THEN before ELSE metrics[d]
           /\ writer = Nobody \/ step[writer] # "writing" => Store = metrics
<1> USE DEF StoreInv, TypeOK
<1>1. CASE writer # Nobody /\ step[writer] = "writing"
  <2>1. call[writer].device \in Devices
    BY <1>1 DEF LockOK, Calls
  <2> QED
    BY <1>1, <2>1 DEF Store
<1>2. CASE ~(writer # Nobody /\ step[writer] = "writing")
  BY <1>2 DEF Store
<1> QED
  BY <1>1, <1>2

\* Handle changes the store when it sets `online`, and at no other step; a
\* scrape ends with RUnlock.
LEMMA OtherStepsHidden ==
    ASSUME StoreInv, StoreInv',
           \/ \E w \in Writers :
                 Handle(w) \/ Lock(w) \/ Unlock(w) \/ \E p \in Params : Write(w, p)
           \/ \E r \in Readers :
                 RLock(r) \/ \E d \in Devices, k \in Keys : Collect(r, d, k)
           \/ UNCHANGED vars
    PROVE  Store' = Store /\ scraped' = scraped
<1> USE ExporterAssumption DEF StoreInv, TypeOK, LockOK
<1>1. ASSUME NEW w \in Writers, Handle(w) PROVE Store' = Store /\ scraped' = scraped
  <2>1. writer # w
    BY <1>1 DEF Handle
  <2> QED
    BY <1>1, <2>1 DEF Handle, Store
<1>2. ASSUME NEW w \in Writers, Lock(w) PROVE Store' = Store /\ scraped' = scraped
  <2>1. Store = metrics
    BY <1>2 DEF Lock, Store
  <2>2. Store' = [metrics EXCEPT ![call[w].device] = metrics[call[w].device]]
    BY <1>2 DEF Lock, Store
  <2> QED
    BY <1>2, <2>1, <2>2 DEF Lock
<1>3. ASSUME NEW w \in Writers, Unlock(w) PROVE Store' = Store /\ scraped' = scraped
  BY <1>3 DEF Unlock, Store
<1>4. ASSUME NEW w \in Writers, NEW p \in Params, Write(w, p)
      PROVE  Store' = Store /\ scraped' = scraped
  <2>1. /\ writer = w /\ writer' = w /\ step[w] = "writing" /\ step' = step
        /\ call' = call /\ before' = before /\ scraped' = scraped
    BY <1>4 DEF Write
  <2>2. Store = [metrics EXCEPT ![call[w].device] = before]
    BY <2>1 DEF Store
  <2>3. Store' = [metrics' EXCEPT ![call[w].device] = before]
    BY <2>1 DEF Store
  <2>4. call[w].device \in Devices
    BY <2>1 DEF Calls
  <2>5. metrics' = [metrics EXCEPT ![call[w].device] = metrics'[call[w].device]]
    BY <1>4, <2>4 DEF Write
  <2> QED
    BY <2>1, <2>2, <2>3, <2>4, <2>5
<1>5. ASSUME NEW r \in Readers,
             RLock(r) \/ \E d \in Devices, k \in Keys : Collect(r, d, k)
      PROVE  Store' = Store /\ scraped' = scraped
  BY <1>5 DEF RLock, Collect, Store
<1>6. CASE UNCHANGED vars
  BY <1>6 DEF vars, Store
<1> QED
  BY <1>1, <1>2, <1>3, <1>4, <1>5, <1>6

\* Setting `online` completes an update, with what the loop did before it.
LEMMA WriteOnlineIsUpdate ==
    ASSUME StoreInv, StoreInv', NEW w \in Writers, WriteOnline(w)
    PROVE  /\ scraped' = scraped
           /\ \E d \in Devices : Abstract!Offline(d)
                                 \/ \E u \in Abstract!Updates : Abstract!Update(d, u)
<1> USE DEF StoreInv
<1> DEFINE d == call[w].device
           u == call[w].params
<1>1. /\ writer = w /\ writer' = w /\ step[w] = "writing" /\ step'[w] = "written"
      /\ left = {} /\ scraped' = scraped /\ w # Nobody
      /\ metrics' = [metrics EXCEPT ![d]["online"] = call[w].online]
  BY ExporterAssumption DEF WriteOnline, TypeOK, LockOK
<1>2. d \in Devices /\ u \in Abstract!Updates /\ call[w].online \in {0, 1}
  BY <1>1 DEF LockOK, Calls, Abstract!Updates
<1>3. Store' = metrics'
  BY <1>1 DEF Store
<1>4. \A e \in Devices : Store[e] = IF e = d THEN before ELSE metrics[e]
  BY <1>1, StoreEntries
<1>5. \A e \in Devices, k \in Keys :
         Store'[e][k] = IF e = d /\ k = "online" THEN call[w].online ELSE metrics[e][k]
  <2>1. metrics \in [Devices -> [Keys -> Values \cup {Absent, 0, 1}]] /\ "online" \in Keys
    BY DEF TypeOK, Keys
  <2> QED
    BY <1>1, <1>2, <1>3, <2>1, EntryChanged
<1>6. \A p \in Params : metrics[d][p] = Result(call[w], before, p)
  BY <1>1 DEF WriterOK
<1>7. /\ \A e \in Devices : Store'[e]["online"] = IF e = d THEN call[w].online
                                                  ELSE Store[e]["online"]
      /\ \A e \in Devices, p \in Params :
            Store'[e][p] = IF e = d THEN Result(call[w], Store[d], p) ELSE Store[e][p]
  BY <1>2, <1>4, <1>5, <1>6, ExporterAssumption DEF Keys
<1> HIDE DEF d, u
<1>8. CASE call[w].online = 0
  <2>1. Abstract!Offline(d)
    BY <1>2, <1>7, <1>8 DEF Abstract!Offline, Abstract!NoSeries, SeriesOf, OnlineOf, Result
  <2> QED
    BY <1>1, <1>2, <2>1
<1>9. CASE call[w].online = 1
  <2>1. Abstract!Update(d, u)
    <3>1. \A e \in Devices, p \in Params :
             Store'[e][p] = IF e = d THEN IF u[p] = Absent THEN Store[d][p] ELSE u[p]
                            ELSE Store[e][p]
      BY <1>7, <1>9 DEF Result, u
    <3>2. SeriesOf(Store') = [SeriesOf(Store) EXCEPT ![d] =
                                 Abstract!Overlay(SeriesOf(Store)[d], u)]
      BY <1>2, <3>1 DEF SeriesOf, Abstract!Overlay
    <3>3. OnlineOf(Store') = [OnlineOf(Store) EXCEPT ![d] = 1]
      BY <1>2, <1>7, <1>9 DEF OnlineOf
    <3> QED
      BY <3>2, <3>3 DEF Abstract!Update, SeriesOf, OnlineOf
  <2> QED
    BY <1>1, <1>2, <2>1
<1> QED
  BY <1>2, <1>8, <1>9

\* What Collect has sent when it unlocks is the store of that moment.
LEMMA RUnlockIsScrape ==
    ASSUME StoreInv, StoreInv', NEW r \in Readers, RUnlock(r)
    PROVE  Abstract!Scrape
<1> USE DEF StoreInv
<1>1. /\ writer = Nobody /\ UNCHANGED <<metrics, writer>> /\ scraped' = sent[r]
      /\ unread[r] = {} /\ r \in readers
  BY DEF RUnlock, LockOK
<1>2. Store = metrics /\ Store' = metrics
  BY <1>1 DEF Store
<1>3. \A d \in Devices, k \in Keys : sent[r][d][k] = metrics[d][k]
  BY <1>1 DEF ReaderOK
<1>4. SeriesOf(sent[r]) = SeriesOf(metrics) /\ OnlineOf(sent[r]) = OnlineOf(metrics)
  BY <1>3 DEF SeriesOf, OnlineOf, Keys
<1> QED
  BY <1>1, <1>2, <1>4 DEF Abstract!Scrape, Abstract!storeVars, SeriesOf, OnlineOf

\* Handle and Collect implement the atomic store: the initial states are its
\* initial states and every step is one of its steps or none (prometheus.go:84-149).
THEOREM StoreImplemented == Spec => ImplementsStore
<1>1. Init => Abstract!StoreInit
  BY DEF Init, Abstract!StoreInit, Abstract!NoSeries, Store, SeriesOf, OnlineOf,
     Nothing, NoEntry, Keys
<1>2. StoreInv /\ StoreInv' /\ [Next]_vars
      => [Abstract!StoreNext]_<<Abstract!storeVars,
                                [series |-> SeriesOf(scraped), online |-> OnlineOf(scraped)]>>
  <2> SUFFICES ASSUME StoreInv, StoreInv', [Next]_vars
               PROVE  Abstract!StoreNext \/ (Store' = Store /\ scraped' = scraped)
    BY DEF Abstract!storeVars, SeriesOf, OnlineOf
  <2>1. ASSUME NEW w \in Writers, WriteOnline(w) PROVE Abstract!StoreNext
    BY <2>1, WriteOnlineIsUpdate DEF Abstract!StoreNext, SeriesOf, OnlineOf
  <2>2. ASSUME NEW r \in Readers, RUnlock(r) PROVE Abstract!StoreNext
    BY <2>2, RUnlockIsScrape DEF Abstract!StoreNext
  <2> QED
    BY <2>1, <2>2, OtherStepsHidden DEF Next
<1> QED
  BY <1>1, <1>2, StoreInvariant, PTL DEF Spec, ImplementsStore, Abstract!StoreSpec

=============================================================================
