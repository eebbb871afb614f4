------------------------ MODULE MessagePipelineProofs -----------------------
(* What a scrape finds of a device is what its latest message left, for any *)
(* number of callback routines, devices, parameters and messages.           *)
(* A routine works on a clone of the state that later messages change, so   *)
(* the proof orders the clones: a clone is older than the cache, and a      *)
(* clone of an older message is older than one of a newer message.          *)
EXTENDS MessagePipeline, TLAPS

\* Every value of a is there in b, from the same or a newer message.
Below(a, b) == \A p \in Params : a[p] # Absent => b[p] # Absent /\ a[p] <= b[p]

\* The numbers: one per callback, none above the count.
NumbersOK ==
    /\ \A r \in Routines : handling[r] # NoDevice => merged[r] > 0
    /\ \A q, r \in Routines : merged[q] = merged[r] /\ merged[r] > 0 => q = r
    /\ \A d \in Devices, p \in Params :
          deviceState[d][p] # Absent => deviceState[d][p] <= messages

\* Of the clones of a device the one of the newest message has the most, and
\* the cache has at least that.
ClonesOrdered ==
    \A r \in Routines :
        handling[r] # NoDevice =>
            /\ Below(fullState[r], deviceState[handling[r]])
            /\ \A q \in Routines :
                  handling[q] = handling[r] /\ merged[q] <= merged[r]
                  => Below(fullState[q], fullState[r])

\* What is exposed comes from the cache, and has nothing that a clone of a newer
\* message lacks.
SeriesBehind ==
    \A d \in Devices :
        /\ Below(series[d], deviceState[d])
        /\ \A r \in Routines :
              handling[r] = d /\ shown[d] <= merged[r] => Below(series[d], fullState[r])

\* No routine of the device has a message newer than r's, or than those shown.
Newest(r) ==
    /\ shown[handling[r]] <= merged[r]
    /\ \A q \in Routines : handling[q] = handling[r] => merged[q] <= merged[r]
NoNewer(d) == \A r \in Routines : handling[r] = d => merged[r] < shown[d]

\* The newest clone is the cache; once it is dispatched, what is exposed is, but
\* for an update of an older message that comes after it.
NewestIsCache ==
    /\ \A r \in Routines :
          handling[r] # NoDevice /\ Newest(r) => fullState[r] = deviceState[handling[r]]
    /\ \A d \in Devices :
          NoNewer(d) /\ online[d] = 1 => d \in overtaken \/ series[d] = deviceState[d]

PipelineInv ==
    /\ PipelineTypeOK
    /\ NumbersOK
    /\ ClonesOrdered
    /\ SeriesBehind
    /\ NewestIsCache

-----------------------------------------------------------------------------
\* A state is not newer than itself.
LEMMA BelowItself ==
    ASSUME NEW a \in Updates PROVE Below(a, a)
  BY PipelineAssumption DEF Below, Updates

\* Nor than one that is not older than a third.
LEMMA BelowTransitive ==
    ASSUME NEW a \in Updates, NEW b \in Updates, NEW c \in Updates,
           Below(a, b), Below(b, c)
    PROVE  Below(a, c)
  BY PipelineAssumption DEF Below, Updates

\* An update merged into a state is no newer than both.
LEMMA BelowOverlay ==
    ASSUME NEW a \in Updates, NEW b \in Updates, NEW c \in Updates,
           Below(a, c), Below(b, c)
    PROVE  Below(Overlay(a, b), c)
  BY DEF Below, Updates, Overlay

\* Merging updates yields one (maps.Copy, mqtt_exporter.go:343).
LEMMA OverlayType ==
    ASSUME NEW a \in Updates, NEW b \in Updates PROVE Overlay(a, b) \in Updates
  BY DEF Updates, Overlay

\* What an update adds to an older state is the update, when it has everything
\* that the older state has.
LEMMA OverlayOfOlder ==
    ASSUME NEW a \in Updates, NEW b \in Updates, Below(a, b)
    PROVE  Overlay(a, b) = b
  BY DEF Below, Updates, Overlay

\* A message makes the cache of its device newer, and no other.
LEMMA MergeFacts ==
    ASSUME PipelineTypeOK, NumbersOK,
           NEW r \in Routines, NEW d \in Devices, NEW present \in SUBSET Params,
           Merge(r, d, present)
    PROVE  /\ messages' = messages + 1 /\ messages + 1 \in Values
           /\ deviceState' \in [Devices -> Updates]
           /\ \A e \in Devices : e # d => deviceState'[e] = deviceState[e]
           /\ Below(deviceState[d], deviceState'[d])
           /\ \A p \in Params : deviceState'[d][p] # Absent
                                => deviceState'[d][p] <= messages + 1
           /\ fullState' = [fullState EXCEPT ![r] = deviceState'[d]]
           /\ handling' = [handling EXCEPT ![r] = d]
           /\ merged' = [merged EXCEPT ![r] = messages + 1]
           /\ UNCHANGED <<series, online, scraped, shown, overtaken>>
<1> USE PipelineAssumption
<1>1. /\ messages' = messages + 1 /\ messages + 1 \in Values
      /\ deviceState' = [deviceState EXCEPT ![d] =
                            Overlay(deviceState[d], Message(present))]
      /\ fullState' = [fullState EXCEPT ![r] = deviceState'[d]]
      /\ handling' = [handling EXCEPT ![r] = d]
      /\ merged' = [merged EXCEPT ![r] = messages + 1]
      /\ UNCHANGED <<series, online, scraped, shown, overtaken>>
  BY DEF Merge, PipelineTypeOK, storeVars
<1>2. Message(present) \in Updates
  BY <1>1 DEF Message, Updates
<1>3. deviceState[d] \in Updates /\ deviceState \in [Devices -> Updates]
  BY DEF PipelineTypeOK
<1>4. \A p \in Params : deviceState[d][p] # Absent => deviceState[d][p] <= messages
  BY DEF NumbersOK
<1>5. deviceState'[d] = Overlay(deviceState[d], Message(present))
  BY <1>1, <1>3
<1>6. \A p \in Params : deviceState[d][p] # Absent => deviceState[d][p] \in Nat
  BY <1>3 DEF Updates
<1>7. \A p \in Params : deviceState'[d][p] = deviceState[d][p]
                        \/ deviceState'[d][p] = messages + 1
  BY <1>5 DEF Overlay, Message
<1>8. messages \in Nat /\ messages + 1 # Absent
  BY <1>1, StoreAssumption DEF PipelineTypeOK
<1>9. Below(deviceState[d], deviceState'[d])
  BY <1>4, <1>6, <1>7, <1>8 DEF Below
<1>10. \A p \in Params : deviceState'[d][p] # Absent
                         => deviceState'[d][p] <= messages + 1
  BY <1>4, <1>6, <1>7, <1>8
<1>11. deviceState' \in [Devices -> Updates]
  BY <1>1, <1>2, <1>3, OverlayType
<1> QED
  BY <1>1, <1>3, <1>9, <1>10, <1>11

\* A dispatch hands the routine's clone to the store and ends the callback.
LEMMA DispatchFacts ==
    ASSUME PipelineTypeOK, NumbersOK, NEW r \in Routines, Dispatch(r)
    PROVE  LET d == handling[r]
           IN /\ d \in Devices /\ d # NoDevice /\ fullState[r] \in Updates
              /\ merged[r] \in 1 .. messages
              /\ series' = [series EXCEPT ![d] = Overlay(series[d], fullState[r])]
              /\ series'[d] = Overlay(series[d], fullState[r])
              /\ online' = [online EXCEPT ![d] = 1]
              /\ handling' = [handling EXCEPT ![r] = NoDevice]
              /\ fullState' = [fullState EXCEPT ![r] = NoSeries]
              /\ merged' = [merged EXCEPT ![r] = 0]
              /\ shown' = [shown EXCEPT ![d] = IF merged[r] < shown[d]
                                               THEN shown[d] ELSE merged[r]]
              /\ overtaken' = IF merged[r] < shown[d]
                              THEN overtaken \cup {d} ELSE overtaken \ {d}
              /\ UNCHANGED <<scraped, deviceState, messages>>
<1>1. handling[r] \in Devices /\ handling[r] # NoDevice /\ fullState[r] \in Updates
  BY DEF Dispatch, PipelineTypeOK
<1>2. merged[r] \in 1 .. messages
  BY <1>1, PipelineAssumption DEF PipelineTypeOK, NumbersOK
<1> QED
  BY <1>1, <1>2 DEF Dispatch, Update, PipelineTypeOK, StoreTypeOK

\* The other steps leave the caches and the callbacks alone.
LEMMA OtherFacts ==
    ASSUME \/ \E d \in Devices : DispatchOffline(d)
           \/ Scrape /\ UNCHANGED pipeVars
           \/ UNCHANGED vars
    PROVE  /\ UNCHANGED pipeVars
           /\ UNCHANGED storeVars \/ \E d \in Devices : Offline(d)
  BY DEF DispatchOffline, Scrape, vars, pipeVars

-----------------------------------------------------------------------------
\* Nothing was received, nothing is shown.
LEMMA InitPipelineInv == PipelineInit => PipelineInv
<1> SUFFICES ASSUME PipelineInit PROVE PipelineInv
  OBVIOUS
<1> USE PipelineAssumption, StoreAssumption DEF PipelineInit, StoreInit, NoSeries
<1>1. PipelineTypeOK
  BY DEF PipelineTypeOK, StoreTypeOK, Updates
<1>2. NumbersOK /\ ClonesOrdered
  BY DEF NumbersOK, ClonesOrdered
<1>3. SeriesBehind
  BY DEF SeriesBehind, Below
<1>4. NewestIsCache
  BY DEF NewestIsCache
<1> QED
  BY <1>1, <1>2, <1>3, <1>4 DEF PipelineInv

\* Every step keeps the variables in their sets.
LEMMA NextPipelineTypeOK ==
    PipelineTypeOK /\ NumbersOK /\ [PipelineNext]_vars => PipelineTypeOK'
<1> SUFFICES ASSUME PipelineTypeOK, NumbersOK, [PipelineNext]_vars
             PROVE  PipelineTypeOK'
  OBVIOUS
<1>1. ASSUME NEW r \in Routines, NEW d \in Devices, NEW present \in SUBSET Params,
             Merge(r, d, present)
      PROVE  PipelineTypeOK'
  <2>1. StoreTypeOK'
    BY <1>1, MergeFacts DEF PipelineTypeOK, StoreTypeOK
  <2>2. /\ messages' \in 0 .. MaxMessages
        /\ messages \in Nat /\ messages' = messages + 1
    <3>1. messages \in 0 .. MaxMessages
      BY DEF PipelineTypeOK
    <3> QED
      BY <1>1, <3>1, MergeFacts, PipelineAssumption
  <2>3. /\ merged' \in [Routines -> 0 .. messages']
        /\ shown' \in [Devices -> 0 .. messages']
    BY <1>1, <2>2, MergeFacts DEF PipelineTypeOK
  <2>4. /\ deviceState' \in [Devices -> Updates]
        /\ handling' \in [Routines -> Devices \cup {NoDevice}]
        /\ fullState' \in [Routines -> Updates]
        /\ overtaken' \subseteq Devices
    BY <1>1, MergeFacts DEF PipelineTypeOK
  <2> QED
    BY <2>1, <2>2, <2>3, <2>4 DEF PipelineTypeOK
<1>2. ASSUME NEW r \in Routines, Dispatch(r) PROVE PipelineTypeOK'
  <2>1. Overlay(series[handling[r]], fullState[r]) \in Updates /\ NoSeries \in Updates
    <3>1. series \in [Devices -> Updates] /\ NoSeries \in Updates
      BY DEF PipelineTypeOK, StoreTypeOK, NoSeries, Updates
    <3> QED
      BY <1>2, <3>1, DispatchFacts, OverlayType
  <2>2. StoreTypeOK'
    BY <1>2, <2>1, DispatchFacts DEF PipelineTypeOK, StoreTypeOK
  <2>3. /\ merged' \in [Routines -> 0 .. messages']
        /\ shown' \in [Devices -> 0 .. messages']
        /\ messages' \in 0 .. MaxMessages
    <3>1. /\ merged \in [Routines -> 0 .. messages]
          /\ shown \in [Devices -> 0 .. messages]
          /\ messages \in 0 .. MaxMessages
      BY DEF PipelineTypeOK
    <3> QED
      <4>1. /\ messages' = messages /\ merged' = [merged EXCEPT ![r] = 0]
            /\ merged[r] \in 0 .. messages
            /\ \E m \in 0 .. messages, d \in Devices : shown' = [shown EXCEPT ![d] = m]
        BY <1>2, <3>1, DispatchFacts
      <4>2. 0 \in 0 .. messages
        BY <3>1, PipelineAssumption
      <4> QED
        BY <3>1, <4>1, <4>2
  <2>4. /\ deviceState' \in [Devices -> Updates]
        /\ handling' \in [Routines -> Devices \cup {NoDevice}]
        /\ fullState' \in [Routines -> Updates]
        /\ overtaken' \subseteq Devices
    BY <1>2, <2>1, DispatchFacts DEF PipelineTypeOK
  <2> QED
    BY <2>2, <2>3, <2>4 DEF PipelineTypeOK
<1>3. CASE \/ \E d \in Devices : DispatchOffline(d)
           \/ Scrape /\ UNCHANGED pipeVars
           \/ UNCHANGED vars
  <2>1. StoreTypeOK'
    <3>1. NoSeries \in Updates
      BY DEF NoSeries, Updates
    <3> QED
      BY <1>3, <3>1 DEF DispatchOffline, Offline, Scrape, vars, storeVars,
         PipelineTypeOK, StoreTypeOK
  <2> QED
    BY <1>3, <2>1, OtherFacts DEF pipeVars, PipelineTypeOK
<1> QED
  BY <1>1, <1>2, <1>3 DEF PipelineNext

\* No number exceeds that of the latest message.
LEMMA NextNumbersOK == PipelineTypeOK /\ NumbersOK /\ [PipelineNext]_vars => NumbersOK'
<1> SUFFICES ASSUME PipelineTypeOK, NumbersOK, [PipelineNext]_vars PROVE NumbersOK'
  OBVIOUS
<1>1. ASSUME NEW r \in Routines, NEW d \in Devices, NEW present \in SUBSET Params,
             Merge(r, d, present)
      PROVE  NumbersOK'
  <2>1. \A e \in Devices, p \in Params :
           deviceState'[e][p] # Absent => deviceState'[e][p] <= messages'
    <3> SUFFICES ASSUME NEW e \in Devices, NEW p \in Params, deviceState'[e][p] # Absent
                 PROVE  deviceState'[e][p] <= messages'
      OBVIOUS
    <3>1. CASE e = d
      BY <1>1, <3>1, MergeFacts
    <3>2. CASE e # d
      <4>1. deviceState[e][p] # Absent /\ deviceState'[e][p] = deviceState[e][p]
        BY <1>1, <3>2, MergeFacts
      <4>2. deviceState[e][p] \in Nat /\ messages \in Nat
        BY <4>1, PipelineAssumption DEF PipelineTypeOK, Updates
      <4> QED
        BY <1>1, <4>1, <4>2, MergeFacts DEF NumbersOK
    <3> QED
      BY <3>1, <3>2
  <2>2. messages \in Nat /\ merged \in [Routines -> 0 .. messages]
    BY PipelineAssumption DEF PipelineTypeOK
  <2> QED
    BY <1>1, <2>1, <2>2, MergeFacts, SMTT(30) DEF NumbersOK, PipelineTypeOK
<1>2. ASSUME NEW r \in Routines, Dispatch(r) PROVE NumbersOK'
  BY <1>2, DispatchFacts DEF NumbersOK, PipelineTypeOK
<1>3. CASE UNCHANGED pipeVars
  BY <1>3 DEF pipeVars, NumbersOK
<1> QED
  BY <1>1, <1>2, <1>3, OtherFacts DEF PipelineNext

\* Every step keeps a clone as old as its number says.
LEMMA NextClonesOrdered ==
    /\ PipelineTypeOK /\ NumbersOK /\ ClonesOrdered /\ [PipelineNext]_vars
    => ClonesOrdered'
<1> SUFFICES ASSUME PipelineTypeOK, NumbersOK, ClonesOrdered, [PipelineNext]_vars
             PROVE  ClonesOrdered'
  OBVIOUS
<1>1. ASSUME NEW s \in Routines, NEW d \in Devices, NEW present \in SUBSET Params,
             Merge(s, d, present)
      PROVE  ClonesOrdered'
  <2> SUFFICES ASSUME NEW r \in Routines, handling'[r] # NoDevice
               PROVE  /\ Below(fullState'[r], deviceState'[handling'[r]])
                      /\ \A q \in Routines :
                            handling'[q] = handling'[r] /\ merged'[q] <= merged'[r]
                            => Below(fullState'[q], fullState'[r])
    BY DEF ClonesOrdered, Below
  <2>1. ASSUME NEW q \in Routines, q # s, handling[q] = d
        PROVE  Below(fullState[q], deviceState'[d])
    <3>1. Below(fullState[q], deviceState[d]) /\ Below(deviceState[d], deviceState'[d])
      BY <1>1, <2>1, MergeFacts, PipelineAssumption DEF ClonesOrdered
    <3>2. /\ fullState[q] \in Updates /\ deviceState[d] \in Updates
          /\ deviceState'[d] \in Updates
      BY <1>1, MergeFacts DEF PipelineTypeOK
    <3> QED
      BY <3>1, <3>2, BelowTransitive
  <2>2. Below(deviceState'[d], deviceState'[d])
    BY <1>1, MergeFacts, BelowItself
  <2>3. /\ s \in Routines /\ handling'[s] = d /\ fullState'[s] = deviceState'[d]
        /\ merged'[s] = messages + 1
        /\ \A q \in Routines : q # s =>
              handling'[q] = handling[q] /\ fullState'[q] = fullState[q]
              /\ merged'[q] = merged[q] /\ merged[q] \in 0 .. messages
        /\ \A e \in Devices : e # d => deviceState'[e] = deviceState[e]
        /\ messages \in Nat
    BY <1>1, MergeFacts, PipelineAssumption DEF PipelineTypeOK
  <2>4. CASE r = s
    BY <2>1, <2>2, <2>3, <2>4
  <2>5. CASE r # s
    <3>1. Below(fullState'[r], deviceState'[handling'[r]])
      BY <2>1, <2>3, <2>5 DEF ClonesOrdered, PipelineTypeOK
    <3>2. \A q \in Routines : merged'[q] <= merged'[r] => q # s
      BY <2>3, <2>5
    <3> QED
      BY <2>3, <2>5, <3>1, <3>2 DEF ClonesOrdered
  <2> QED
    BY <2>4, <2>5
<1>2. ASSUME NEW s \in Routines, Dispatch(s) PROVE ClonesOrdered'
  <2>1. /\ deviceState' = deviceState /\ handling'[s] = NoDevice
        /\ \A q \in Routines : q # s =>
              handling'[q] = handling[q] /\ fullState'[q] = fullState[q]
              /\ merged'[q] = merged[q]
    BY <1>2, DispatchFacts DEF PipelineTypeOK
  <2> QED
    BY <2>1 DEF ClonesOrdered, Below
<1>3. CASE UNCHANGED pipeVars
  BY <1>3 DEF pipeVars, ClonesOrdered, Below
<1> QED
  BY <1>1, <1>2, <1>3, OtherFacts DEF PipelineNext

\* An offline update removes the series, so that nothing is left to compare.
LEMMA OfflineFacts ==
    ASSUME PipelineTypeOK, NEW d \in Devices, NEW e \in Devices, Offline(e)
    PROVE  \/ series'[d] = series[d] /\ online'[d] = online[d]
           \/ series'[d] = NoSeries /\ online'[d] = 0
  BY DEF Offline, PipelineTypeOK, StoreTypeOK

\* What is exposed is no newer than the cache, whatever the steps.
LEMMA NextSeriesBehind ==
    /\ PipelineTypeOK /\ NumbersOK /\ ClonesOrdered /\ SeriesBehind
    /\ [PipelineNext]_vars
    => SeriesBehind'
<1> SUFFICES ASSUME PipelineTypeOK, NumbersOK, ClonesOrdered, SeriesBehind,
                    [PipelineNext]_vars, NEW d \in Devices
             PROVE  /\ Below(series'[d], deviceState'[d])
                    /\ \A r \in Routines :
                          handling'[r] = d /\ shown'[d] <= merged'[r]
                          => Below(series'[d], fullState'[r])
  BY DEF SeriesBehind, Below
<1>1. /\ series[d] \in Updates /\ deviceState[d] \in Updates
      /\ \A r \in Routines : fullState[r] \in Updates
      /\ d # NoDevice
  BY PipelineAssumption DEF PipelineTypeOK, StoreTypeOK
<1>2. ASSUME NEW s \in Routines, NEW e \in Devices, NEW present \in SUBSET Params,
             Merge(s, e, present)
      PROVE  /\ Below(series'[d], deviceState'[d])
             /\ \A r \in Routines : handling'[r] = d /\ shown'[d] <= merged'[r]
                                    => Below(series'[d], fullState'[r])
  <2>1. Below(series[d], deviceState'[d])
    <3>1. CASE e = d
      <4>1. Below(deviceState[d], deviceState'[d]) /\ deviceState'[d] \in Updates
        BY <1>2, <3>1, MergeFacts
      <4>2. Below(series[d], deviceState[d])
        BY DEF SeriesBehind
      <4> QED
        BY <1>1, <4>1, <4>2, BelowTransitive
    <3>2. CASE e # d
      BY <1>2, <3>2, MergeFacts DEF SeriesBehind
    <3> QED
      BY <3>1, <3>2
  <2>2. /\ series' = series /\ shown' = shown
        /\ handling'[s] = e /\ fullState'[s] = deviceState'[e]
        /\ \A r \in Routines : r # s =>
              handling'[r] = handling[r] /\ fullState'[r] = fullState[r]
              /\ merged'[r] = merged[r]
    BY <1>2, MergeFacts DEF PipelineTypeOK
  <2> QED
    BY <2>1, <2>2 DEF SeriesBehind
<1>3. ASSUME NEW s \in Routines, Dispatch(s)
      PROVE  /\ Below(series'[d], deviceState'[d])
             /\ \A r \in Routines : handling'[r] = d /\ shown'[d] <= merged'[r]
                                    => Below(series'[d], fullState'[r])
  <2>1. /\ deviceState' = deviceState /\ handling'[s] = NoDevice
        /\ merged[s] \in Nat /\ shown[d] \in Nat /\ handling[s] # NoDevice
        /\ \A r \in Routines : r # s =>
              handling'[r] = handling[r] /\ fullState'[r] = fullState[r]
              /\ merged'[r] = merged[r] /\ merged[r] \in Nat
    BY <1>3, DispatchFacts, PipelineAssumption DEF PipelineTypeOK
  <2>2. CASE handling[s] # d
    <3>1. series'[d] = series[d] /\ shown'[d] = shown[d]
      BY <1>3, <2>2, DispatchFacts DEF PipelineTypeOK, StoreTypeOK
    <3> QED
      BY <1>1, <2>1, <3>1 DEF SeriesBehind
  <2>3. CASE handling[s] = d
    <3>1. /\ series'[d] = Overlay(series[d], fullState[s])
          /\ shown'[d] = IF merged[s] < shown[d] THEN shown[d] ELSE merged[s]
      BY <1>3, <2>3, DispatchFacts DEF PipelineTypeOK
    <3>2. Below(series'[d], deviceState'[d])
      BY <1>1, <2>1, <2>3, <3>1, BelowOverlay DEF SeriesBehind, ClonesOrdered
    <3>3. ASSUME NEW r \in Routines, handling'[r] = d, shown'[d] <= merged'[r]
          PROVE  Below(series'[d], fullState'[r])
      <4>1. /\ r # s /\ handling[r] = d /\ fullState'[r] = fullState[r]
            /\ shown[d] <= merged[r] /\ merged[s] <= merged[r]
        BY <1>1, <2>1, <3>1, <3>3
      <4>2. Below(series[d], fullState[r])
        BY <4>1 DEF SeriesBehind
      <4>3. Below(fullState[s], fullState[r])
        BY <1>1, <2>3, <4>1 DEF ClonesOrdered
      <4> QED
        BY <1>1, <3>1, <4>1, <4>2, <4>3, BelowOverlay
    <3> QED
      BY <3>2, <3>3
  <2> QED
    BY <2>2, <2>3
<1>4. CASE UNCHANGED pipeVars /\ (UNCHANGED storeVars \/ \E e \in Devices : Offline(e))
  <2>1. series'[d] = series[d] \/ series'[d] = NoSeries
    BY <1>4, OfflineFacts DEF storeVars
  <2>2. \A a : Below(NoSeries, a)
    BY DEF Below, NoSeries
  <2> QED
    BY <1>4, <2>1, <2>2 DEF SeriesBehind, pipeVars
<1> QED
  BY <1>2, <1>3, <1>4, OtherFacts DEF PipelineNext

\* The newest clone of a device is what the cache holds of it.
LEMMA NextNewestIsCache ==
    /\ PipelineTypeOK /\ NumbersOK /\ ClonesOrdered /\ SeriesBehind
    /\ NewestIsCache /\ [PipelineNext]_vars
    => NewestIsCache'
<1> SUFFICES ASSUME PipelineTypeOK, NumbersOK, ClonesOrdered, SeriesBehind,
                    NewestIsCache, [PipelineNext]_vars
             PROVE  NewestIsCache'
  OBVIOUS
<1>1. /\ \A r \in Routines : merged[r] \in Nat /\ merged[r] <= messages
      /\ \A d \in Devices : shown[d] \in Nat /\ shown[d] <= messages
      /\ messages \in Nat /\ NoDevice \notin Devices
      /\ \A r \in Routines : handling[r] \in Devices \cup {NoDevice}
      /\ \A r \in Routines : handling[r] # NoDevice => merged[r] > 0
  BY PipelineAssumption DEF PipelineTypeOK, NumbersOK
<1>2. ASSUME NEW s \in Routines, NEW e \in Devices, NEW present \in SUBSET Params,
             Merge(s, e, present)
      PROVE  NewestIsCache'
  <2>1. /\ UNCHANGED <<series, online, shown, overtaken>>
        /\ handling'[s] = e /\ fullState'[s] = deviceState'[e]
        /\ merged'[s] = messages + 1
        /\ \A r \in Routines : r # s =>
              handling'[r] = handling[r] /\ fullState'[r] = fullState[r]
              /\ merged'[r] = merged[r]
        /\ \A d \in Devices : d # e => deviceState'[d] = deviceState[d]
        /\ handling[s] = NoDevice
    BY <1>2, MergeFacts, ZenonT(60) DEF Merge, PipelineTypeOK
  <2>2. ASSUME NEW r \in Routines, handling'[r] # NoDevice, Newest(r)'
        PROVE  fullState'[r] = deviceState'[handling'[r]]
    <3>1. CASE r = s
      BY <2>1, <3>1
    <3>2. CASE r # s
      <4>1. merged'[s] > merged'[r]
        BY <1>1, <2>1, <3>2
      <4>2. handling[r] # e
        BY <1>1, <2>1, <2>2, <3>2, <4>1 DEF Newest
      <4>3. Newest(r)
        BY <1>1, <2>1, <2>2, <3>2 DEF Newest
      <4> QED
        BY <1>1, <2>1, <2>2, <3>2, <4>2, <4>3 DEF NewestIsCache
    <3> QED
      BY <3>1, <3>2
  <2>3. ASSUME NEW d \in Devices, NoNewer(d)', online'[d] = 1
        PROVE  d \in overtaken' \/ series'[d] = deviceState'[d]
    <3>1. d # e
      BY <1>1, <2>1, <2>3 DEF NoNewer
    <3>2. NoNewer(d)
      BY <1>1, <2>1, <2>3 DEF NoNewer
    <3> QED
      BY <2>1, <2>3, <3>1, <3>2 DEF NewestIsCache
  <2> QED
    BY <2>2, <2>3 DEF NewestIsCache
<1>3. ASSUME NEW s \in Routines, Dispatch(s) PROVE NewestIsCache'
  <2> DEFINE d == handling[s]
  <2>1. /\ d \in Devices /\ d # NoDevice /\ deviceState' = deviceState
        /\ handling'[s] = NoDevice
        /\ \A r \in Routines : r # s =>
              handling'[r] = handling[r] /\ fullState'[r] = fullState[r]
              /\ merged'[r] = merged[r]
        /\ shown'[d] = IF merged[s] < shown[d] THEN shown[d] ELSE merged[s]
        /\ series'[d] = Overlay(series[d], fullState[s])
        /\ overtaken' = IF merged[s] < shown[d] THEN overtaken \cup {d} ELSE overtaken \ {d}
        /\ \A c \in Devices : c # d => shown'[c] = shown[c] /\ series'[c] = series[c]
                                       /\ online'[c] = online[c]
    BY <1>3, DispatchFacts DEF PipelineTypeOK, StoreTypeOK
  <2>2. \A r \in Routines : r # s /\ merged[r] > 0 => merged[r] # merged[s]
    BY DEF NumbersOK
  <2> HIDE DEF d
  <2>3. ASSUME NEW r \in Routines, handling'[r] # NoDevice, Newest(r)'
        PROVE  fullState'[r] = deviceState'[handling'[r]]
    <3>1. r # s /\ handling[r] # NoDevice
      BY <2>1, <2>3
    <3>2. handling[r] = d => merged[s] <= merged[r] /\ shown[d] <= merged[r]
      BY <1>1, <2>1, <2>3, <3>1 DEF Newest
    <3>3. Newest(r)
      BY <1>1, <2>1, <2>3, <3>1, <3>2 DEF Newest, d
    <3> QED
      BY <2>1, <3>1, <3>3 DEF NewestIsCache
  <2>4. ASSUME NEW c \in Devices, NoNewer(c)', online'[c] = 1
        PROVE  c \in overtaken' \/ series'[c] = deviceState'[c]
    <3>1. CASE c # d
      <4>1. NoNewer(c)
        BY <1>1, <2>1, <2>4, <3>1 DEF NoNewer, d
      <4> QED
        BY <2>1, <2>4, <3>1, <4>1 DEF NewestIsCache
    <3>2. CASE c = d /\ merged[s] < shown[d]
      BY <2>1, <3>2
    <3>3. CASE c = d /\ ~(merged[s] < shown[d])
      <4>1. \A r \in Routines : handling[r] = d => merged[r] <= merged[s]
        BY <1>1, <2>1, <2>4, <3>3 DEF NoNewer
      <4>2. Newest(s)
        BY <1>1, <2>1, <3>3, <4>1 DEF Newest, d
      <4>3. fullState[s] = deviceState[d]
        BY <2>1, <4>2 DEF NewestIsCache, d
      <4>4. series[d] \in Updates /\ deviceState[d] \in Updates /\ Below(series[d], deviceState[d])
        BY <2>1 DEF PipelineTypeOK, StoreTypeOK, SeriesBehind
      <4> QED
        BY <2>1, <3>3, <4>3, <4>4, OverlayOfOlder
    <3> QED
      BY <3>1, <3>2, <3>3
  <2> QED
    BY <2>3, <2>4 DEF NewestIsCache
<1>4. CASE UNCHANGED pipeVars /\ (UNCHANGED storeVars \/ \E e \in Devices : Offline(e))
  <2>1. \A d \in Devices : online'[d] = 1 => online[d] = 1 /\ series'[d] = series[d]
    BY <1>4, OfflineFacts DEF storeVars
  <2> QED
    BY <1>4, <2>1 DEF NewestIsCache, Newest, NoNewer, pipeVars
<1> QED
  BY <1>2, <1>3, <1>4, OtherFacts DEF PipelineNext

-----------------------------------------------------------------------------
\* The invariant of the pipeline, for any number of routines.
LEMMA PipelineInvariant == PipelineSpec => []PipelineInv
<1>1. PipelineInv /\ [PipelineNext]_vars => PipelineInv'
  BY NextPipelineTypeOK, NextNumbersOK, NextClonesOrdered, NextSeriesBehind,
     NextNewestIsCache DEF PipelineInv
<1> QED
  BY <1>1, InitPipelineInv, PTL DEF PipelineSpec

\* When no callback of a device is running, its exposed values are those of the
\* cache, unless an older update was the last to be dispatched
\* (mqtt_exporter.go:335-361).
THEOREM ShownIsLatestHolds == PipelineSpec => []ShownIsLatest
<1>1. PipelineInv => ShownIsLatest
  BY DEF PipelineInv, NewestIsCache, NoNewer, ShownIsLatest
<1> QED
  BY <1>1, PipelineInvariant, PTL

\* No step takes an exposed value back to an older message, but for an update
\* that a newer one overtook (mqtt_exporter.go:335-361).
THEOREM ValuesAdvanceHolds == PipelineSpec => ValuesAdvance
<1>1. ASSUME PipelineInv, [PipelineNext]_vars, NEW d \in Devices, NEW p \in Params,
             series[d][p] # Absent, series'[d][p] # Absent
      PROVE  series'[d][p] >= series[d][p] \/ d \in overtaken'
  <2> USE DEF PipelineInv
  <2>1. series[d] \in Updates /\ series[d][p] \in Nat
    BY <1>1, PipelineAssumption DEF PipelineTypeOK, StoreTypeOK, Updates
  <2>2. CASE series'[d] = series[d]
    BY <2>1, <2>2
  <2>3. CASE \E e \in Devices : Offline(e)
    BY <1>1, <2>1, <2>3, OfflineFacts DEF NoSeries
  <2>4. ASSUME NEW s \in Routines, Dispatch(s), series'[d] # series[d]
        PROVE  series'[d][p] >= series[d][p] \/ d \in overtaken'
    <3>1. handling[s] = d
      BY <1>1, <2>4, DispatchFacts DEF PipelineTypeOK, StoreTypeOK
    <3>2. /\ series'[d] = Overlay(series[d], fullState[s]) /\ fullState[s] \in Updates
          /\ merged[s] < shown[d] => d \in overtaken'
          /\ merged[s] \in Nat /\ shown[d] \in Nat
      BY <1>1, <2>4, <3>1, DispatchFacts, PipelineAssumption DEF PipelineTypeOK
    <3>3. ~(merged[s] < shown[d]) => Below(series[d], fullState[s])
      BY <1>1, <3>1, <3>2 DEF SeriesBehind
    <3> QED
      BY <1>1, <2>1, <3>2, <3>3 DEF Overlay, Below
  <2>5. ASSUME NEW s \in Routines, NEW e \in Devices, NEW present \in SUBSET Params,
               Merge(s, e, present)
        PROVE  series' = series
    BY <1>1, <2>5, MergeFacts
  <2> QED
    BY <1>1, <2>2, <2>3, <2>4, <2>5, OtherFacts DEF PipelineNext, storeVars
<1>2. PipelineInv /\ [PipelineNext]_vars
      => [\A d \in Devices, p \in Params :
            series[d][p] # Absent /\ series'[d][p] # Absent =>
                series'[d][p] >= series[d][p] \/ d \in overtaken']_vars
  BY <1>1
<1> QED
  BY <1>2, PipelineInvariant, PTL DEF PipelineSpec, ValuesAdvance

=============================================================================
