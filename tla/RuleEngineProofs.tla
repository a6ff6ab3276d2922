--------------------------- MODULE RuleEngineProofs ---------------------------
(***************************************************************************)
(* Theorems about the rule engine, for any workloads, rules, duration and  *)
(* window: the three records of an alert (tracker, active list, events)    *)
(* agree, and an alert waits for its duration.                             *)
(***************************************************************************)
EXTENDS RuleEngine, TLAPS

\* A tracker is no older than the last evaluation that saw its metric below.
TrackersAreYounger == \A k \in DOMAIN track : track[k].since <= below[k]

Tracker == [since : 0..Duration, fired : BOOLEAN]

\* The trackers' type, as a function is written and read.
TrackOK(t) == /\ DOMAIN t \subseteq Key
              /\ t = [k \in DOMAIN t |-> t[k]]
              /\ \A k \in DOMAIN t : t[k] \in Tracker

IInv == TypeOK /\ ActiveIsTold /\ TrackersAreYounger

-----------------------------------------------------------------------------
LEMMA TrackType == \A t : t \in UNION {[keys -> Tracker] : keys \in SUBSET Key} <=> TrackOK(t)
<1> TAKE t
<1>1. ASSUME t \in UNION {[keys -> Tracker] : keys \in SUBSET Key}
      PROVE  TrackOK(t)
  <2>1. PICK keys \in SUBSET Key : t \in [keys -> Tracker]
    BY <1>1
  <2> QED BY <2>1 DEF TrackOK
<1>2. ASSUME TrackOK(t)
      PROVE  t \in UNION {[keys -> Tracker] : keys \in SUBSET Key}
  <2>1. t \in [DOMAIN t -> Tracker]
    BY <1>2 DEF TrackOK
  <2> QED BY <1>2, <2>1 DEF TrackOK
<1> QED BY <1>1, <1>2

LEMMA OlderIsBounded ==
  ASSUME NEW bound \in Nat, NEW age \in 0..bound
  PROVE  /\ Older(age, bound) \in 0..bound
         /\ age = bound => Older(age, bound) = bound
         /\ \A other \in 0..bound : other <= age => Older(other, bound) <= Older(age, bound)
BY DEF Older

LEMMA KeyIsPair == ASSUME NEW k \in Key PROVE k[1] \in Workload /\ k[2] \in Rule
BY DEF Key

LEMMA InitHolds == Init => IInv
<1> SUFFICES ASSUME Init PROVE IInv
  OBVIOUS
<1> USE RuleAssumption
<1>1. TrackOK(track)
  BY DEF Init, NoTrackers, TrackOK
<1>2. track \in UNION {[keys -> Tracker] : keys \in SUBSET Key}
  BY <1>1, TrackType
<1>3. row \in [Key -> [age : Ages, level : Level]]
  BY DEF Init, NoRow, Ages, Level
<1>4. TypeOK
  BY <1>2, <1>3 DEF Init, TypeOK, Tracker, None
<1> QED BY <1>4 DEF Init, IInv, ActiveIsTold, TrackersAreYounger, NoTrackers, None

-----------------------------------------------------------------------------
\* One step per action.
LEMMA TickKeeps == IInv /\ Tick => IInv'
<1> SUFFICES ASSUME IInv, Tick PROVE IInv'
  OBVIOUS
<1> USE RuleAssumption
<1>1. TrackOK(track)
  BY TrackType DEF IInv, TypeOK, Tracker
<1>2. /\ DOMAIN track' = DOMAIN track
      /\ \A k \in DOMAIN track :
           /\ track'[k] = [track[k] EXCEPT !.since = Older(@, Duration)]
           /\ track'[k].since = Older(track[k].since, Duration)
           /\ track'[k].fired = track[k].fired
           /\ track'[k] \in Tracker
  BY <1>1, OlderIsBounded DEF Tick, TrackOK, Tracker
<1>3. TrackOK(track')
  BY <1>1, <1>2 DEF TrackOK, Tick
<1>4. track' \in UNION {[keys -> Tracker] : keys \in SUBSET Key}
  BY <1>3, TrackType
<1>5. row' \in [Key -> [age : Ages, level : Level]]
  <2> SUFFICES ASSUME NEW k \in Key
               PROVE  [row[k] EXCEPT !.age = Older(@, Window + 1)] \in [age : Ages, level : Level]
    BY DEF Tick
  <2>1. row[k] \in [age : 0..Window + 1, level : Level]
    BY DEF IInv, TypeOK, Ages
  <2>2. Older(row[k].age, Window + 1) \in 0..Window + 1
    BY <2>1, OlderIsBounded
  <2> QED BY <2>1, <2>2 DEF Ages
<1>6. below' \in [Key -> 0..Duration] /\ \A k \in Key : below'[k] = Older(below[k], Duration)
  BY OlderIsBounded DEF Tick, IInv, TypeOK
<1>7. TypeOK'
  BY <1>4, <1>5, <1>6 DEF Tick, IInv, TypeOK, Tracker
<1>8. TrackersAreYounger'
  <2> SUFFICES ASSUME NEW k \in DOMAIN track PROVE track'[k].since <= below'[k]
    BY <1>2 DEF TrackersAreYounger
  <2>1. k \in Key /\ track[k].since \in 0..Duration /\ below[k] \in 0..Duration
    BY <1>1 DEF TrackOK, Tracker, IInv, TypeOK
  <2>2. track[k].since <= below[k]
    BY DEF IInv, TrackersAreYounger
  <2> QED BY <1>2, <1>6, <2>1, <2>2, OlderIsBounded
<1>9. ActiveIsTold'
  <2> SUFFICES ASSUME NEW k \in Key
               PROVE  /\ k \in active' <=> told'[k] = "alert.fired"
                      /\ k \in active' <=> k \in DOMAIN track' /\ track'[k].fired
                      /\ k \in active' => track'[k].since = Duration
    BY DEF ActiveIsTold
  <2>1. UNCHANGED <<active, told>>
    BY DEF Tick
  <2>2. k \in active => track'[k].since = Duration
    <3> SUFFICES ASSUME k \in active PROVE track'[k].since = Duration
      OBVIOUS
    <3>1. k \in DOMAIN track /\ track[k].since = Duration
      BY DEF IInv, ActiveIsTold
    <3> QED BY <1>2, <3>1, OlderIsBounded
  <2> QED BY <1>2, <2>1, <2>2 DEF IInv, ActiveIsTold
<1> QED BY <1>7, <1>8, <1>9 DEF IInv

LEMMA ReportKeeps == IInv /\ Report => IInv'
<1> SUFFICES ASSUME IInv, Report PROVE IInv'
  OBVIOUS
<1>1. PICK w \in Workload, age \in Ages, metrics \in SUBSET Rule :
        \E levels \in [metrics -> Level] : Sample(w, age, levels)
  BY DEF Report
<1>2. PICK levels \in [metrics -> Level] : Sample(w, age, levels)
  BY <1>1
<1>3. row' \in [Key -> [age : Ages, level : Level]]
  BY <1>2 DEF Sample, IInv, TypeOK
<1>4. UNCHANGED <<listed, engineVars>>
  BY <1>2 DEF Sample
<1> QED BY <1>3, <1>4 DEF IInv, TypeOK, ActiveIsTold, TrackersAreYounger, engineVars

LEMMA EvaluateKeeps == IInv /\ Evaluate => IInv'
<1> SUFFICES ASSUME IInv, Evaluate PROVE IInv'
  OBVIOUS
<1>1. ASSUME NEW l \in Listing PROVE l \in [key : Key, above : BOOLEAN]
  <2>1. PICK k \in Key : l = [key |-> k, above |-> Visible(k) /\ row[k].level = "above"]
    BY DEF Listing, Key
  <2>2. (Visible(k) /\ row[k].level = "above") \in BOOLEAN
    OBVIOUS
  <2> QED BY <2>1, <2>2
<1> QED BY <1>1 DEF Evaluate, IInv, TypeOK, ActiveIsTold, TrackersAreYounger, engineVars

LEMMA RestartKeeps == IInv /\ HubRestart => IInv'
<1> SUFFICES ASSUME IInv, HubRestart PROVE IInv'
  OBVIOUS
<1>1. DOMAIN track' = {} /\ TrackOK(track')
  BY DEF HubRestart, NoTrackers, TrackOK
<1>2. track' \in UNION {[keys -> Tracker] : keys \in SUBSET Key}
  BY <1>1, TrackType
<1>3. TypeOK'
  BY <1>2 DEF HubRestart, IInv, TypeOK, Tracker, None
<1> QED BY <1>1, <1>3 DEF HubRestart, IInv, ActiveIsTold, TrackersAreYounger, None

-----------------------------------------------------------------------------
\* evalRule: what it reads of a key is of the key's type.
LEMMA EvalIsOfAKey ==
    ASSUME TypeOK, NEW k \in Key, EvalRule(k)
    PROVE  /\ listed' \subseteq [key : Key, above : BOOLEAN]
           /\ row' = row
           /\ Above(k) \/ Below(k)
BY DEF EvalRule, TypeOK

LEMMA AboveKeeps == ASSUME IInv, NEW k \in Key, EvalRule(k), Above(k) PROVE IInv'
<1> USE RuleAssumption
<1> DEFINE tr  == IF k \in DOMAIN track THEN track[k] ELSE NewTracker(k)
           due == ~ tr.fired /\ tr.since >= Duration
           new == [tr EXCEPT !.fired = @ \/ due]
<1>1. TrackOK(track)
  BY TrackType DEF IInv, TypeOK, Tracker
<1>2. tr \in Tracker
  BY <1>1 DEF TrackOK, NewTracker, Tracker
<1>3. due \in BOOLEAN /\ tr.fired \in BOOLEAN
  BY <1>2 DEF Tracker
<1>4. (tr.fired \/ due) \in BOOLEAN
  BY <1>3
<1>5. new \in Tracker /\ new.since = tr.since /\ new.fired = (tr.fired \/ due)
  BY <1>2, <1>4 DEF Tracker
<1>6. track' = [j \in DOMAIN track \cup {k} |-> IF j = k THEN new ELSE track[j]]
  BY DEF Above
<1> HIDE DEF tr, due, new
<1>7. /\ DOMAIN track' = DOMAIN track \cup {k}
      /\ track'[k] = new
      /\ \A j \in DOMAIN track : j # k => track'[j] = track[j]
  BY <1>6
<1>8. TrackOK(track')
  BY <1>1, <1>5, <1>6, <1>7 DEF TrackOK
<1>9. track' \in UNION {[keys -> Tracker] : keys \in SUBSET Key}
  BY <1>8, TrackType
<1>10. IF due THEN active' = active \cup {k} /\ told' = [told EXCEPT ![k] = "alert.fired"]
              ELSE UNCHANGED <<active, told>>
  BY DEF Above, Publish, due, tr
<1>11. below' = below
  BY DEF Above
<1>12. TypeOK'
  BY <1>9, <1>10, <1>11, EvalIsOfAKey DEF IInv, TypeOK, Tracker
<1>13. TrackersAreYounger'
  <2>1. tr.since <= below[k]
    BY DEF tr, NewTracker, IInv, TrackersAreYounger, TypeOK
  <2> QED BY <1>5, <1>7, <1>11, <2>1 DEF IInv, TrackersAreYounger
<1>14. due => tr.since = Duration
  BY <1>2 DEF due, Tracker
<1>15. (k \in active <=> tr.fired) /\ (k \in active => tr.since = Duration)
  BY DEF tr, NewTracker, IInv, ActiveIsTold
<1>16. ActiveIsTold'
  <2> SUFFICES ASSUME NEW j \in Key
               PROVE  /\ j \in active' <=> told'[j] = "alert.fired"
                      /\ j \in active' <=> j \in DOMAIN track' /\ track'[j].fired
                      /\ j \in active' => track'[j].since = Duration
    BY DEF ActiveIsTold
  <2>1. CASE j = k
    <3>1. CASE due
      BY <1>5, <1>7, <1>10, <1>14, <2>1, <3>1 DEF IInv, TypeOK
    <3>2. CASE ~ due
      BY <1>5, <1>7, <1>10, <1>15, <2>1, <3>2 DEF IInv, ActiveIsTold
    <3> QED BY <3>1, <3>2
  <2>2. CASE j # k
    <3>1. (j \in active' <=> j \in active) /\ told'[j] = told[j]
      BY <1>10, <2>2 DEF IInv, TypeOK
    <3> QED BY <1>7, <2>2, <3>1 DEF IInv, ActiveIsTold
  <2> QED BY <2>1, <2>2
<1> QED BY <1>12, <1>13, <1>16 DEF IInv

LEMMA BelowKeeps == ASSUME IInv, NEW k \in Key, EvalRule(k), Below(k) PROVE IInv'
<1> USE RuleAssumption
<1>1. TrackOK(track)
  BY TrackType DEF IInv, TypeOK, Tracker
<1>2. /\ DOMAIN track' = DOMAIN track \ {k}
      /\ \A j \in DOMAIN track' : track'[j] = track[j]
      /\ TrackOK(track')
  BY <1>1 DEF Below, TrackOK
<1>3. track' \in UNION {[keys -> Tracker] : keys \in SUBSET Key}
  BY <1>2, TrackType
<1>4. /\ below' = [below EXCEPT ![k] = 0]
      /\ IF k \in active
         THEN active' = active \ {k} /\ told' = [told EXCEPT ![k] = "alert.resolved"]
         ELSE UNCHANGED <<active, told>>
  BY DEF Below, Publish, IInv, ActiveIsTold
<1>5. TypeOK'
  BY <1>3, <1>4, EvalIsOfAKey DEF IInv, TypeOK, Tracker
<1>6. TrackersAreYounger'
  BY <1>2, <1>4 DEF IInv, TrackersAreYounger, TypeOK
<1>7. k \notin active' /\ told'[k] # "alert.fired"
  BY <1>4 DEF IInv, TypeOK, ActiveIsTold
<1>8. \A j \in Key : j # k => (j \in active' <=> j \in active) /\ told'[j] = told[j]
  BY <1>4 DEF IInv, TypeOK
<1>9. ActiveIsTold'
  BY <1>2, <1>7, <1>8 DEF IInv, ActiveIsTold
<1> QED BY <1>5, <1>6, <1>9 DEF IInv

LEMMA StepKeeps == IInv /\ [Next]_vars => IInv'
<1> SUFFICES ASSUME IInv, [Next]_vars PROVE IInv'
  OBVIOUS
<1>1. CASE \E k \in Key : EvalRule(k)
  BY <1>1, EvalIsOfAKey, AboveKeeps, BelowKeeps DEF IInv
<1>2. CASE UNCHANGED vars
  BY <1>2 DEF vars, IInv, TypeOK, ActiveIsTold, TrackersAreYounger
<1> QED BY <1>1, <1>2, TickKeeps, ReportKeeps, EvaluateKeeps, RestartKeeps DEF Next, RulesLoop

-----------------------------------------------------------------------------
\* The variables keep their types: ages and trackers stay within the duration
\* and the window at which the code stops telling them apart.
THEOREM TypeCorrect == Spec => []TypeOK
<1>1. IInv => TypeOK
  BY DEF IInv
<1> QED BY <1>1, InitHolds, StepKeeps, PTL DEF Spec

\* The API's list of active alerts, the last event of each alert and the fired
\* flag of its tracker agree after every evaluation, late rows and restarts of
\* the hub included (engine.go: evalRule, fire and resolve).
THEOREM ActiveAlertsAreTold == Spec => []ActiveIsTold
<1>1. IInv => ActiveIsTold
  BY DEF IInv
<1> QED BY <1>1, InitHolds, StepKeeps, PTL DEF Spec

\* Only an evaluation makes an alert active, and it finds a tracker as old as
\* the duration, which no evaluation below the threshold has outlived.
LEMMA FiringWaited ==
    ASSUME IInv, [Next]_vars, NEW k \in active' \ active
    PROVE  below[k] = Duration
<1> USE RuleAssumption
<1>1. \E j \in Key : EvalRule(j)
  BY DEF Next, RulesLoop, Tick, Report, Sample, Evaluate, HubRestart, vars, engineVars
<1>2. PICK j \in Key : EvalRule(j)
  BY <1>1
<1>3. Above(j)
  BY <1>2, EvalIsOfAKey DEF IInv, Below
<1> DEFINE tr == IF j \in DOMAIN track THEN track[j] ELSE NewTracker(j)
<1>4. k = j /\ tr.since >= Duration
  BY <1>3 DEF Above
<1>5. j \in DOMAIN track
  BY <1>4 DEF NewTracker
<1>6. track[j].since <= below[j] /\ track[j].since >= Duration
  BY <1>4, <1>5 DEF IInv, TrackersAreYounger
<1>7. TrackOK(track)
  BY TrackType DEF IInv, TypeOK, Tracker
<1>8. below[j] \in 0..Duration /\ track[j].since \in 0..Duration
  BY <1>5, <1>7 DEF IInv, TypeOK, TrackOK, Tracker
<1> QED BY <1>4, <1>6, <1>8

\* An alert fires only if its metric was not below the threshold in any
\* evaluation of the last duration (engine.go: evalRule).
THEOREM AlertsWaitTheirDuration == Spec => FiresAfterDuration
<1>1. IInv /\ [Next]_vars => [\A k \in active' \ active : below[k] = Duration]_vars
  BY FiringWaited
<1> QED BY <1>1, InitHolds, StepKeeps, PTL DEF Spec, FiresAfterDuration

=============================================================================
