----------------------------- MODULE RuleEngine -----------------------------
(***************************************************************************)
(* Threshold alerts: internal/rules/engine.go, driven by rulesLoop of      *)
(* internal/hub/rules.go over the workload_latest rows that metric batches *)
(* leave behind (upsertWorkloadLatest and ListWorkloads in db.go).         *)
(*                                                                         *)
(* A metric is reported or not, and is above its rule's threshold or       *)
(* below; its value is nothing else here.  Times are kept as ages, in the  *)
(* unit a Tick adds, and an age stops growing where the code no longer     *)
(* distinguishes it, so that time goes on for ever in a finite model.      *)
(***************************************************************************)
EXTENDS Naturals, FiniteSets

CONSTANTS
  Workload,    \* the containers
  Rule,        \* the rules of NewEngine, each over a metric of its own
  Duration,    \* how long a rule's metric is to be above: 5 minutes
  Window       \* the age up to which Evaluate asks for rows: 10 minutes

ASSUME RuleAssumption == Duration \in Nat \ {0} /\ Window \in Nat \ {0}

Key == Workload \X Rule      \* rule_id + ":" + entity_uid

VARIABLES
  row,      \* workload_latest: the age and level of each metric's last sample
  listed,   \* what the running Evaluate has read and not yet evaluated
  track,    \* the keys' trackers: the age of since, and fired
  active,   \* the keys of e.active
  told,     \* the last alert event published for each key in this hub's life
  below     \* history: how long ago each key was last evaluated as below

vars == <<row, listed, track, active, told, below>>

None == "none"
Level == {"above", "below"}
Ages == 0 .. Window + 1
NoRow == [age |-> Window + 1, level |-> "below"]   \* like one too old to be seen

\* One more unit, up to the bound beyond which all ages are alike.
Older(age, bound) == IF age < bound THEN age + 1 ELSE age

NoTrackers == [k \in {} |-> k]

Init ==
  /\ row = [k \in Key |-> NoRow]
  /\ listed = {}
  /\ track = NoTrackers
  /\ active = {}
  /\ told = [k \in Key |-> None]
  /\ below = [k \in Key |-> Duration]

engineVars == <<track, active, told, below>>

\* Evaluate asks for the time once, so no unit passes between the keys.
Tick ==
  /\ listed = {}
  /\ row' = [k \in Key |-> [row[k] EXCEPT !.age = Older(@, Window + 1)]]
  /\ track' = [k \in DOMAIN track |->
                 [track[k] EXCEPT !.since = Older(@, Duration)]]
  /\ below' = [k \in Key |-> Older(below[k], Duration)]
  /\ UNCHANGED <<listed, active, told>>

\* A metrics batch is stored: it may have waited in an agent's spool.  The
\* row of each metric it holds is replaced unless it is younger.
Sample(w, age, levels) ==
  /\ row' = [k \in Key |->
       IF k[1] = w /\ k[2] \in DOMAIN levels /\ age <= row[k].age
       THEN [age |-> age, level |-> levels[k[2]]]
       ELSE row[k]]
  /\ UNCHANGED <<listed, engineVars>>

\* ListWorkloads: the workloads of which any row is young enough, each with
\* the metrics whose rows are.  A metric without one counts as zero.
Visible(k) == row[k].age <= Window

Listing ==
  LET seen == {w \in Workload : \E r \in Rule : Visible(<<w, r>>)}
  IN {[key |-> k, above |-> Visible(k) /\ row[k].level = "above"] : k \in seen \X Rule}

\* A tick of rulesLoop; its first query may fail, and then nothing happens.
Evaluate ==
  /\ listed = {}
  /\ listed' = Listing
  /\ UNCHANGED <<row, engineVars>>

\* fire and resolve: the event is stored before the lock is released.  An
\* event that cannot be stored is logged and lost; the engine does not know.
Publish(k, type) == told' = [told EXCEPT ![k] = type]

\* Faulty: since is the time of the sample, not of the evaluation.
TrackSample(k) == [since |-> row[k].age, fired |-> FALSE]

NewTracker(k) == [since |-> 0, fired |-> FALSE]

\* evalRule, under e.mu, for one workload and one rule.
Above(k) ==
  LET tr == IF k \in DOMAIN track THEN track[k] ELSE NewTracker(k)
      due == ~tr.fired /\ tr.since >= Duration
  IN /\ track' = [j \in DOMAIN track \cup {k} |->
                    IF j = k THEN [tr EXCEPT !.fired = @ \/ due] ELSE track[j]]
     /\ IF due
        THEN active' = active \cup {k} /\ Publish(k, "alert.fired")
        ELSE UNCHANGED <<active, told>>
     /\ UNCHANGED below

\* Faulty: the tracker goes, and with it the memory that it had fired.
BelowForgets(k) ==
  /\ UNCHANGED <<active, told>>
  /\ track' = [j \in DOMAIN track \ {k} |-> track[j]]
  /\ below' = [below EXCEPT ![k] = 0]

Below(k) ==
  /\ IF k \in DOMAIN track /\ track[k].fired
     THEN active' = active \ {k} /\ Publish(k, "alert.resolved")
     ELSE UNCHANGED <<active, told>>
  /\ track' = [j \in DOMAIN track \ {k} |-> track[j]]
  /\ below' = [below EXCEPT ![k] = 0]

EvalRule(k) ==
  \E l \in listed :
    /\ l.key = k
    /\ listed' = listed \ {l}
    /\ IF l.above THEN Above(k) ELSE Below(k)
    /\ UNCHANGED row

\* The hub restarts: trackers and active alerts are in memory only.
HubRestart ==
  /\ listed' = {}
  /\ track' = NoTrackers
  /\ active' = {}
  /\ told' = [k \in Key |-> None]
  /\ UNCHANGED <<row, below>>

RulesLoop == Evaluate \/ \E k \in Key : EvalRule(k)

Report ==
  \E w \in Workload, age \in Ages :
    \E metrics \in SUBSET Rule : \E levels \in [metrics -> Level] :
      Sample(w, age, levels)

Next == Tick \/ Report \/ RulesLoop \/ HubRestart

Spec == Init /\ [][Next]_vars

(***************************************************************************)
(* Fairness.  Time passes however often the loop ticks, the loop ticks,    *)
(* and its evaluation ends.  Nothing is assumed of samples or restarts.    *)
(***************************************************************************)
FairSpec ==
  Spec /\ SF_vars(Tick) /\ WF_vars(Evaluate) /\ \A k \in Key : WF_vars(EvalRule(k))
-----------------------------------------------------------------------------
(* Properties *)

\* The values the variables take.
TypeOK ==
  /\ row \in [Key -> [age : Ages, level : Level]]
  /\ listed \subseteq [key : Key, above : BOOLEAN]
  /\ track \in UNION {[keys -> [since : 0..Duration, fired : BOOLEAN]] :
                       keys \in SUBSET Key}
  /\ active \subseteq Key
  /\ told \in [Key -> {None, "alert.fired", "alert.resolved"}]
  /\ below \in [Key -> 0..Duration]

\* What the API lists as active is what the events say: a key is active while
\* the last event of this hub's life is its alert.fired, and then its tracker
\* has fired and is old enough.
ActiveIsTold ==
  \A k \in Key :
    /\ k \in active <=> told[k] = "alert.fired"
    /\ k \in active <=> k \in DOMAIN track /\ track[k].fired
    /\ k \in active => track[k].since = Duration

\* An alert fires only if no evaluation in the last Duration, in this life of
\* the hub or the one before, has seen its metric below the threshold.
FiresAfterDuration ==
  [][\A k \in active' \ active : below[k] = Duration]_vars

\* A metric that goes on being reported above the threshold ends up alerted,
\* and one that goes on being reported below ends up resolved.
AlertFollowsLoad ==
  <>[][~HubRestart]_vars =>
    \A k \in Key :
      /\ <>[](Visible(k) /\ row[k].level = "above") => <>[](k \in active)
      /\ <>[](Visible(k) /\ row[k].level = "below") => <>[](k \notin active)
-----------------------------------------------------------------------------
(* What the documents say and the code does not do *)

\* docs/flows/events-and-alerts.md: an alert fires "after 5 minutes above the
\* threshold".  When it fires, its metric has been heard of in that time.
FiresOnFreshSamples ==
  [][\A k \in active' \ active : row[k].age < Duration]_vars
=============================================================================
