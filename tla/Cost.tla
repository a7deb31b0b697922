-------------------------------- MODULE Cost --------------------------------
(***************************************************************************)
(* The running hours that an app is charged for (cost.go): RunningHours    *)
(* derives them from the scale events of the month, and the operations of  *)
(* AppLifecycle write - or fail to write - those events.  Beside the log,  *)
(* the model adds up the time in which the workload really had a replica.  *)
(*                                                                         *)
(* One app.  An operation is one step here (AppLifecycle takes them apart) *)
(* and takes no time; time passes in Tick.                                 *)
(***************************************************************************)
EXTENDS Naturals, Sequences

CONSTANTS
  MaxTime,    \* bound: hours
  MaxEvents,  \* bound: rows of scale_events
  MayFail,    \* TRUE: a write of an event or of the flag may fail
  None

ASSUME CostConstants ==
  MaxTime \in Nat /\ MaxEvents \in Nat /\ MayFail \in BOOLEAN /\ None \notin Nat

VARIABLES
  listed,      \* the app has a row that is not marked for deletion
  hibernated,  \* apps.hibernated
  workload,    \* the workload in the cluster
  log,         \* scale_events of the app, in order
  now,
  periodStart, \* the first instant of the month
  truth,       \* history: hours with a replica since periodStart
  missed,      \* history: since periodStart the workload was scaled, or the
               \* app deleted, without an event
  firstTells   \* history: the month's first event was a change of the scale

vars == <<listed, hibernated, workload, log, now, periodStart, truth, missed, firstTells>>

-----------------------------------------------------------------------------
(* Types *)

ScaleEvent == [event : {"scale_to_0", "scale_to_1"}, occurred_at : 0 .. MaxTime]

TypeOK ==
  /\ listed \in BOOLEAN /\ hibernated \in BOOLEAN
  /\ workload \in {"none", "up", "down"}
  /\ log \in Seq(ScaleEvent) /\ Len(log) <= MaxEvents
  /\ now \in 0 .. MaxTime /\ periodStart \in 0 .. now /\ truth \in 0 .. now
  /\ \A i \in 1 .. Len(log) : log[i].occurred_at <= now
  /\ missed \in BOOLEAN /\ firstTells \in BOOLEAN

Init ==
  /\ listed = FALSE /\ hibernated = FALSE /\ workload = "none"
  /\ log = <<>> /\ now = 0 /\ periodStart = 0
  /\ truth = 0 /\ missed = FALSE /\ firstTells = TRUE

-----------------------------------------------------------------------------
(* cost.go *)

(* The rows of a table from time t on, after i of its rows. *)
RowsSince(rows, t) ==
  LET since[i \in 0 .. Len(rows)] ==
        IF i = 0 THEN <<>>
        ELSE IF rows[i].occurred_at >= t THEN Append(since[i - 1], rows[i])
        ELSE since[i - 1]
  IN  since

(* ListScaleEventsSince: the events of the month, oldest first. *)
ListScaleEventsSince(t) == RowsSince(log, t)[Len(log)]

(* Seeded fault: a redeploy of a running app starts a new interval. *)
CountRestarts(run, e) ==
  IF e.event = "scale_to_1" THEN [run EXCEPT !.runStart = e.occurred_at]
  ELSE IF run.runStart = None THEN run
  ELSE [total |-> run.total + (e.occurred_at - run.runStart), runStart |-> None]

(* One turn of the loop of RunningHours; runStart is None outside an       *)
(* interval.                                                               *)
Count(run, e) ==
  IF e.event = "scale_to_1"
    THEN IF run.runStart = None THEN [run EXCEPT !.runStart = e.occurred_at] ELSE run
  ELSE IF run.runStart = None THEN run
  ELSE [total |-> run.total + (e.occurred_at - run.runStart), runStart |-> None]

(* Whether the app ran at the start of the month is guessed from the first *)
(* event or, if there is none, from the flag.                              *)
RanBefore(events, flag) ==
  IF events = <<>> THEN ~flag ELSE Head(events).event = "scale_to_0"

Begin(events, start, flag) ==
  [total |-> 0, runStart |-> IF RanBefore(events, flag) THEN start ELSE None]

(* The loop: total and runStart after i events. *)
Loop(begin, events) ==
  LET run[i \in 0 .. Len(events)] == IF i = 0 THEN begin ELSE Count(run[i - 1], events[i])
  IN  run

(* An interval that is still open is charged up to now. *)
Charged(run, t) == run.total + (IF run.runStart = None THEN 0 ELSE t - run.runStart)

RunningHours(events, start, t, flag) ==
  Charged(Loop(Begin(events, start, flag), events)[Len(events)], t)

(* Seeded fault: the month begins an hour early, in local time. *)
BillingPeriodStartLocal == IF periodStart = 0 THEN 0 ELSE periodStart - 1

BillingPeriodStart == periodStart

(* AppCostMonthly, repoCost: the hours that an app in the list costs. *)
Estimate ==
  RunningHours(ListScaleEventsSince(BillingPeriodStart), BillingPeriodStart, now, hibernated)

-----------------------------------------------------------------------------
(* The operations, as far as the estimate depends on them *)

ThisMonth == ListScaleEventsSince(periodStart)

(* Seeded fault: the event is dated ahead of the clock. *)
RecordScaleEventAhead(event) ==
  /\ Len(log) < MaxEvents
  /\ log' = Append(log, [event |-> event, occurred_at |-> now + 1])
  /\ firstTells' = (firstTells /\ (ThisMonth = <<>> => workload' # workload))
  /\ UNCHANGED missed

RecordScaleEvent(event) ==
  /\ Len(log) < MaxEvents
  /\ log' = Append(log, [event |-> event, occurred_at |-> now])
  /\ firstTells' = (firstTells /\ (ThisMonth = <<>> => workload' # workload))
  /\ UNCHANGED missed

(* The event is not written, by design or because the INSERT failed. *)
NoScaleEvent == missed' = TRUE /\ UNCHANGED <<log, firstTells>>

Written(event) == RecordScaleEvent(event) \/ (MayFail /\ NoScaleEvent)

(* SetAppHibernated, SetAppAwake *)
SetHibernated(v) == hibernated' = v \/ (MayFail /\ UNCHANGED hibernated)

time == <<now, periodStart, truth>>

(* SyncRepo, or the upsert at the start of a deploy: hibernated keeps the  *)
(* value that the row has.                                                 *)
Register ==
  /\ ~listed
  /\ listed' = TRUE
  /\ UNCHANGED <<hibernated, workload, log, missed, firstTells, time>>

(* runDeploy to its end: one replica, the flag as it was. *)
DeploySucceeds ==
  /\ listed
  /\ workload' = "up"
  /\ Written("scale_to_1")
  /\ UNCHANGED <<listed, hibernated, time>>

(* runDeploy: the manifests are applied, the rollout fails. *)
DeployFails ==
  /\ listed
  /\ workload' = "up"
  /\ IF workload = "up" THEN UNCHANGED <<log, missed, firstTells>> ELSE NoScaleEvent
  /\ UNCHANGED <<listed, hibernated, time>>

(* hibernateApp, the hibernation watcher and forceHibernateAll *)
Hibernate ==
  /\ listed /\ workload # "none"
  /\ workload' = "down"
  /\ Written("scale_to_0")
  /\ SetHibernated(TRUE)
  /\ UNCHANGED <<listed, time>>

(* wakeApp of the API *)
Wake ==
  /\ listed /\ workload # "none"
  /\ workload' = "up"
  /\ Written("scale_to_1")
  /\ SetHibernated(FALSE)
  /\ UNCHANGED <<listed, time>>

(* wakeApp of the wake proxy's handler writes no event. *)
ProxyWake ==
  /\ listed /\ workload # "none"
  /\ workload' = "up"
  /\ IF workload = "up" THEN UNCHANGED <<log, missed, firstTells>> ELSE NoScaleEvent
  /\ SetHibernated(FALSE)
  /\ UNCHANGED <<listed, time>>

(* deleteApp writes no event either. *)
Delete ==
  /\ listed
  /\ listed' = FALSE /\ workload' = "none"
  /\ NoScaleEvent
  /\ UNCHANGED <<hibernated, time>>

Tick ==
  /\ now < MaxTime
  /\ now' = now + 1
  /\ truth' = truth + (IF workload = "up" THEN 1 ELSE 0)
  /\ UNCHANGED <<listed, hibernated, workload, log, periodStart, missed, firstTells>>

(* A new month begins with the next hour. *)
NewMonth ==
  /\ now < MaxTime
  /\ now' = now + 1 /\ periodStart' = now'
  /\ truth' = 0 /\ missed' = FALSE /\ firstTells' = TRUE
  /\ UNCHANGED <<listed, hibernated, workload, log>>

Next ==
  \/ Register \/ DeploySucceeds \/ DeployFails \/ Hibernate \/ Wake
  \/ ProxyWake \/ Delete \/ Tick \/ NewMonth

Spec == Init /\ [][Next]_vars

-----------------------------------------------------------------------------
(* Properties *)

(* cost.go, RunningHours: whatever was or was not logged, an app is never  *)
(* charged for more hours than the month has had.                          *)
NeverMoreThanElapsed == listed = TRUE => Estimate <= now - periodStart

(* cost.go, RunningHours: the estimate is the time in which the app really *)
(* ran, across any number of hibernations, wakes and redeploys and across  *)
(* the start of the month, if every change of the scale in this month was  *)
(* logged, the first event of the month was such a change and, as long as  *)
(* there is none, the flag tells the truth.                                *)
MonthExact ==
  /\ listed /\ ~missed /\ firstTells
  /\ ThisMonth = <<>> => (hibernated <=> workload # "up")
  => Estimate = truth
=============================================================================
