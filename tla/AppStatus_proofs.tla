-------------------------- MODULE AppStatus_proofs --------------------------
(***************************************************************************)
(* The status that the API shows for an app agrees with the cluster when   *)
(* no task is at work on it: for tasks that do not overlap and a process   *)
(* that does not crash, and whatever Kubernetes call fails.                *)
(*                                                                         *)
(* The property speaks of quiet apps only, so it says nothing of the tasks *)
(* that lead to them.  Settled adds what the status and the objects of an  *)
(* app satisfy at every program counter of the task that works on it: they *)
(* agree at each one where an error can end the task, and between the last *)
(* Kubernetes call of a hibernation or a wake and the UPDATE that follows, *)
(* where they do not, the objects are already those of the status to come. *)
(***************************************************************************)
EXTENDS AppRouting_proofs

(* The status agrees with the objects k. *)
Matches(k, status) ==
  /\ status = "hibernated" => k.route # "app"
  /\ status = "running" => k.scale # "zero"

(* The cluster is changed and the status is not: none of these statements  *)
(* can end the task.                                                       *)
Between == {"hib_event", "hib_flag", "wake_event", "wake_flag"}

(* The app is hibernated, or woken, in the cluster. *)
Lowered == {"hib_event", "hib_flag", "hib_status"}
Raised == {"wake_event", "wake_flag", "wake_status", "apply_service",
           "apply_route", "rollout", "images", "deployed_status"}
Applying == {"apply_ns", "apply_workload", "apply_service", "apply_route"}

(* The objects and the status of an app whose task is at pc. *)
GoodAt(pc, k, status) ==
  /\ pc \notin Between => Matches(k, status)
  /\ pc \in Lowered => k.route # "app"
  /\ pc \in Raised => k.scale # "zero"
  /\ pc \in Applying => status = "deploying"

QuietMatches ==
  \A a \in Apps : Quiet(a) => Matches(kube[a], row[a].status)

TasksGood ==
  \A t \in Actors :
    Live(t) => GoodAt(task[t].pc, kube[App(t)], row[App(t)].status)

Settled == Exclusive /\ ~MayCrash => QuietMatches /\ TasksGood

(* What every step below starts from. *)
Calm == Control /\ Exclusive /\ ~MayCrash /\ Ordered /\ Settled

-----------------------------------------------------------------------------
(* Frames: what a step must show for Settled to survive it. *)

(* A step of a goroutine at work, on its own app. *)
LEMMA StepSettled ==
  ASSUME Calm, NEW t \in Actors, Live(t), NEW a \in Apps, App(t) = a,
         \A s \in Actors : s # t => task'[s] = task[s],
         Live(t)' => task'[t].app = task[t].app,
         \A b \in Apps : b # a => kube'[b] = kube[b] /\ row'[b] = row[b],
         GoodAt(task'[t].pc, kube'[a], row'[a].status)
  PROVE  Settled'
<1>1. ASSUME NEW b \in Apps, Quiet(b)' PROVE Matches(kube'[b], row'[b].status)
  <2>1. CASE b = a
    <3>1. ~Live(t)'
      BY <1>1, <2>1 DEF Quiet, App
    <3>2. task'[t].pc \notin Between
      BY <3>1 DEF Live, Between
    <3>. QED BY <2>1, <3>2 DEF GoodAt
  <2>2. CASE b # a
    <3>1. Quiet(b)
      BY <1>1, <2>2 DEF Quiet, Live, App
    <3>. QED BY <2>2, <3>1 DEF Calm, Settled, QuietMatches
  <2>. QED BY <2>1, <2>2
<1>2. ASSUME NEW s \in Actors, Live(s)'
      PROVE  GoodAt(task'[s].pc, kube'[App(s)'], row'[App(s)'].status)
  <2>1. CASE s = t
    BY <1>2, <2>1 DEF App
  <2>2. CASE s # t
    <3>1. task'[s] = task[s] /\ App(s)' = App(s) /\ Live(s)
      BY <1>2, <2>2 DEF App, Live
    <3>2. App(s) # a /\ App(s) \in Apps
      BY <2>2, <3>1, WorkingFacts DEF Calm, Ordered, OneTask, Live
    <3>3. kube'[App(s)] = kube[App(s)] /\ row'[App(s)] = row[App(s)]
      BY <3>2
    <3>. QED BY <3>1, <3>3 DEF Calm, Settled, TasksGood
  <2>. QED BY <2>1, <2>2
<1>3. QuietMatches'
  BY <1>1 DEF QuietMatches, Matches
<1>4. TasksGood'
  BY <1>2 DEF TasksGood, GoodAt, Matches
<1>. QED BY <1>3, <1>4 DEF Settled

(* A goroutine that was not at work takes an app that nobody works on, at  *)
(* a statement that relies on nothing but the agreement.                   *)
LEMMA StartSettled ==
  ASSUME Calm, NEW t \in Actors, NEW a \in Apps, Quiet(a), ~Live(t),
         \A s \in Actors : s # t => task'[s] = task[s],
         task'[t].app = a,
         kube' = kube,
         \A b \in Apps : b # a => row'[b] = row[b],
         row'[a].status \in {row[a].status, "pending"},
         task'[t].pc \notin Lowered \cup Raised \cup Applying
  PROVE  Settled'
<1>1. Matches(kube[a], row'[a].status)
  BY DEF Calm, Settled, QuietMatches, Matches
<1>2. GoodAt(task'[t].pc, kube[a], row'[a].status)
  BY <1>1 DEF GoodAt
<1>3. ASSUME NEW b \in Apps, Quiet(b)' PROVE Matches(kube'[b], row'[b].status)
  <2>1. CASE b = a
    BY <1>1, <2>1
  <2>2. CASE b # a
    <3>1. Quiet(b)
      BY <1>3, <2>2 DEF Quiet, Live, App
    <3>. QED BY <2>2, <3>1 DEF Calm, Settled, QuietMatches
  <2>. QED BY <2>1, <2>2
<1>4. ASSUME NEW s \in Actors, Live(s)'
      PROVE  GoodAt(task'[s].pc, kube'[App(s)'], row'[App(s)'].status)
  <2>1. CASE s = t
    BY <1>2, <2>1 DEF App
  <2>2. CASE s # t
    <3>1. task'[s] = task[s] /\ App(s)' = App(s) /\ Live(s)
      BY <1>4, <2>2 DEF App, Live
    <3>2. App(s) # a /\ App(s) \in Apps
      BY <2>2, <3>1, WorkingFacts DEF Calm, Quiet, App, Live
    <3>3. row'[App(s)] = row[App(s)]
      BY <3>2
    <3>. QED BY <3>1, <3>3 DEF Calm, Settled, TasksGood
  <2>. QED BY <2>1, <2>2
<1>5. QuietMatches'
  BY <1>3 DEF QuietMatches, Matches
<1>6. TasksGood'
  BY <1>4 DEF TasksGood, GoodAt, Matches
<1>. QED BY <1>5, <1>6 DEF Settled

(* A step with which no goroutine at work moves and no status changes. *)
LEMMA StillSettled ==
  ASSUME Calm, kube' = kube,
         \A a \in Apps : row'[a].status = row[a].status,
         \A t \in Actors : task'[t] = task[t] \/ (~Live(t) /\ ~Live(t)')
  PROVE  Settled'
<1>1. ASSUME NEW t \in Actors
      PROVE  /\ Live(t)' <=> Live(t)
             /\ Live(t) => task'[t] = task[t]
  BY DEF Live
<1>2. ASSUME NEW b \in Apps, Quiet(b)' PROVE Quiet(b)
  BY <1>1, <1>2 DEF Quiet
<1>3. QuietMatches'
  BY <1>2 DEF Calm, Settled, QuietMatches, Matches
<1>4. ASSUME NEW t \in Actors, Live(t)'
      PROVE  GoodAt(task'[t].pc, kube'[App(t)'], row'[App(t)'].status)
  <2>1. Live(t) /\ task'[t] = task[t] /\ App(t)' = App(t) /\ App(t) \in Apps
    BY <1>1, <1>4, WorkingFacts DEF Calm, App, Live
  <2>. QED BY <2>1 DEF Calm, Settled, TasksGood
<1>5. TasksGood'
  BY <1>4 DEF TasksGood, GoodAt, Matches
<1>. QED BY <1>3, <1>5 DEF Settled

(* Nothing exists at the start. *)
LEMMA SettledInit == Init => Settled
<1>. SUFFICES ASSUME Init PROVE Settled
  OBVIOUS
<1>1. \A t \in Actors : task[t].pc = "idle"
  BY DEF Init, IdleTask
<1>2. TasksGood
  BY <1>1 DEF TasksGood, Live
<1>3. QuietMatches
  BY DEF Init, QuietMatches, Matches, NoCluster, NoRow
<1>. QED BY <1>2, <1>3 DEF Settled

(* A Kubernetes call: on success the new objects suit the next statement;  *)
(* an error ends the work where the status agrees with the old ones.       *)
LEMMA KubeCallSettled ==
  ASSUME Calm, NEW t \in Actors, Live(t),
         NEW a \in Apps, App(t) = a, NEW possible, NEW k, NEW next \in Pc,
         next # "done", KubeCall(t, possible, k, next),
         possible => GoodAt(next, k, row[a].status),
         Matches(kube[a], row[a].status)
  PROVE  Settled'
<1>1. OnError(t) \in {"fail_op", "finish", "next"} /\ OnError(t) \in Pc
  BY DEF OnError, Pc, OpEndPc, WatchPc
<1>2. row' = row /\ kube \in [Apps -> Cluster] /\ TypeOK
  BY DEF KubeCall, Calm, Control, TypeOK
<1>3. CASE possible /\ kube' = [kube EXCEPT ![App(t)] = k] /\ Goto(t, next)
  <2>1. /\ \A s \in Actors : s # t => task'[s] = task[s]
        /\ task'[t].pc = next /\ task'[t].app = task[t].app
    BY <1>2, <1>3, GotoEffect
  <2>2. kube'[a] = k /\ \A b \in Apps : b # a => kube'[b] = kube[b]
    BY <1>2, <1>3
  <2>3. GoodAt(task'[t].pc, kube'[a], row'[a].status)
    BY <1>2, <1>3, <2>1, <2>2
  <2>. QED BY <1>2, <2>1, <2>2, <2>3, StepSettled
<1>4. CASE Goto(t, OnError(t)) /\ UNCHANGED kube
  <2>1. /\ \A s \in Actors : s # t => task'[s] = task[s]
        /\ task'[t].pc = OnError(t) /\ task'[t].app = task[t].app
    BY <1>1, <1>2, <1>4, GotoEffect
  <2>2. GoodAt(OnError(t), kube[a], row[a].status)
    BY <1>1 DEF GoodAt, Lowered, Raised, Applying
  <2>. QED BY <1>2, <1>4, <2>1, <2>2, StepSettled
<1>. QED BY <1>3, <1>4 DEF KubeCall

(* A step that leaves the cluster alone and gives the row of the task's    *)
(* app the value r.                                                        *)
LEMMA RowSettled ==
  ASSUME Calm, NEW t \in Actors, Live(t),
         NEW a \in Apps, App(t) = a, NEW r, NEW next \in Pc, Goto(t, next),
         kube' = kube, row' = [row EXCEPT ![a] = r],
         GoodAt(next, kube[a], r.status)
  PROVE  Settled'
<1>1. row \in [Apps -> Row] /\ TypeOK
  BY DEF Calm, Control, TypeOK
<1>2. /\ \A s \in Actors : s # t => task'[s] = task[s]
      /\ task'[t].pc = next
      /\ next # "done" => task'[t].app = task[t].app
  BY <1>1, GotoEffect
<1>3. row'[a] = r /\ \A b \in Apps : b # a => row'[b] = row[b]
  BY <1>1
<1>4. Live(t)' => task'[t].app = task[t].app
  BY <1>2 DEF Live
<1>5. GoodAt(task'[t].pc, kube'[a], row'[a].status)
  BY <1>2, <1>3
<1>. QED BY <1>2, <1>3, <1>4, <1>5, StepSettled

(* The same for an UPDATE of the row. *)
LEMMA RowUpdateSettled ==
  ASSUME Calm, NEW t \in Actors, Live(t),
         NEW a \in Apps, App(t) = a, NEW r, NEW next \in Pc, RowUpdate(t, r, next),
         GoodAt(next, kube[a], r.status)
  PROVE  Settled'
BY RowSettled DEF RowUpdate

(* A step that leaves the cluster and the apps table alone. *)
LEMMA ReadSettled ==
  ASSUME Calm, NEW t \in Actors, Live(t),
         NEW a \in Apps, App(t) = a, NEW next \in Pc, Goto(t, next),
         kube' = kube, row' = row, GoodAt(next, kube[a], row[a].status)
  PROVE  Settled'
<1>1. row' = [row EXCEPT ![a] = row[a]]
  BY DEF Calm, Control, TypeOK
<1>. QED BY <1>1, RowSettled

(* A goroutine at work: its app, and what the invariants say of both. *)
LEMMA AtWorkFacts ==
  ASSUME Calm, NEW t \in Actors,
         task[t].pc \notin {"idle", "done", "lost", "next"}
  PROVE  /\ Live(t)
         /\ App(t) \in Apps
         /\ ObjectsOK(App(t), kube[App(t)], row[App(t)].status)
         /\ Needs(task[t].pc, App(t), kube[App(t)], row[App(t)].status)
         /\ GoodAt(task[t].pc, kube[App(t)], row[App(t)].status)
         /\ kube[App(t)] \in Cluster
         /\ row[App(t)] \in Row
<1>1. GoodAt(task[t].pc, kube[App(t)], row[App(t)].status)
  BY DEF Calm, Settled, TasksGood, Live
<1>. QED BY <1>1, WorkingFacts DEF Calm

-----------------------------------------------------------------------------
(* One lemma per group of actions. *)

(* kube.Apply works on a row that says deploying and scales the workload   *)
(* up; running is written after that, and an error leads to failed.        *)
LEMMA DeploySettled ==
  ASSUME Calm, NEW o \in Ops, DeployStep(o)
  PROVE  Settled'
<1>. DEFINE a == App(o)
            k == kube[a]
            st == row[a].status
<1>0. o \in Actors
  BY DEF Actors
<1>1. task[o].pc \in DeployPc
  BY DEF DeployStep, DeployingStatus, ApplyNamespace, ApplyWorkload,
         ApplyAppService, ApplyHTTPRoute, RolloutSucceeds, RolloutFails,
         RollbackDeployment, RollbackImages, DeployedImages, DeployedStatus,
         DeployedEvent, At, DeployPc
<1>2. /\ Live(o) /\ a \in Apps /\ k \in Cluster /\ row[a] \in Row
      /\ GoodAt(task[o].pc, k, st)
  BY <1>0, <1>1, AtWorkFacts DEF DeployPc
<1>3. DeployPc \cup {"fail_op", "succeed"} \subseteq Pc
  BY DEF Pc, OpEndPc
<1>m. Matches(k, st)
  BY <1>1, <1>2 DEF GoodAt, DeployPc, Between
<1>. USE <1>0 DEF Lowered, Raised, Applying
<1>4. CASE DeployingStatus(o)
  <2>. DEFINE r == UpdateAppStatus(row[a], "deploying")
  <2>1. r.status = "deploying"
    BY <1>2 DEF UpdateAppStatus, Row
  <2>2. GoodAt("apply_ns", k, r.status)
    BY <2>1 DEF GoodAt, Matches
  <2>3. RowUpdate(o, r, "apply_ns") /\ "apply_ns" \in Pc
    BY <1>3, <1>4 DEF DeployingStatus, DeployPc
  <2>. HIDE DEF r
  <2>. QED BY <1>2, <2>2, <2>3, RowUpdateSettled
<1>5. CASE ApplyNamespace(o)
  <2>. DEFINE k2 == IF k.ns = "absent" THEN [k EXCEPT !.ns = "active"] ELSE k
  <2>1. KubeCall(o, TRUE, k2, "apply_workload")
    BY <1>5 DEF ApplyNamespace
  <2>2. st = "deploying"
    BY <1>2, <1>5 DEF ApplyNamespace, At, GoodAt
  <2>3. GoodAt("apply_workload", k2, st)
    BY <2>2 DEF GoodAt, Matches
  <2>4. "apply_workload" \in Pc
    BY <1>3 DEF DeployPc
  <2>. HIDE DEF k2
  <2>. QED BY <1>2, <1>m, <2>1, <2>3, <2>4, KubeCallSettled
<1>6. CASE ApplyWorkload(o)
  <2>. DEFINE k2 == [k EXCEPT !.scale = "one", !.image = task[o].image]
              next == CASE AppType[a] = "http" -> "apply_service"
                        [] AppType[a] = "worker" -> "rollout"
                        [] OTHER -> "images"
              possible == k.scale # "none" \/ k.ns = "active"
  <2>1. KubeCall(o, possible, k2, next)
    BY <1>6 DEF ApplyWorkload
  <2>2. k2.scale = "one"
    BY <1>2 DEF Cluster
  <2>3. st = "deploying"
    BY <1>2, <1>6 DEF ApplyWorkload, At, GoodAt
  <2>4. GoodAt(next, k2, st)
    BY <2>2, <2>3 DEF GoodAt, Matches
  <2>5. next \in Pc /\ next # "done"
    BY <1>3 DEF DeployPc
  <2>. HIDE DEF k2, next, possible
  <2>. QED BY <1>2, <1>m, <2>1, <2>4, <2>5, KubeCallSettled
<1>7. CASE ApplyAppService(o)
  <2>. DEFINE k2 == [k EXCEPT !.svc = TRUE]
              possible == k.svc \/ k.ns = "active"
  <2>1. KubeCall(o, possible, k2, "apply_route")
    BY <1>7 DEF ApplyAppService
  <2>2. k2.scale = k.scale
    BY <1>2 DEF Cluster
  <2>3. st = "deploying" /\ k.scale # "zero"
    BY <1>2, <1>7 DEF ApplyAppService, At, GoodAt
  <2>4. GoodAt("apply_route", k2, st)
    BY <2>2, <2>3 DEF GoodAt, Matches
  <2>5. "apply_route" \in Pc
    BY <1>3 DEF DeployPc
  <2>. HIDE DEF k2, possible
  <2>. QED BY <1>2, <1>m, <2>1, <2>4, <2>5, KubeCallSettled
<1>8. CASE ApplyHTTPRoute(o)
  <2>. DEFINE k2 == SetRoute(k, "app")
  <2>1. KubeCall(o, CanSetRoute(k), k2, "rollout")
    BY <1>8 DEF ApplyHTTPRoute
  <2>2. k2.scale = k.scale
    BY <1>2 DEF Cluster, SetRoute
  <2>3. st = "deploying" /\ k.scale # "zero"
    BY <1>2, <1>8 DEF ApplyHTTPRoute, At, GoodAt
  <2>4. GoodAt("rollout", k2, st) /\ "rollout" \in Pc
    BY <1>3, <2>2, <2>3 DEF GoodAt, Matches, DeployPc
  <2>. HIDE DEF k2
  <2>. QED BY <1>2, <1>m, <2>1, <2>4, KubeCallSettled
<1>9. CASE RolloutSucceeds(o) \/ RolloutFails(o)
  <2>1. PICK next \in {"images", "fail_op", "rollback"} : Goto(o, next)
    BY <1>9 DEF RolloutSucceeds, RolloutFails
  <2>2. k.scale # "zero"
    BY <1>2, <1>9 DEF RolloutSucceeds, RolloutFails, At, GoodAt
  <2>3. next \in Pc /\ GoodAt(next, k, st)
    BY <1>3, <1>m, <2>2 DEF GoodAt, DeployPc
  <2>4. kube' = kube /\ row' = row
    BY <1>9 DEF RolloutSucceeds, RolloutFails
  <2>. QED BY <1>2, <2>1, <2>3, <2>4, ReadSettled
<1>10. CASE RollbackDeployment(o)
  <2>. DEFINE k2 == [k EXCEPT !.image = task[o].lastHealthy]
  <2>1. KubeCall(o, k.scale # "none", k2, "rollback_images")
    BY <1>10 DEF RollbackDeployment
  <2>2. k2.scale = k.scale /\ k2.route = k.route
    BY <1>2 DEF Cluster
  <2>3. GoodAt("rollback_images", k2, st)
    BY <1>m, <2>2 DEF GoodAt, Matches
  <2>4. "rollback_images" \in Pc
    BY <1>3 DEF DeployPc
  <2>. HIDE DEF k2
  <2>. QED BY <1>2, <1>m, <2>1, <2>3, <2>4, KubeCallSettled
<1>11. ASSUME NEW i PROVE UpdateAppImages(row[a], i).status = st
  BY <1>2 DEF UpdateAppImages, Row
<1>12. CASE RollbackImages(o)
  <2>. DEFINE r == UpdateAppImages(row[a], task[o].lastHealthy)
  <2>1. RowUpdate(o, r, "fail_op") /\ "fail_op" \in Pc /\ r.status = st
    BY <1>3, <1>11, <1>12 DEF RollbackImages
  <2>. HIDE DEF r
  <2>2. GoodAt("fail_op", k, r.status)
    BY <1>m, <2>1 DEF GoodAt
  <2>. QED BY <1>2, <2>1, <2>2, RowUpdateSettled
<1>13. CASE DeployedImages(o)
  <2>. DEFINE r == UpdateAppImages(row[a], task[o].image)
  <2>1. RowUpdate(o, r, "deployed_status") /\ r.status = st
    BY <1>11, <1>13 DEF DeployedImages
  <2>2. "deployed_status" \in Pc /\ k.scale # "zero"
    BY <1>2, <1>3, <1>13 DEF DeployedImages, At, GoodAt, DeployPc
  <2>. HIDE DEF r
  <2>3. GoodAt("deployed_status", k, r.status)
    BY <1>m, <2>1, <2>2 DEF GoodAt
  <2>. QED BY <1>2, <2>1, <2>2, <2>3, RowUpdateSettled
<1>14. CASE DeployedStatus(o)
  <2>. DEFINE r == UpdateAppStatus(row[a], "running")
  <2>1. r.status = "running"
    BY <1>2 DEF UpdateAppStatus, Row
  <2>2. k.scale # "zero"
    BY <1>2, <1>14 DEF DeployedStatus, At, GoodAt
  <2>3. RowUpdate(o, r, "deployed_event") /\ "deployed_event" \in Pc
    BY <1>3, <1>14 DEF DeployedStatus, DeployPc
  <2>. HIDE DEF r
  <2>4. GoodAt("deployed_event", k, r.status)
    BY <2>1, <2>2 DEF GoodAt, Matches
  <2>. QED BY <1>2, <2>3, <2>4, RowUpdateSettled
<1>15. CASE DeployedEvent(o)
  <2>1. Goto(o, "succeed") /\ kube' = kube /\ row' = row
    BY <1>15 DEF DeployedEvent, ScaleEvent
  <2>2. "succeed" \in Pc /\ GoodAt("succeed", k, st)
    BY <1>3, <1>m DEF GoodAt
  <2>. QED BY <1>2, <2>1, <2>2, ReadSettled
<1>. QED
  BY <1>4, <1>5, <1>6, <1>7, <1>8, <1>9, <1>10, <1>12, <1>13, <1>14, <1>15
     DEF DeployStep

(* Hibernation: the row says so once the route is on the proxy. *)
LEMMA HibernateSettled ==
  ASSUME Calm, NEW t \in Ops \cup Watchers, HibernateStep(t)
  PROVE  Settled'
<1>. DEFINE a == App(t)
            k == kube[a]
            st == row[a].status
<1>0. t \in Actors
  BY DEF Actors
<1>1. task[t].pc \in HibPc
  BY DEF HibernateStep, HibRoute, HibScale, HibEvent, HibFlag, HibStatus, At, HibPc
<1>2. /\ Live(t) /\ a \in Apps /\ k \in Cluster /\ row[a] \in Row
      /\ GoodAt(task[t].pc, k, st) /\ Needs(task[t].pc, a, k, st)
  BY <1>0, <1>1, AtWorkFacts DEF HibPc
<1>3. HibPc \cup {"succeed", "next"} \subseteq Pc
  BY DEF Pc, OpEndPc, WatchPc
<1>. USE <1>0 DEF Lowered, Raised, Applying
<1>4. CASE HibRoute(t)
  <2>. DEFINE k2 == SetRoute(k, "proxy")
  <2>1. KubeCall(t, CanSetRoute(k), k2, "hib_scale") /\ "hib_scale" \in Pc
    BY <1>3, <1>4 DEF HibRoute, HibPc
  <2>2. k2.scale = k.scale /\ k2.route = "proxy"
    BY <1>2 DEF Cluster, SetRoute
  <2>3. Matches(k, st)
    BY <1>2, <1>4 DEF HibRoute, At, GoodAt, Between
  <2>4. GoodAt("hib_scale", k2, st)
    BY <2>2, <2>3 DEF GoodAt, Matches
  <2>. HIDE DEF k2
  <2>. QED BY <1>2, <2>1, <2>3, <2>4, KubeCallSettled
<1>5. CASE HibScale(t)
  <2>. DEFINE k2 == ScaleDeployment(k, "zero")
  <2>1. KubeCall(t, TRUE, k2, "hib_event") /\ "hib_event" \in Pc
    BY <1>3, <1>5 DEF HibScale, HibPc
  <2>2. k2.route = k.route /\ k.route # "app"
    BY <1>2, <1>5 DEF HibScale, At, Needs, Cluster, ScaleDeployment
  <2>3. Matches(k, st)
    BY <1>2, <1>5 DEF HibScale, At, GoodAt, Between
  <2>4. GoodAt("hib_event", k2, st)
    BY <2>2 DEF GoodAt, Between
  <2>. HIDE DEF k2
  <2>. QED BY <1>2, <2>1, <2>3, <2>4, KubeCallSettled
<1>6. CASE HibEvent(t)
  <2>1. Goto(t, "hib_flag") /\ kube' = kube /\ row' = row
    BY <1>6 DEF HibEvent, ScaleEvent
  <2>2. k.route # "app"
    BY <1>2, <1>6 DEF HibEvent, At, GoodAt
  <2>3. "hib_flag" \in Pc /\ GoodAt("hib_flag", k, st)
    BY <1>3, <2>2 DEF GoodAt, Between, HibPc
  <2>. QED BY <1>2, <2>1, <2>3, ReadSettled
<1>7. ASSUME NEW r, NEW next \in {"hib_status", "succeed", "next"},
             RowUpdate(t, r, next), r.status = "hibernated", k.route # "app"
      PROVE  Settled'
  <2>1. next \in Pc /\ GoodAt(next, k, r.status)
    BY <1>3, <1>7 DEF GoodAt, Matches, HibPc
  <2>. QED BY <1>2, <1>7, <2>1, RowUpdateSettled
<1>8. CASE HibFlag(t)
  <2>1. SetAppHibernated(row[a]).status = "hibernated"
    BY <1>2 DEF SetAppHibernated, Row
  <2>2. k.route # "app"
    BY <1>2, <1>8 DEF HibFlag, At, GoodAt
  <2>. QED BY <1>7, <1>8, <2>1, <2>2 DEF HibFlag
<1>9. CASE HibStatus(t)
  <2>1. UpdateAppStatus(row[a], "hibernated").status = "hibernated"
    BY <1>2 DEF UpdateAppStatus, Row
  <2>2. k.route # "app"
    BY <1>2, <1>9 DEF HibStatus, At, GoodAt
  <2>. QED BY <1>7, <1>9, <2>1, <2>2 DEF HibStatus
<1>. QED BY <1>4, <1>5, <1>6, <1>8, <1>9 DEF HibernateStep

(* Waking: the row says running once the workload is scaled up. *)
LEMMA WakeSettled ==
  ASSUME Calm, NEW t \in Ops \cup Wakers, WakeStep(t)
  PROVE  Settled'
<1>. DEFINE a == App(t)
            k == kube[a]
            st == row[a].status
<1>0. t \in Actors
  BY DEF Actors
<1>1. task[t].pc \in WakePc
  BY DEF WakeStep, WakeScale, WakeWatch, WakeLookup, WakeRoute, WakeEvent,
         WakeFlag, WakeStatus, At, WakePc
<1>2. /\ Live(t) /\ a \in Apps /\ k \in Cluster /\ row[a] \in Row
      /\ GoodAt(task[t].pc, k, st) /\ Needs(task[t].pc, a, k, st)
  BY <1>0, <1>1, AtWorkFacts DEF WakePc
<1>3. WakePc \cup {"succeed", "finish", "fail_op"} \subseteq Pc
  BY DEF Pc, OpEndPc
<1>. USE <1>0 DEF Lowered, Raised, Applying
<1>4. CASE WakeScale(t)
  <2>. DEFINE k2 == ScaleDeployment(k, "one")
              next == IF IsHttp(a) THEN "wake_watch"
                      ELSE IF t \in Ops THEN "wake_event" ELSE "wake_flag"
  <2>1. KubeCall(t, TRUE, k2, next)
    BY <1>4 DEF WakeScale
  <2>2. k2.route = k.route /\ k2.scale # "zero"
    BY <1>2 DEF Cluster, ScaleDeployment
  <2>3. Matches(k, st)
    BY <1>2, <1>4 DEF WakeScale, At, GoodAt, Between
  <2>4. GoodAt(next, k2, st)
    BY <2>2, <2>3 DEF GoodAt, Matches
  <2>5. next \in Pc /\ next # "done"
    BY <1>3 DEF WakePc
  <2>. HIDE DEF k2, next
  <2>. QED BY <1>2, <2>1, <2>3, <2>4, <2>5, KubeCallSettled
<1>5. CASE WakeWatch(t) \/ WakeLookup(t)
  <2>1. PICK next \in {"wake_route", "wake_lookup", "finish", "fail_op", "next"} :
          Goto(t, next)
    BY <1>5 DEF WakeWatch, WakeLookup, OnError
  <2>2. next \in Pc
    BY <1>3 DEF WakePc, Pc, WatchPc
  <2>3. Matches(k, st)
    BY <1>2, <1>5 DEF WakeWatch, WakeLookup, At, GoodAt, Between
  <2>4. GoodAt(next, k, st)
    BY <2>3 DEF GoodAt
  <2>5. kube' = kube /\ row' = row
    BY <1>5 DEF WakeWatch, WakeLookup
  <2>. QED BY <1>2, <2>1, <2>2, <2>4, <2>5, ReadSettled
<1>6. CASE WakeRoute(t)
  <2>. DEFINE k2 == SetRoute(k, "app")
              possible == k.svc /\ CanSetRoute(k)
              next == IF t \in Ops THEN "wake_event" ELSE "wake_flag"
  <2>1. KubeCall(t, possible, k2, next)
    BY <1>6 DEF WakeRoute
  <2>2. k2.scale = k.scale /\ k.scale # "zero"
    BY <1>2, <1>6 DEF WakeRoute, At, Needs, Cluster, SetRoute
  <2>3. Matches(k, st)
    BY <1>2, <1>6 DEF WakeRoute, At, GoodAt, Between
  <2>4. GoodAt(next, k2, st) /\ next \in Pc /\ next # "done"
    BY <1>3, <2>2 DEF GoodAt, Between, WakePc
  <2>. HIDE DEF k2, possible, next
  <2>. QED BY <1>2, <2>1, <2>3, <2>4, KubeCallSettled
<1>7. CASE WakeEvent(t)
  <2>1. Goto(t, "wake_flag") /\ kube' = kube /\ row' = row
    BY <1>7 DEF WakeEvent, ScaleEvent
  <2>2. k.scale # "zero"
    BY <1>2, <1>7 DEF WakeEvent, At, GoodAt
  <2>3. "wake_flag" \in Pc /\ GoodAt("wake_flag", k, st)
    BY <1>3, <2>2 DEF GoodAt, Between, WakePc
  <2>. QED BY <1>2, <2>1, <2>3, ReadSettled
<1>8. ASSUME NEW r, NEW next \in {"wake_status", "succeed", "finish"},
             RowUpdate(t, r, next), r.status = "running", k.scale # "zero"
      PROVE  Settled'
  <2>1. next \in Pc /\ GoodAt(next, k, r.status)
    BY <1>3, <1>8 DEF GoodAt, Matches, WakePc
  <2>. QED BY <1>2, <1>8, <2>1, RowUpdateSettled
<1>9. CASE WakeFlag(t)
  <2>1. SetAppAwake(row[a]).status = "running"
    BY <1>2 DEF SetAppAwake, Row
  <2>2. k.scale # "zero"
    BY <1>2, <1>9 DEF WakeFlag, At, GoodAt
  <2>. QED BY <1>8, <1>9, <2>1, <2>2 DEF WakeFlag
<1>10. CASE WakeStatus(t)
  <2>1. UpdateAppStatus(row[a], "running").status = "running"
    BY <1>2 DEF UpdateAppStatus, Row
  <2>2. k.scale # "zero"
    BY <1>2, <1>10 DEF WakeStatus, At, GoodAt
  <2>. QED BY <1>8, <1>10, <2>1, <2>2 DEF WakeStatus
<1>. QED BY <1>4, <1>5, <1>6, <1>7, <1>9, <1>10 DEF WakeStep

(* Deletion: no workload is scaled and no route is put on the app. *)
LEMMA DeleteSettled ==
  ASSUME Calm, NEW o \in Ops, DeleteStep(o)
  PROVE  Settled'
<1>. DEFINE a == App(o)
            k == kube[a]
            st == row[a].status
<1>0. o \in Actors
  BY DEF Actors
<1>1. task[o].pc \in DeletePc
  BY DEF DeleteStep, DeleteRoute, DeleteService, DeleteAppNamespace,
         DeletedStatus, At, DeletePc
<1>2. /\ Live(o) /\ a \in Apps /\ k \in Cluster /\ row[a] \in Row
      /\ GoodAt(task[o].pc, k, st)
  BY <1>0, <1>1, AtWorkFacts DEF DeletePc
<1>3. DeletePc \cup {"succeed"} \subseteq Pc
  BY DEF Pc, OpEndPc
<1>m. Matches(k, st)
  BY <1>1, <1>2 DEF GoodAt, DeletePc, Between
<1>. USE <1>0
<1>4. ASSUME NEW k2, NEW next \in DeletePc, KubeCall(o, TRUE, k2, next),
             k2.scale = k.scale, k2.route \in {k.route, "none"}
      PROVE  Settled'
  <2>1. GoodAt(next, k2, st)
    BY <1>m, <1>4 DEF GoodAt, Matches, DeletePc, Lowered, Raised, Applying
  <2>2. next \in Pc /\ next # "done"
    BY <1>3 DEF DeletePc
  <2>. QED BY <1>2, <1>m, <1>4, <2>1, <2>2, KubeCallSettled
<1>5. CASE DeleteRoute(o)
  <2>. DEFINE k2 == SetRoute(k, "none")
  <2>1. KubeCall(o, TRUE, k2, "del_service") /\ "del_service" \in DeletePc
    BY <1>5 DEF DeleteRoute, DeletePc
  <2>2. k2.scale = k.scale /\ k2.route = "none"
    BY <1>2 DEF Cluster, SetRoute
  <2>. HIDE DEF k2
  <2>. QED BY <1>4, <2>1, <2>2
<1>6. CASE DeleteService(o)
  <2>. DEFINE k2 == [k EXCEPT !.svc = FALSE]
  <2>1. KubeCall(o, TRUE, k2, "del_ns") /\ "del_ns" \in DeletePc
    BY <1>6 DEF DeleteService, DeletePc
  <2>2. k2.scale = k.scale /\ k2.route = k.route
    BY <1>2 DEF Cluster
  <2>. HIDE DEF k2
  <2>. QED BY <1>4, <2>1, <2>2
<1>7. CASE DeleteAppNamespace(o)
  <2>. DEFINE k2 == IF k.ns = "absent" THEN k ELSE [k EXCEPT !.ns = "terminating"]
  <2>1. KubeCall(o, TRUE, k2, "del_status") /\ "del_status" \in DeletePc
    BY <1>7 DEF DeleteAppNamespace, DeletePc
  <2>2. k2.scale = k.scale /\ k2.route = k.route
    BY <1>2 DEF Cluster
  <2>. HIDE DEF k2
  <2>. QED BY <1>4, <2>1, <2>2
<1>8. CASE DeletedStatus(o)
  <2>. DEFINE r == UpdateAppStatus(row[a], "deleted")
  <2>1. RowUpdate(o, r, "succeed") /\ "succeed" \in Pc
    BY <1>3, <1>8 DEF DeletedStatus
  <2>2. r.status = "deleted"
    BY <1>2 DEF UpdateAppStatus, Row
  <2>. HIDE DEF r
  <2>3. GoodAt("succeed", k, r.status)
    BY <2>2 DEF GoodAt, Matches, Lowered, Raised, Applying
  <2>. QED BY <1>2, <2>1, <2>3, RowUpdateSettled
<1>. QED BY <1>5, <1>6, <1>7, <1>8 DEF DeleteStep

(* The steps on the operations table. *)
LEMMA OperationSettled ==
  ASSUME Calm, NEW o \in Ops,
         \/ CreateOperation(o) \/ StartOperation(o) \/ SucceedOperation(o)
         \/ FailOperation(o) \/ FailStatus(o)
  PROVE  Settled'
<1>. DEFINE a == App(o)
            k == kube[a]
            st == row[a].status
            Ends == {"create_op", "start_op", "succeed", "fail_op", "fail_status"}
            Firsts == {"deploying", "hib_route", "hib_scale", "wake_scale", "del_route"}
            Nexts == {"start_op", "done", "fail_status"} \cup Firsts
<1>0. o \in Actors
  BY DEF Actors
<1>1. task[o].pc \in Ends
  BY DEF CreateOperation, StartOperation, SucceedOperation, FailOperation,
         FailStatus, At
<1>2. /\ Live(o) /\ a \in Apps /\ row[a] \in Row /\ GoodAt(task[o].pc, k, st)
  BY <1>0, <1>1, AtWorkFacts
<1>m. Matches(k, st)
  BY <1>1, <1>2 DEF GoodAt, Between
<1>. USE <1>0
<1>3. ASSUME NEW status, NEW next \in Nexts, OpUpdate(o, status, next)
      PROVE  Settled'
  <2>1. next \in Pc
    BY <1>3 DEF Pc, OpEndPc, DeployPc, HibPc, WakePc, DeletePc
  <2>2. GoodAt(next, k, st)
    BY <1>m, <1>3 DEF GoodAt, Lowered, Raised, Applying
  <2>3. Goto(o, next) /\ kube' = kube /\ row' = row
    BY <1>3 DEF OpUpdate
  <2>. QED BY <1>2, <2>1, <2>2, <2>3, ReadSettled
<1>4. CASE CreateOperation(o) \/ SucceedOperation(o) \/ FailOperation(o)
  BY <1>3, <1>4 DEF CreateOperation, SucceedOperation, FailOperation
<1>5. CASE StartOperation(o)
  <2>. DEFINE next == FirstStep(task[o].kind, a)
  <2>1. next \in Firsts
    BY DEF FirstStep, FirstHib
  <2>2. OpUpdate(o, "running", next)
    BY <1>5 DEF StartOperation
  <2>. HIDE DEF next
  <2>. QED BY <1>3, <2>1, <2>2
<1>6. CASE FailStatus(o)
  <2>. DEFINE r == UpdateAppStatus(row[a], "failed")
  <2>1. RowUpdate(o, r, "done") /\ "done" \in Pc
    BY <1>6 DEF FailStatus, Pc
  <2>2. r.status = "failed"
    BY <1>2 DEF UpdateAppStatus, Row
  <2>. HIDE DEF r
  <2>3. GoodAt("done", k, r.status)
    BY <2>2 DEF GoodAt, Matches, Lowered, Raised, Applying
  <2>. QED BY <1>2, <2>1, <2>3, RowUpdateSettled
<1>. QED BY <1>4, <1>5, <1>6

(* The API's requests: the row is marked pending, or keeps its status, and *)
(* the cluster is not touched.                                             *)
LEMMA RequestSettled ==
  ASSUME Calm, NEW o \in Ops, Request(o)
  PROVE  Settled'
<1>0. o \in Actors /\ task \in [Actors -> Task] /\ row \in [Apps -> Row] /\ Exclusive
  BY DEF Actors, Calm, Control, TypeOK
<1>1. ASSUME NEW a \in Apps, NEW img, NEW lh, NEW kind, At(o, "idle"), Free(a),
             NewTask(o, kind, a, img, lh), kube' = kube,
             \A b \in Apps : b # a => row'[b] = row[b],
             row'[a].status \in {row[a].status, "pending"}
      PROVE  Settled'
  <2>1. ~Live(o) /\ Quiet(a)
    BY <1>0, <1>1 DEF At, Live, Free
  <2>2. /\ \A s \in Actors : s # o => task'[s] = task[s]
        /\ task'[o].app = a /\ task'[o].pc = "create_op"
    BY <1>0, <1>1 DEF NewTask, IdleTask
  <2>3. task'[o].pc \notin Lowered \cup Raised \cup Applying
    BY <2>2 DEF Lowered, Raised, Applying
  <2>. QED BY <1>0, <1>1, <2>1, <2>2, <2>3, StartSettled
<1>2. ASSUME NEW a \in Apps, NEW img PROVE UpsertRow(row[a], img).status = "pending"
  BY <1>0 DEF UpsertRow, Row, NoRow
<1>3. ASSUME NEW a \in Apps, NEW img \in Images, UpsertApp(o, a, img) PROVE Settled'
  <2>1. row' = [row EXCEPT ![a] = UpsertRow(row[a], img)]
    BY <1>3 DEF UpsertApp
  <2>2. row'[a].status = "pending" /\ \A b \in Apps : b # a => row'[b] = row[b]
    BY <1>0, <1>2, <2>1
  <2>. QED BY <1>1, <1>3, <2>2 DEF UpsertApp
<1>4. ASSUME NEW a \in Apps, HibernateApp(o, a) \/ WakeApp(o, a) PROVE Settled'
  BY <1>1, <1>4 DEF HibernateApp, WakeApp, RequestTask
<1>5. ASSUME NEW a \in Apps, DeleteApp(o, a) PROVE Settled'
  <2>1. row'[a].status = row[a].status /\ \A b \in Apps : b # a => row'[b] = row[b]
    BY <1>0, <1>5 DEF DeleteApp, Row
  <2>. QED BY <1>1, <1>5, <2>1 DEF DeleteApp
<1>6. ASSUME NEW S \in SUBSET Apps, NEW declared \in [S -> Images],
             SyncRepo(o, declared)
      PROVE  Settled'
  <2>1. \A a \in Apps : Quiet(a)
    BY <1>0, <1>6 DEF SyncRepo, Free
  <2>2. \A s \in Actors : ~Live(s)
    <3>. SUFFICES ASSUME NEW s \in Actors, Live(s) PROVE FALSE
      OBVIOUS
    <3>1. App(s) \in Apps
      BY AtWorkFacts DEF Live
    <3>. QED BY <2>1, <3>1 DEF Quiet, App
  <2>3. \A s \in Actors : ~Live(s)'
    BY <1>0, <1>6, <2>2 DEF SyncRepo, IdleTask, Live
  <2>4. ASSUME NEW a \in Apps
        PROVE  row'[a].status \in {row[a].status, "pending"} /\ kube'[a] = kube[a]
    <3>1. row'[a] = IF a \in S THEN UpsertRow(row[a], declared[a])
                    ELSE IF Listed(a) THEN [row[a] EXCEPT !.deletion_pending = TRUE]
                    ELSE row[a]
      BY <1>6 DEF SyncRepo
    <3>2. [row[a] EXCEPT !.deletion_pending = TRUE].status = row[a].status
      BY <1>0 DEF Row
    <3>. QED BY <1>2, <1>6, <3>1, <3>2 DEF SyncRepo
  <2>5. QuietMatches'
    BY <2>1, <2>4 DEF Calm, Settled, QuietMatches, Matches
  <2>6. TasksGood'
    BY <2>3 DEF TasksGood
  <2>. QED BY <2>5, <2>6 DEF Settled
<1>. QED BY <1>3, <1>4, <1>5, <1>6 DEF Request

(* A request of the wake proxy arrives. *)
LEMMA InternalWakeSettled ==
  ASSUME Calm, NEW w \in Wakers, NEW a \in Apps, InternalWake(w, a)
  PROVE  Settled'
<1>0. /\ w \in Actors /\ task \in [Actors -> Task] /\ Exclusive
  BY DEF Actors, Calm, Control, TypeOK
<1>1. ~Live(w) /\ Quiet(a)
  BY <1>0 DEF InternalWake, At, Live, Free
<1>2. /\ \A s \in Actors : s # w => task'[s] = task[s]
      /\ task'[w].app = a /\ task'[w].pc = "touch"
  BY <1>0 DEF InternalWake, IdleTask
<1>3. kube' = kube /\ row' = row
  BY DEF InternalWake
<1>. QED BY <1>0, <1>1, <1>2, <1>3, StartSettled DEF Lowered, Raised, Applying

(* The goroutines of the wake proxy's requests. *)
LEMMA WakerSettled ==
  ASSUME Calm, NEW w \in Wakers, WakerStep(w)
  PROVE  Settled'
<1>0. /\ w \in Actors /\ task \in [Actors -> Task] /\ row \in [Apps -> Row]
      /\ IdleTask.pc = "idle"
  BY DEF Actors, Calm, Control, TypeOK, IdleTask
<1>. USE DEF Lowered, Raised, Applying
<1>1. ASSUME task[w].pc \in {"touch", "gate", "finish"}
      PROVE  /\ Live(w) /\ App(w) \in Apps /\ row[App(w)] \in Row
             /\ Matches(kube[App(w)], row[App(w)].status)
  BY <1>0, <1>1, AtWorkFacts DEF GoodAt, Between
<1>2. CASE WakeTouch(w)
  <2>. DEFINE a == App(w)
              r == [row[a] EXCEPT !.last_active = "fresh"]
  <2>1. /\ Live(w) /\ a \in Apps /\ row[a] \in Row
        /\ Matches(kube[a], row[a].status)
    BY <1>1, <1>2 DEF WakeTouch, At
  <2>2. RowUpdate(w, r, "gate") /\ "gate" \in Pc
    BY <1>2 DEF WakeTouch, Pc
  <2>3. r.status = row[a].status
    BY <2>1 DEF Row
  <2>. HIDE DEF r
  <2>4. GoodAt("gate", kube[a], r.status)
    BY <2>1, <2>3 DEF GoodAt
  <2>. QED BY <1>0, <2>1, <2>2, <2>4, RowUpdateSettled
<1>3. CASE WakeRefused(w) \/ WakeFinish(w) \/ LoadOrStore(w)
  <2>1. PICK a \in Apps : a = App(w)
    BY <1>1, <1>3 DEF WakeRefused, WakeFinish, LoadOrStore, At
  <2>2. Live(w) /\ Matches(kube[a], row[a].status)
    BY <1>1, <1>3, <2>1 DEF WakeRefused, WakeFinish, LoadOrStore, At
  <2>3. kube' = kube /\ row' = row
    BY <1>3 DEF WakeRefused, WakeFinish, LoadOrStore
  <2>4. /\ \A s \in Actors : s # w => task'[s] = task[s]
        /\ \/ task'[w].pc = "idle"
           \/ task'[w].pc = "wake_scale" /\ task'[w].app = task[w].app
    <3>1. PICK v : task' = [task EXCEPT ![w] = v]
                     /\ v \in {IdleTask, [task[w] EXCEPT !.pc = "wake_scale", !.kind = "wake"]}
      BY <1>3 DEF WakeRefused, WakeFinish, LoadOrStore
    <3>2. \/ v.pc = "idle"
          \/ v.pc = "wake_scale" /\ v.app = task[w].app
      BY <1>0, <3>1 DEF Task
    <3>. QED BY <1>0, <3>1, <3>2
  <2>5. GoodAt(task'[w].pc, kube[a], row[a].status)
    BY <2>2, <2>4 DEF GoodAt
  <2>6. Live(w)' => task'[w].app = task[w].app
    BY <2>4 DEF Live
  <2>. QED BY <1>0, <2>1, <2>2, <2>3, <2>4, <2>5, <2>6, StepSettled
<1>4. CASE WakeStep(w)
  BY <1>4, WakeSettled
<1>. QED BY <1>2, <1>3, <1>4 DEF WakerStep

(* The watchers. *)
LEMMA WatcherSettled ==
  ASSUME Calm, IdleStep \/ BudgetStep
  PROVE  Settled'
<1>1. PICK w \in Watchers :
        \/ WatcherStep(w)
        \/ w = IdleWatcher /\ (IdleDesired \/ IdleQueues \/ IdleRow)
  BY DEF IdleStep, BudgetStep
<1>2. /\ w \in Actors /\ task \in [Actors -> Task] /\ row \in [Apps -> Row]
      /\ IdleTask.pc = "idle" /\ Exclusive
  BY DEF Actors, Calm, Control, TypeOK, IdleTask
<1>. USE DEF Lowered, Raised, Applying
<1>3. CASE WatcherTick(w) \/ WatcherDone(w) \/ \E a \in Apps : SkipExempt(w, a)
  <2>1. task[w].pc \in {"idle", "next"} /\ kube' = kube /\ row' = row
    BY <1>3 DEF WatcherTick, WatcherDone, SkipExempt, At
  <2>2. /\ task'[w].pc \in {"idle", "next"}
        /\ \A t \in Actors : t # w => task'[t] = task[t]
    <3>1. CASE WatcherTick(w) \/ WatcherDone(w)
      BY <1>2, <3>1 DEF WatcherTick, WatcherDone, IdleTask
    <3>2. ASSUME NEW a \in Apps, SkipExempt(w, a)
          PROVE  /\ task'[w].pc \in {"idle", "next"}
                 /\ \A t \in Actors : t # w => task'[t] = task[t]
      BY <1>2, <3>2 DEF SkipExempt, At, Task
    <3>. QED BY <1>3, <3>1, <3>2
  <2>3. \A t \in Actors : task'[t] = task[t] \/ (~Live(t) /\ ~Live(t)')
    BY <2>1, <2>2 DEF Live
  <2>. QED BY <2>1, <2>3, StillSettled
<1>4. ASSUME NEW a \in Apps, WatcherPick(w, a) PROVE Settled'
  <2>. DEFINE first == IF w = BudgetWatcher THEN FirstHib(a)
                       ELSE IF IsHttp(a) THEN "idle_desired" ELSE "idle_queues"
  <2>1. ~Live(w) /\ Quiet(a)
    BY <1>2, <1>4 DEF WatcherPick, At, Live, Free
  <2>2. /\ \A s \in Actors : s # w => task'[s] = task[s]
        /\ task'[w].app = a /\ task'[w].pc = first
    BY <1>2, <1>4 DEF WatcherPick, Task
  <2>3. first \in {"hib_route", "hib_scale", "idle_desired", "idle_queues"}
    BY DEF FirstHib
  <2>. HIDE DEF first
  <2>4. kube' = kube /\ row' = row
    BY <1>4 DEF WatcherPick
  <2>. QED BY <1>2, <2>1, <2>2, <2>3, <2>4, StartSettled
<1>5. CASE HibernateStep(w)
  BY <1>5, HibernateSettled
<1>6. CASE w = IdleWatcher /\ (IdleDesired \/ IdleRow \/ IdleQueues)
  <2>. DEFINE a == App(w)
  <2>1. task[w].pc \in {"idle_desired", "idle_row", "idle_queues"}
    BY <1>6 DEF IdleDesired, IdleRow, IdleQueues, At
  <2>2. /\ Live(w) /\ a \in Apps /\ row[a] \in Row
        /\ Matches(kube[a], row[a].status)
    BY <1>2, <2>1, AtWorkFacts DEF GoodAt, Between
  <2>3. PICK next \in {"idle_row", "next", "hib_route", "hib_scale"} : Goto(w, next)
    BY <1>6 DEF IdleDesired, IdleRow, IdleQueues, FirstHib
  <2>4. next \in Pc
    BY DEF Pc, WatchPc, HibPc
  <2>5. [row[a] EXCEPT !.last_active = "fresh"].status = row[a].status
    BY <2>2 DEF Row
  <2>6. PICK r : row' = [row EXCEPT ![a] = r] /\ r.status = row[a].status
    <3>1. row = [row EXCEPT ![a] = row[a]]
      BY <1>2
    <3>. QED BY <1>6, <2>5, <3>1 DEF IdleDesired, IdleRow, IdleQueues
  <2>7. GoodAt(next, kube[a], r.status)
    BY <2>2, <2>6 DEF GoodAt
  <2>8. kube' = kube
    BY <1>6 DEF IdleDesired, IdleRow, IdleQueues
  <2>. QED BY <1>2, <2>2, <2>3, <2>4, <2>6, <2>7, <2>8, RowSettled
<1>. QED BY <1>1, <1>3, <1>4, <1>5, <1>6 DEF WatcherStep

(* The cluster's controllers scale nothing and route nothing, except that  *)
(* a deleted namespace takes everything with it.                           *)
LEMMA EnvironmentSettled ==
  ASSUME Calm, Cloud \/ \E a \in Apps : Idle(a)
  PROVE  Settled'
<1>0. kube \in [Apps -> Cluster] /\ row \in [Apps -> Row]
  BY DEF Calm, Control, TypeOK
<1>1. ASSUME NEW a \in Apps, PodReady(a) \/ PodGone(a) \/ NamespaceGone(a)
      PROVE  Settled'
  <2>1. row' = row /\ task' = task /\ \A b \in Apps : b # a => kube'[b] = kube[b]
    BY <1>0, <1>1 DEF PodReady, PodGone, NamespaceGone
  <2>2. \/ kube'[a].scale = kube[a].scale /\ kube'[a].route = kube[a].route
        \/ kube'[a] = NoCluster
    BY <1>0, <1>1 DEF PodReady, PodGone, NamespaceGone, Cluster
  <2>3. ASSUME NEW status, Matches(kube[a], status)
        PROVE  Matches(kube'[a], status)
    BY <2>2, <2>3 DEF Matches, NoCluster
  <2>4. ASSUME NEW pc, NEW status, GoodAt(pc, kube[a], status)
        PROVE  GoodAt(pc, kube'[a], status)
    BY <2>2, <2>4 DEF GoodAt, Matches, NoCluster
  <2>5. ASSUME NEW b \in Apps, Quiet(b)' PROVE Matches(kube'[b], row[b].status)
    <3>1. Quiet(b)
      BY <2>1, <2>5 DEF Quiet, Live, App
    <3>2. Matches(kube[b], row[b].status)
      BY <3>1 DEF Calm, Settled, QuietMatches
    <3>. QED BY <2>1, <2>3, <3>2
  <2>6. QuietMatches'
    BY <2>1, <2>5 DEF QuietMatches, Matches
  <2>7. ASSUME NEW t \in Actors, Live(t)
        PROVE  GoodAt(task[t].pc, kube'[App(t)], row[App(t)].status)
    <3>1. App(t) \in Apps /\ GoodAt(task[t].pc, kube[App(t)], row[App(t)].status)
      BY <2>7, AtWorkFacts DEF Live
    <3>. QED BY <2>1, <2>4, <3>1
  <2>8. TasksGood'
    BY <2>1, <2>7 DEF TasksGood, GoodAt, Matches, Live, App
  <2>. QED BY <2>6, <2>8 DEF Settled
<1>2. ASSUME NEW a \in Apps, Idle(a) PROVE Settled'
  <2>1. \A b \in Apps : row'[b].status = row[b].status
    BY <1>0, <1>2 DEF Idle, Row
  <2>. QED BY <1>2, <2>1, StillSettled DEF Idle
<1>. QED BY <1>1, <1>2 DEF Cloud

(* Every step preserves Settled. *)
LEMMA SettledNext == Control /\ Ordered /\ Settled /\ [Next]_vars => Settled'
<1>. SUFFICES ASSUME Control, Ordered, Settled, [Next]_vars, Exclusive, ~MayCrash
              PROVE  Settled'
  BY DEF Settled
<1>0. Calm
  BY DEF Calm
<1>1. ASSUME NEW o \in Ops, Request(o) PROVE Settled'
  BY <1>0, <1>1, RequestSettled
<1>2. ASSUME NEW o \in Ops, OpStep(o) PROVE Settled'
  BY <1>0, <1>2, OperationSettled, DeploySettled, HibernateSettled, WakeSettled,
     DeleteSettled DEF OpStep
<1>3. ASSUME NEW w \in Wakers, WakerStep(w) \/ \E a \in Apps : InternalWake(w, a)
      PROVE  Settled'
  BY <1>0, <1>3, WakerSettled, InternalWakeSettled
<1>4. CASE IdleStep \/ BudgetStep
  BY <1>0, <1>4, WatcherSettled
<1>5. CASE Cloud \/ \E a \in Apps : Idle(a)
  BY <1>0, <1>5, EnvironmentSettled
<1>6. CASE UNCHANGED vars
  BY <1>0, <1>6, StillSettled DEF vars
<1>. QED BY <1>1, <1>2, <1>3, <1>4, <1>5, <1>6 DEF Next, Crash

-----------------------------------------------------------------------------
(* The theorems that rest on Settled. *)

(* Settled is an invariant. *)
THEOREM SettledInvariant == Spec => []Settled
BY SettledInit, SettledNext, ControlInvariant, OrderedInvariant, PTL DEF Spec

(* An app that the API shows as hibernated is not routed around the wake   *)
(* proxy, and one that it shows as running is not scaled to zero, whenever *)
(* no task is at work on it: deploy, hibernateApp, wakeApp, deleteApp and  *)
(* the watchers write the row after the cluster and, at every Kubernetes   *)
(* call that can fail, leave a status that fits what was done so far.      *)
THEOREM StatusAgrees == Spec => []StatusMatchesCluster
<1>1. Settled => StatusMatchesCluster
  BY DEF Settled, QuietMatches, Matches, StatusMatchesCluster
<1>. QED BY <1>1, SettledInvariant, PTL
=============================================================================
