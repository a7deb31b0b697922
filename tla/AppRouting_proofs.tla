------------------------- MODULE AppRouting_proofs -------------------------
(***************************************************************************)
(* For tasks that do not overlap (Exclusive), the order of the Kubernetes  *)
(* calls keeps the route away from a workload that is scaled to zero, and  *)
(* a deleted app without a live namespace, at whatever call an error or a  *)
(* crash stops a task.                                                     *)
(*                                                                         *)
(* Neither property is inductive.  Ordered adds what each program counter  *)
(* relies on: which call of the task has already been made (TaskOK), how   *)
(* the objects of a namespace depend on each other (AppOK), and that no    *)
(* other goroutine works on the same app (OneTask).                        *)
(***************************************************************************)
EXTENDS AppLifecycle_proofs

OneTask ==
  \A s, t \in Actors : Live(s) /\ Live(t) /\ App(s) = App(t) => s = t

(* What holds of the objects k of app a, whose row has this status,        *)
(* between any two calls.                                                  *)
ObjectsOK(a, k, status) ==
  /\ k.ns = "absent" => k.scale = "none" /\ ~k.svc /\ k.route = "none"
  /\ k.svc => k.scale # "none"
  /\ ~IsHttp(a) => k.route # "app"
  /\ k.route = "app" => k.scale = "one"
  /\ status = "deleted" => k.ns # "active"

(* What a goroutine at pc relies on. *)
Needs(pc, a, k, status) ==
  /\ pc = "hib_scale" => k.route # "app"
  /\ pc \in {"apply_service", "apply_route"} =>
       IsHttp(a) /\ (k.scale = "one" \/ k.ns = "absent")
  /\ pc \in {"wake_watch", "wake_lookup", "wake_route"} =>
       IsHttp(a) /\ k.scale # "zero"
  /\ pc = "apply_ns" => status = "deploying"
  /\ pc = "del_status" => k.ns # "active"

AppOK(a) == ObjectsOK(a, kube[a], row[a].status)

TaskOK(t) == Needs(task[t].pc, App(t), kube[App(t)], row[App(t)].status)

Ordered ==
  Exclusive => OneTask /\ (\A a \in Apps : AppOK(a)) /\ (\A t \in Actors : TaskOK(t))

-----------------------------------------------------------------------------
(* Frames: what a step must show for Ordered to survive it. *)

(* A step of a goroutine at work, on its own app. *)
LEMMA StepOfTask ==
  ASSUME Control, Exclusive, Ordered, NEW t \in Actors, Live(t),
         NEW a \in Apps, App(t) = a,
         \A s \in Actors : s # t => task'[s] = task[s],
         Live(t)' => task'[t].app = task[t].app,
         \A b \in Apps : b # a => kube'[b] = kube[b] /\ row'[b] = row[b],
         AppOK(a)', TaskOK(t)'
  PROVE  Ordered'
<1>1. OneTask'
  BY DEF Ordered, OneTask, Live, App
<1>2. ASSUME NEW b \in Apps PROVE AppOK(b)'
  <2>1. CASE b = a
    BY <2>1
  <2>2. CASE b # a
    BY <2>2 DEF Ordered, AppOK, ObjectsOK
  <2>. QED BY <2>1, <2>2
<1>3. ASSUME NEW s \in Actors PROVE TaskOK(s)'
  <2>1. CASE s = t
    BY <2>1
  <2>2. CASE s # t /\ ~Live(s)
    BY <2>2 DEF TaskOK, Needs, Live
  <2>3. CASE s # t /\ Live(s)
    <3>1. App(s) # App(t)
      BY <2>3 DEF Ordered, OneTask
    <3>2. App(s) \in Apps
      BY <2>3 DEF Control, HasApp, Busy, Live, App, TypeOK, Task
    <3>3. task'[s] = task[s] /\ App(s)' = App(s)
      BY <2>3 DEF App
    <3>4. kube'[App(s)] = kube[App(s)] /\ row'[App(s)] = row[App(s)]
      BY <3>1, <3>2
    <3>. QED BY <3>3, <3>4 DEF Ordered, TaskOK, Needs
  <2>. QED BY <2>1, <2>2, <2>3
<1>. QED BY <1>1, <1>2, <1>3 DEF Ordered

(* A goroutine that was not at work takes an app that nobody works on. *)
LEMMA StartOfTask ==
  ASSUME Control, Exclusive, Ordered, NEW t \in Actors, NEW a \in Apps, Quiet(a),
         ~Live(t),
         \A s \in Actors : s # t => task'[s] = task[s],
         task'[t].app = a,
         kube' = kube,
         \A b \in Apps : b # a => row'[b] = row[b],
         row'[a].status \in {row[a].status, "pending"},
         task'[t].pc = "hib_scale" => kube[a].route # "app",
         task'[t].pc \notin {"apply_service", "apply_route", "wake_watch",
                    "wake_lookup", "wake_route", "apply_ns", "del_status"}
  PROVE  Ordered'
<1>1. \A s \in Actors : Live(s) => App(s) # a
  BY DEF Quiet, App
<1>2. OneTask'
  BY <1>1 DEF Ordered, OneTask, Live, App
<1>3. ASSUME NEW b \in Apps PROVE AppOK(b)'
  BY DEF Ordered, AppOK, ObjectsOK
<1>4. ASSUME NEW s \in Actors PROVE TaskOK(s)'
  <2>1. CASE s = t
    BY <2>1 DEF TaskOK, Needs, App
  <2>2. CASE s # t /\ ~Live(s)
    BY <2>2 DEF TaskOK, Needs, Live
  <2>3. CASE s # t /\ Live(s)
    <3>1. App(s) # a
      BY <1>1, <2>3
    <3>2. App(s) \in Apps
      BY <2>3 DEF Control, HasApp, Busy, Live, App, TypeOK, Task
    <3>3. task'[s] = task[s] /\ App(s)' = App(s)
      BY <2>3 DEF App
    <3>4. row'[App(s)] = row[App(s)]
      BY <3>1, <3>2
    <3>. QED BY <3>3, <3>4 DEF Ordered, TaskOK, Needs
  <2>. QED BY <2>1, <2>2, <2>3
<1>. QED BY <1>2, <1>3, <1>4 DEF Ordered

(* A step after which the goroutines at work are a part of those before,   *)
(* with nothing changed that Ordered reads.                                *)
LEMMA QuietStep ==
  ASSUME Ordered, kube' = kube,
         \A a \in Apps : row'[a].status = row[a].status,
         Control,
         \A t \in Actors : task'[t] = task[t] \/ ~Live(t)'
  PROVE  Ordered'
<1>. SUFFICES ASSUME Exclusive PROVE Ordered'
  BY DEF Ordered
<1>1. OneTask'
  BY DEF Ordered, OneTask, Live, App
<1>2. \A a \in Apps : AppOK(a)'
  BY DEF Ordered, AppOK, ObjectsOK
<1>3. ASSUME NEW t \in Actors PROVE TaskOK(t)'
  <2>1. CASE ~Live(t)'
    BY <2>1 DEF TaskOK, Needs, Live
  <2>2. CASE task'[t] = task[t] /\ Live(t)
    <3>1. App(t) \in Apps
      BY <2>2 DEF Control, HasApp, Busy, Live, App, TypeOK, Task
    <3>. QED BY <2>2, <3>1 DEF Ordered, TaskOK, Needs, App
  <2>. QED BY <2>1, <2>2 DEF Live
<1>. QED BY <1>1, <1>2, <1>3 DEF Ordered

(* No goroutine and no object exists at the start. *)
LEMMA OrderedInit == Init => Ordered
<1>. SUFFICES ASSUME Init PROVE Ordered
  OBVIOUS
<1>1. \A t \in Actors : task[t].pc = "idle"
  BY DEF Init, IdleTask
<1>2. OneTask /\ \A t \in Actors : TaskOK(t)
  BY <1>1 DEF OneTask, Live, TaskOK, Needs
<1>3. \A a \in Apps : AppOK(a)
  BY DEF Init, AppOK, ObjectsOK, NoCluster, NoRow
<1>. QED BY <1>2, <1>3 DEF Ordered

(* A Kubernetes call: on success the new objects are in order and satisfy  *)
(* the next statement; an error leads to a statement that needs nothing.   *)
LEMMA KubeCallOrdered ==
  ASSUME Control, Exclusive, Ordered, NEW t \in Actors, Live(t),
         NEW a \in Apps, App(t) = a, NEW possible, NEW k, NEW next \in Pc,
         next # "done", KubeCall(t, possible, k, next),
         possible => ObjectsOK(a, k, row[a].status) /\ Needs(next, a, k, row[a].status)
  PROVE  Ordered'
<1>1. OnError(t) \in {"fail_op", "finish", "next"} /\ OnError(t) \in Pc
  BY DEF OnError, Pc, OpEndPc, WatchPc
<1>2. row' = row /\ kube \in [Apps -> Cluster] /\ TypeOK
  BY DEF KubeCall, Control, TypeOK
<1>3. CASE possible /\ kube' = [kube EXCEPT ![App(t)] = k] /\ Goto(t, next)
  <2>1. /\ \A s \in Actors : s # t => task'[s] = task[s]
        /\ task'[t].pc = next /\ task'[t].app = task[t].app
    BY <1>2, <1>3, GotoEffect
  <2>2. kube'[a] = k /\ \A b \in Apps : b # a => kube'[b] = kube[b]
    BY <1>2, <1>3
  <2>3. AppOK(a)'
    BY <1>2, <1>3, <2>2 DEF AppOK, ObjectsOK
  <2>4. App(t)' = a
    BY <2>1 DEF App
  <2>5. TaskOK(t)'
    BY <1>2, <1>3, <2>1, <2>2, <2>4 DEF TaskOK, Needs
  <2>. QED BY <1>2, <2>1, <2>2, <2>3, <2>5, StepOfTask
<1>4. CASE Goto(t, OnError(t)) /\ UNCHANGED kube
  <2>1. /\ \A s \in Actors : s # t => task'[s] = task[s]
        /\ task'[t].pc = OnError(t) /\ task'[t].app = task[t].app
    BY <1>1, <1>2, <1>4, GotoEffect
  <2>2. AppOK(a)'
    BY <1>2, <1>4 DEF Ordered, AppOK, ObjectsOK
  <2>3. TaskOK(t)'
    BY <1>1, <2>1 DEF TaskOK, Needs
  <2>. QED BY <1>2, <1>4, <2>1, <2>2, <2>3, StepOfTask
<1>. QED BY <1>3, <1>4 DEF KubeCall

(* A step that leaves the cluster alone and gives the row of the task's    *)
(* app the value r.                                                        *)
LEMMA RowOrdered ==
  ASSUME Control, Exclusive, Ordered, NEW t \in Actors, Live(t),
         NEW a \in Apps, App(t) = a, NEW r, NEW next \in Pc, Goto(t, next),
         kube' = kube, row' = [row EXCEPT ![a] = r],
         ObjectsOK(a, kube[a], r.status), Needs(next, a, kube[a], r.status)
  PROVE  Ordered'
<1>1. row \in [Apps -> Row] /\ TypeOK
  BY DEF Control, TypeOK
<1>2. /\ \A s \in Actors : s # t => task'[s] = task[s]
      /\ task'[t].pc = next
      /\ next # "done" => task'[t].app = task[t].app
  BY <1>1, GotoEffect
<1>3. row'[a] = r /\ \A b \in Apps : b # a => row'[b] = row[b]
  BY <1>1
<1>4. AppOK(a)'
  BY <1>3 DEF AppOK, ObjectsOK
<1>5. TaskOK(t)'
  BY <1>2, <1>3 DEF TaskOK, Needs, App
<1>6. Live(t)' => task'[t].app = task[t].app
  BY <1>2 DEF Live
<1>. QED BY <1>2, <1>3, <1>4, <1>5, <1>6, StepOfTask

(* The same for an UPDATE of the row. *)
LEMMA RowUpdateOrdered ==
  ASSUME Control, Exclusive, Ordered, NEW t \in Actors, Live(t),
         NEW a \in Apps, App(t) = a, NEW r, NEW next \in Pc, RowUpdate(t, r, next),
         ObjectsOK(a, kube[a], r.status), Needs(next, a, kube[a], r.status)
  PROVE  Ordered'
BY RowOrdered DEF RowUpdate

(* A step that leaves the cluster and the apps table alone. *)
LEMMA ReadOrdered ==
  ASSUME Control, Exclusive, Ordered, NEW t \in Actors, Live(t),
         NEW a \in Apps, App(t) = a, NEW next \in Pc, Goto(t, next),
         kube' = kube, row' = row, Needs(next, a, kube[a], row[a].status)
  PROVE  Ordered'
<1>1. row' = [row EXCEPT ![a] = row[a]]
  BY DEF Control, TypeOK
<1>2. ObjectsOK(a, kube[a], row[a].status)
  BY DEF Ordered, AppOK
<1>. QED BY <1>1, <1>2, RowOrdered

-----------------------------------------------------------------------------
(* One lemma per group of actions. *)

(* A goroutine at work: its app, and what Ordered says of both. *)
LEMMA WorkingFacts ==
  ASSUME Control, Exclusive, Ordered, NEW t \in Actors,
         task[t].pc \notin {"idle", "done", "lost", "next"}
  PROVE  /\ Live(t)
         /\ App(t) \in Apps
         /\ ObjectsOK(App(t), kube[App(t)], row[App(t)].status)
         /\ Needs(task[t].pc, App(t), kube[App(t)], row[App(t)].status)
         /\ kube[App(t)] \in Cluster
         /\ row[App(t)] \in Row
<1>1. task[t].pc \in Busy
  BY DEF Control, TypeOK, Task, Busy
<1>2. App(t) \in Apps /\ kube[App(t)] \in Cluster /\ row[App(t)] \in Row
  BY <1>1, AtWork
<1>3. Live(t)
  BY DEF Live
<1>4. AppOK(App(t)) /\ TaskOK(t)
  BY <1>2 DEF Ordered
<1>. QED BY <1>2, <1>3, <1>4 DEF AppOK, TaskOK

(* kube.Apply, the rollout and what follows it. *)
LEMMA DeployOrdered ==
  ASSUME Control, Exclusive, Ordered, NEW o \in Ops, DeployStep(o)
  PROVE  Ordered'
<1>. DEFINE a == App(o)
            k == kube[a]
            st == row[a].status
<1>0. o \in Actors
  BY DEF Actors
<1>1. task[o].pc \in DeployPc
  BY DEF DeployStep, DeployingStatus, ApplyNamespace, ApplyWorkload,
         ApplyAppService, ApplyHTTPRoute, RolloutSucceeds, RolloutFails,
         RollbackDeployment, RollbackImages, DeployedImages, DeployedStatus,
         DeployedEvent, At, DeployPc
<1>2. /\ Live(o) /\ a \in Apps /\ k \in Cluster /\ row[a] \in Row
      /\ ObjectsOK(a, k, st) /\ Needs(task[o].pc, a, k, st)
  BY <1>0, <1>1, WorkingFacts DEF DeployPc
<1>3. DeployPc \cup {"fail_op", "succeed"} \subseteq Pc
  BY DEF Pc, OpEndPc
<1>. USE <1>0
<1>4. CASE DeployingStatus(o)
  <2>. DEFINE r == UpdateAppStatus(row[a], "deploying")
  <2>1. r.status = "deploying"
    BY <1>2 DEF UpdateAppStatus, Row
  <2>2. ObjectsOK(a, k, r.status) /\ Needs("apply_ns", a, k, r.status)
    BY <1>2, <2>1 DEF ObjectsOK, Needs
  <2>3. RowUpdate(o, r, "apply_ns") /\ "apply_ns" \in Pc
    BY <1>3, <1>4 DEF DeployingStatus, DeployPc
  <2>. HIDE DEF r
  <2>. QED BY <1>2, <2>2, <2>3, RowUpdateOrdered
<1>5. CASE ApplyNamespace(o)
  <2>. DEFINE k2 == IF k.ns = "absent" THEN [k EXCEPT !.ns = "active"] ELSE k
  <2>1. KubeCall(o, TRUE, k2, "apply_workload")
    BY <1>5 DEF ApplyNamespace
  <2>2. st = "deploying"
    BY <1>2, <1>5 DEF ApplyNamespace, At, Needs
  <2>3. ObjectsOK(a, k2, st) /\ Needs("apply_workload", a, k2, st)
    BY <1>2, <2>2 DEF ObjectsOK, Needs, Cluster
  <2>4. "apply_workload" \in Pc
    BY <1>3 DEF DeployPc
  <2>. HIDE DEF k2
  <2>. QED BY <1>2, <2>1, <2>3, <2>4, KubeCallOrdered
<1>6. CASE ApplyWorkload(o)
  <2>. DEFINE k2 == [k EXCEPT !.scale = "one", !.image = task[o].image]
              next == CASE AppType[a] = "http" -> "apply_service"
                        [] AppType[a] = "worker" -> "rollout"
                        [] OTHER -> "images"
              possible == k.scale # "none" \/ k.ns = "active"
  <2>1. KubeCall(o, possible, k2, next)
    BY <1>6 DEF ApplyWorkload
  <2>2. /\ k2.scale = "one" /\ k2.ns = k.ns /\ k2.svc = k.svc /\ k2.route = k.route
    BY <1>2 DEF Cluster
  <2>3. possible => ObjectsOK(a, k2, st)
    BY <1>2, <2>2 DEF ObjectsOK
  <2>4. Needs(next, a, k2, st)
    BY <2>2 DEF Needs, IsHttp
  <2>5. next \in Pc /\ next # "done"
    BY <1>3 DEF DeployPc
  <2>. HIDE DEF k2, next, possible
  <2>. QED BY <1>2, <2>1, <2>3, <2>4, <2>5, KubeCallOrdered
<1>7. CASE ApplyAppService(o)
  <2>. DEFINE k2 == [k EXCEPT !.svc = TRUE]
              possible == k.svc \/ k.ns = "active"
  <2>1. KubeCall(o, possible, k2, "apply_route")
    BY <1>7 DEF ApplyAppService
  <2>2. k2.scale = k.scale /\ k2.ns = k.ns /\ k2.svc = TRUE /\ k2.route = k.route
    BY <1>2 DEF Cluster
  <2>3. IsHttp(a) /\ (k.scale = "one" \/ k.ns = "absent")
    BY <1>2, <1>7 DEF ApplyAppService, At, Needs
  <2>4. possible => ObjectsOK(a, k2, st) /\ Needs("apply_route", a, k2, st)
    BY <1>2, <2>2, <2>3 DEF ObjectsOK, Needs
  <2>5. "apply_route" \in Pc
    BY <1>3 DEF DeployPc
  <2>. HIDE DEF k2, possible
  <2>. QED BY <1>2, <2>1, <2>4, <2>5, KubeCallOrdered
<1>8. CASE ApplyHTTPRoute(o)
  <2>. DEFINE k2 == SetRoute(k, "app")
  <2>1. KubeCall(o, CanSetRoute(k), k2, "rollout")
    BY <1>8 DEF ApplyHTTPRoute
  <2>2. k2.scale = k.scale /\ k2.ns = k.ns /\ k2.svc = k.svc /\ k2.route = "app"
    BY <1>2 DEF Cluster, SetRoute
  <2>3. IsHttp(a) /\ (k.scale = "one" \/ k.ns = "absent")
    BY <1>2, <1>8 DEF ApplyHTTPRoute, At, Needs
  <2>4. CanSetRoute(k) => ObjectsOK(a, k2, st)
    BY <1>2, <2>2, <2>3 DEF ObjectsOK, CanSetRoute
  <2>5. Needs("rollout", a, k2, st) /\ "rollout" \in Pc
    BY <1>3 DEF Needs, DeployPc
  <2>. HIDE DEF k2
  <2>. QED BY <1>2, <2>1, <2>4, <2>5, KubeCallOrdered
<1>9. CASE RolloutSucceeds(o) \/ RolloutFails(o)
  <2>1. PICK next \in {"images", "fail_op", "rollback"} : Goto(o, next)
    BY <1>9 DEF RolloutSucceeds, RolloutFails
  <2>2. next \in Pc /\ Needs(next, a, k, st)
    BY <1>3 DEF Needs, DeployPc
  <2>3. kube' = kube /\ row' = row
    BY <1>9 DEF RolloutSucceeds, RolloutFails
  <2>. QED BY <1>2, <2>1, <2>2, <2>3, ReadOrdered
<1>10. CASE RollbackDeployment(o)
  <2>. DEFINE k2 == [k EXCEPT !.image = task[o].lastHealthy]
  <2>1. KubeCall(o, k.scale # "none", k2, "rollback_images")
    BY <1>10 DEF RollbackDeployment
  <2>2. k2.scale = k.scale /\ k2.ns = k.ns /\ k2.svc = k.svc /\ k2.route = k.route
    BY <1>2 DEF Cluster
  <2>3. ObjectsOK(a, k2, st) /\ Needs("rollback_images", a, k2, st)
    BY <1>2, <2>2 DEF ObjectsOK, Needs
  <2>4. "rollback_images" \in Pc
    BY <1>3 DEF DeployPc
  <2>. HIDE DEF k2
  <2>. QED BY <1>2, <2>1, <2>3, <2>4, KubeCallOrdered
<1>11. ASSUME NEW r, NEW next \in {"fail_op", "deployed_status", "deployed_event"},
              RowUpdate(o, r, next), r.status \in {st, "running"}
       PROVE  Ordered'
  <2>1. next \in Pc /\ ObjectsOK(a, k, r.status) /\ Needs(next, a, k, r.status)
    BY <1>2, <1>3, <1>11 DEF ObjectsOK, Needs, DeployPc
  <2>. QED BY <1>2, <1>11, <2>1, RowUpdateOrdered
<1>12. ASSUME NEW i PROVE UpdateAppImages(row[a], i).status = st
  BY <1>2 DEF UpdateAppImages, Row
<1>13. CASE RollbackImages(o)
  BY <1>11, <1>12, <1>13 DEF RollbackImages
<1>14. CASE DeployedImages(o)
  BY <1>11, <1>12, <1>14 DEF DeployedImages
<1>15. CASE DeployedStatus(o)
  <2>1. UpdateAppStatus(row[a], "running").status = "running"
    BY <1>2 DEF UpdateAppStatus, Row
  <2>. QED BY <1>11, <1>15, <2>1 DEF DeployedStatus
<1>16. CASE DeployedEvent(o)
  <2>1. Goto(o, "succeed") /\ kube' = kube /\ row' = row
    BY <1>16 DEF DeployedEvent, ScaleEvent
  <2>2. "succeed" \in Pc /\ Needs("succeed", a, k, st)
    BY <1>3 DEF Needs
  <2>. QED BY <1>2, <2>1, <2>2, ReadOrdered
<1>. QED
  BY <1>4, <1>5, <1>6, <1>7, <1>8, <1>9, <1>10, <1>13, <1>14,
     <1>15, <1>16 DEF DeployStep

(* Hibernation: the route goes to the proxy before the workload goes to 0. *)
LEMMA HibernateOrdered ==
  ASSUME Control, Exclusive, Ordered, NEW t \in Ops \cup Watchers, HibernateStep(t)
  PROVE  Ordered'
<1>. DEFINE a == App(t)
            k == kube[a]
            st == row[a].status
<1>0. t \in Actors
  BY DEF Actors
<1>1. task[t].pc \in HibPc
  BY DEF HibernateStep, HibRoute, HibScale, HibEvent, HibFlag, HibStatus, At, HibPc
<1>2. /\ Live(t) /\ a \in Apps /\ k \in Cluster /\ row[a] \in Row
      /\ ObjectsOK(a, k, st) /\ Needs(task[t].pc, a, k, st)
  BY <1>0, <1>1, WorkingFacts DEF HibPc
<1>3. HibPc \cup {"succeed", "next"} \subseteq Pc
  BY DEF Pc, OpEndPc, WatchPc
<1>. USE <1>0
<1>4. CASE HibRoute(t)
  <2>. DEFINE k2 == SetRoute(k, "proxy")
  <2>1. KubeCall(t, CanSetRoute(k), k2, "hib_scale")
    BY <1>4 DEF HibRoute
  <2>2. k2.scale = k.scale /\ k2.ns = k.ns /\ k2.svc = k.svc /\ k2.route = "proxy"
    BY <1>2 DEF Cluster, SetRoute
  <2>3. CanSetRoute(k) => ObjectsOK(a, k2, st)
    BY <1>2, <2>2 DEF ObjectsOK, CanSetRoute
  <2>4. Needs("hib_scale", a, k2, st) /\ "hib_scale" \in Pc
    BY <1>3, <2>2 DEF Needs, HibPc
  <2>. HIDE DEF k2
  <2>. QED BY <1>2, <2>1, <2>3, <2>4, KubeCallOrdered
<1>5. CASE HibScale(t)
  <2>. DEFINE k2 == ScaleDeployment(k, "zero")
  <2>1. KubeCall(t, TRUE, k2, "hib_event")
    BY <1>5 DEF HibScale
  <2>2. /\ k2.ns = k.ns /\ k2.svc = k.svc /\ k2.route = k.route
        /\ k2.scale = "none" <=> k.scale = "none"
    BY <1>2 DEF Cluster, ScaleDeployment
  <2>3. k.route # "app"
    BY <1>2, <1>5 DEF HibScale, At, Needs
  <2>4. ObjectsOK(a, k2, st) /\ Needs("hib_event", a, k2, st)
    BY <1>2, <2>2, <2>3 DEF ObjectsOK, Needs
  <2>5. "hib_event" \in Pc
    BY <1>3 DEF HibPc
  <2>. HIDE DEF k2
  <2>. QED BY <1>2, <2>1, <2>4, <2>5, KubeCallOrdered
<1>6. CASE HibEvent(t)
  <2>1. Goto(t, "hib_flag") /\ kube' = kube /\ row' = row
    BY <1>6 DEF HibEvent, ScaleEvent
  <2>2. "hib_flag" \in Pc /\ Needs("hib_flag", a, k, st)
    BY <1>3 DEF Needs, HibPc
  <2>. QED BY <1>2, <2>1, <2>2, ReadOrdered
<1>7. ASSUME NEW r, NEW next \in {"hib_status", "succeed", "next"},
             RowUpdate(t, r, next), r.status = "hibernated"
      PROVE  Ordered'
  <2>1. next \in Pc /\ ObjectsOK(a, k, r.status) /\ Needs(next, a, k, r.status)
    BY <1>2, <1>3, <1>7 DEF ObjectsOK, Needs, HibPc
  <2>. QED BY <1>2, <1>7, <2>1, RowUpdateOrdered
<1>8. CASE HibFlag(t)
  <2>1. SetAppHibernated(row[a]).status = "hibernated"
    BY <1>2 DEF SetAppHibernated, Row
  <2>. QED BY <1>7, <1>8, <2>1 DEF HibFlag
<1>9. CASE HibStatus(t)
  <2>1. UpdateAppStatus(row[a], "hibernated").status = "hibernated"
    BY <1>2 DEF UpdateAppStatus, Row
  <2>. QED BY <1>7, <1>9, <2>1 DEF HibStatus
<1>. QED BY <1>4, <1>5, <1>6, <1>8, <1>9 DEF HibernateStep

(* Waking: the workload is scaled up before the route leaves the proxy. *)
LEMMA WakeOrdered ==
  ASSUME Control, Exclusive, Ordered, NEW t \in Ops \cup Wakers, WakeStep(t)
  PROVE  Ordered'
<1>. DEFINE a == App(t)
            k == kube[a]
            st == row[a].status
<1>0. t \in Actors
  BY DEF Actors
<1>1. task[t].pc \in WakePc
  BY DEF WakeStep, WakeScale, WakeWatch, WakeLookup, WakeRoute, WakeEvent,
         WakeFlag, WakeStatus, At, WakePc
<1>2. /\ Live(t) /\ a \in Apps /\ k \in Cluster /\ row[a] \in Row
      /\ ObjectsOK(a, k, st) /\ Needs(task[t].pc, a, k, st)
  BY <1>0, <1>1, WorkingFacts DEF WakePc
<1>3. WakePc \cup {"succeed", "finish", "fail_op"} \subseteq Pc
  BY DEF Pc, OpEndPc
<1>. USE <1>0
<1>4. CASE WakeScale(t)
  <2>. DEFINE k2 == ScaleDeployment(k, "one")
              next == IF IsHttp(a) THEN "wake_watch"
                      ELSE IF t \in Ops THEN "wake_event" ELSE "wake_flag"
  <2>1. KubeCall(t, TRUE, k2, next)
    BY <1>4 DEF WakeScale
  <2>2. /\ k2.ns = k.ns /\ k2.svc = k.svc /\ k2.route = k.route
        /\ k2.scale = IF k.scale = "none" THEN "none" ELSE "one"
    BY <1>2 DEF Cluster, ScaleDeployment
  <2>3. ObjectsOK(a, k2, st)
    BY <1>2, <2>2 DEF ObjectsOK
  <2>4. Needs(next, a, k2, st)
    BY <2>2 DEF Needs
  <2>5. next \in Pc /\ next # "done"
    BY <1>3 DEF WakePc
  <2>. HIDE DEF k2, next
  <2>. QED BY <1>2, <2>1, <2>3, <2>4, <2>5, KubeCallOrdered
<1>5. CASE WakeWatch(t) \/ WakeLookup(t)
  <2>1. PICK next \in {"wake_route", "wake_lookup", "finish", "fail_op", "next"} :
          Goto(t, next)
    BY <1>5 DEF WakeWatch, WakeLookup, OnError
  <2>2. next \in Pc
    BY <1>3 DEF WakePc, Pc, WatchPc
  <2>3. Needs(next, a, k, st)
    BY <1>2, <1>5 DEF Needs, WakeWatch, WakeLookup, At
  <2>4. kube' = kube /\ row' = row
    BY <1>5 DEF WakeWatch, WakeLookup
  <2>. QED BY <1>2, <2>1, <2>2, <2>3, <2>4, ReadOrdered
<1>6. CASE WakeRoute(t)
  <2>. DEFINE k2 == SetRoute(k, "app")
              possible == k.svc /\ CanSetRoute(k)
              next == IF t \in Ops THEN "wake_event" ELSE "wake_flag"
  <2>1. KubeCall(t, possible, k2, next)
    BY <1>6 DEF WakeRoute
  <2>2. k2.scale = k.scale /\ k2.ns = k.ns /\ k2.svc = k.svc /\ k2.route = "app"
    BY <1>2 DEF Cluster, SetRoute
  <2>3. IsHttp(a) /\ k.scale # "zero" /\ k.scale \in {"none", "zero", "one"}
    BY <1>2, <1>6 DEF WakeRoute, At, Needs, Cluster
  <2>4. possible => ObjectsOK(a, k2, st)
    BY <1>2, <2>2, <2>3 DEF ObjectsOK, CanSetRoute
  <2>5. Needs(next, a, k2, st) /\ next \in Pc /\ next # "done"
    BY <1>3 DEF Needs, WakePc
  <2>. HIDE DEF k2, possible, next
  <2>. QED BY <1>2, <2>1, <2>4, <2>5, KubeCallOrdered
<1>7. CASE WakeEvent(t)
  <2>1. Goto(t, "wake_flag") /\ kube' = kube /\ row' = row
    BY <1>7 DEF WakeEvent, ScaleEvent
  <2>2. "wake_flag" \in Pc /\ Needs("wake_flag", a, k, st)
    BY <1>3 DEF Needs, WakePc
  <2>. QED BY <1>2, <2>1, <2>2, ReadOrdered
<1>8. ASSUME NEW r, NEW next \in {"wake_status", "succeed", "finish"},
             RowUpdate(t, r, next), r.status = "running"
      PROVE  Ordered'
  <2>1. next \in Pc /\ ObjectsOK(a, k, r.status) /\ Needs(next, a, k, r.status)
    BY <1>2, <1>3, <1>8 DEF ObjectsOK, Needs, WakePc
  <2>. QED BY <1>2, <1>8, <2>1, RowUpdateOrdered
<1>9. CASE WakeFlag(t)
  <2>1. SetAppAwake(row[a]).status = "running"
    BY <1>2 DEF SetAppAwake, Row
  <2>. QED BY <1>8, <1>9, <2>1 DEF WakeFlag
<1>10. CASE WakeStatus(t)
  <2>1. UpdateAppStatus(row[a], "running").status = "running"
    BY <1>2 DEF UpdateAppStatus, Row
  <2>. QED BY <1>8, <1>10, <2>1 DEF WakeStatus
<1>. QED BY <1>4, <1>5, <1>6, <1>7, <1>9, <1>10 DEF WakeStep

(* Deletion: the status is written after the namespace's deletion.  *)
LEMMA DeleteOrdered ==
  ASSUME Control, Exclusive, Ordered, NEW o \in Ops, DeleteStep(o)
  PROVE  Ordered'
<1>. DEFINE a == App(o)
            k == kube[a]
            st == row[a].status
<1>0. o \in Actors
  BY DEF Actors
<1>1. task[o].pc \in DeletePc
  BY DEF DeleteStep, DeleteRoute, DeleteService, DeleteAppNamespace,
         DeletedStatus, At, DeletePc
<1>2. /\ Live(o) /\ a \in Apps /\ k \in Cluster /\ row[a] \in Row
      /\ ObjectsOK(a, k, st) /\ Needs(task[o].pc, a, k, st)
  BY <1>0, <1>1, WorkingFacts DEF DeletePc
<1>3. DeletePc \cup {"succeed"} \subseteq Pc
  BY DEF Pc, OpEndPc
<1>. USE <1>0
<1>4. CASE DeleteRoute(o)
  <2>. DEFINE k2 == SetRoute(k, "none")
  <2>1. KubeCall(o, TRUE, k2, "del_service") /\ "del_service" \in Pc
    BY <1>3, <1>4 DEF DeleteRoute, DeletePc
  <2>2. k2.scale = k.scale /\ k2.ns = k.ns /\ k2.svc = k.svc /\ k2.route = "none"
    BY <1>2 DEF Cluster, SetRoute
  <2>3. ObjectsOK(a, k2, st) /\ Needs("del_service", a, k2, st)
    BY <1>2, <2>2 DEF ObjectsOK, Needs
  <2>. HIDE DEF k2
  <2>. QED BY <1>2, <2>1, <2>3, KubeCallOrdered
<1>5. CASE DeleteService(o)
  <2>. DEFINE k2 == [k EXCEPT !.svc = FALSE]
  <2>1. KubeCall(o, TRUE, k2, "del_ns") /\ "del_ns" \in Pc
    BY <1>3, <1>5 DEF DeleteService, DeletePc
  <2>2. k2.scale = k.scale /\ k2.ns = k.ns /\ ~k2.svc /\ k2.route = k.route
    BY <1>2 DEF Cluster
  <2>3. ObjectsOK(a, k2, st) /\ Needs("del_ns", a, k2, st)
    BY <1>2, <2>2 DEF ObjectsOK, Needs
  <2>. HIDE DEF k2
  <2>. QED BY <1>2, <2>1, <2>3, KubeCallOrdered
<1>6. CASE DeleteAppNamespace(o)
  <2>. DEFINE k2 == IF k.ns = "absent" THEN k ELSE [k EXCEPT !.ns = "terminating"]
  <2>1. KubeCall(o, TRUE, k2, "del_status") /\ "del_status" \in Pc
    BY <1>3, <1>6 DEF DeleteAppNamespace, DeletePc
  <2>2. /\ k2.scale = k.scale /\ k2.svc = k.svc /\ k2.route = k.route
        /\ k2.ns # "active" /\ (k2.ns = "absent" => k.ns = "absent")
    BY <1>2 DEF Cluster
  <2>3. ObjectsOK(a, k2, st) /\ Needs("del_status", a, k2, st)
    BY <1>2, <2>2 DEF ObjectsOK, Needs
  <2>. HIDE DEF k2
  <2>. QED BY <1>2, <2>1, <2>3, KubeCallOrdered
<1>7. CASE DeletedStatus(o)
  <2>. DEFINE r == UpdateAppStatus(row[a], "deleted")
  <2>1. RowUpdate(o, r, "succeed") /\ "succeed" \in Pc
    BY <1>3, <1>7 DEF DeletedStatus
  <2>2. r.status = "deleted"
    BY <1>2 DEF UpdateAppStatus, Row
  <2>3. k.ns # "active"
    BY <1>2, <1>7 DEF DeletedStatus, At, Needs
  <2>4. ObjectsOK(a, k, r.status) /\ Needs("succeed", a, k, r.status)
    BY <1>2, <2>2, <2>3 DEF ObjectsOK, Needs
  <2>. HIDE DEF r
  <2>. QED BY <1>2, <2>1, <2>4, RowUpdateOrdered
<1>. QED BY <1>4, <1>5, <1>6, <1>7 DEF DeleteStep

(* The steps on the operations table. *)
LEMMA OperationOrdered ==
  ASSUME Control, Exclusive, Ordered, NEW o \in Ops,
         \/ CreateOperation(o) \/ StartOperation(o) \/ SucceedOperation(o)
         \/ FailOperation(o) \/ FailStatus(o)
  PROVE  Ordered'
<1>. DEFINE a == App(o)
            k == kube[a]
            st == row[a].status
<1>0. o \in Actors
  BY DEF Actors
<1>1. task[o].pc \in {"create_op", "start_op", "succeed", "fail_op", "fail_status"}
  BY DEF CreateOperation, StartOperation, SucceedOperation, FailOperation,
         FailStatus, At
<1>2. /\ Live(o) /\ a \in Apps /\ k \in Cluster /\ row[a] \in Row
      /\ ObjectsOK(a, k, st)
  BY <1>0, <1>1, WorkingFacts
<1>. USE <1>0
<1>3. ASSUME NEW status, NEW next \in Pc, OpUpdate(o, status, next),
             Needs(next, a, k, st)
      PROVE  Ordered'
  BY <1>2, <1>3, ReadOrdered DEF OpUpdate
<1>4. CASE CreateOperation(o) \/ SucceedOperation(o) \/ FailOperation(o)
  <2>1. ASSUME NEW next \in {"start_op", "done", "fail_status"}
        PROVE  next \in Pc /\ Needs(next, a, k, st)
    BY <2>1 DEF Pc, OpEndPc, Needs
  <2>. QED BY <1>3, <1>4, <2>1 DEF CreateOperation, SucceedOperation, FailOperation
<1>5. CASE StartOperation(o)
  <2>. DEFINE next == FirstStep(task[o].kind, a)
  <2>1. next \in {"deploying", "hib_route", "hib_scale", "wake_scale", "del_route"}
    BY DEF FirstStep, FirstHib
  <2>2. next = "hib_scale" => ~IsHttp(a)
    BY DEF FirstStep, FirstHib
  <2>3. OpUpdate(o, "running", next)
    BY <1>5 DEF StartOperation
  <2>. HIDE DEF next
  <2>4. next \in Pc
    BY <2>1 DEF Pc, DeployPc, HibPc, WakePc, DeletePc
  <2>5. Needs(next, a, k, st)
    BY <1>2, <2>1, <2>2 DEF Needs, ObjectsOK
  <2>. QED BY <1>3, <2>3, <2>4, <2>5
<1>6. CASE FailStatus(o)
  <2>. DEFINE r == UpdateAppStatus(row[a], "failed")
  <2>1. RowUpdate(o, r, "done") /\ "done" \in Pc
    BY <1>6 DEF FailStatus, Pc
  <2>2. r.status = "failed"
    BY <1>2 DEF UpdateAppStatus, Row
  <2>3. ObjectsOK(a, k, r.status) /\ Needs("done", a, k, r.status)
    BY <1>2, <2>2 DEF ObjectsOK, Needs
  <2>. HIDE DEF r
  <2>. QED BY <1>2, <2>1, <2>3, RowUpdateOrdered
<1>. QED BY <1>4, <1>5, <1>6

(* The API's requests: each takes an app that nobody works on. *)
LEMMA RequestOrdered ==
  ASSUME Control, Exclusive, Ordered, NEW o \in Ops, Request(o)
  PROVE  Ordered'
<1>0. o \in Actors /\ TypeOK /\ task \in [Actors -> Task] /\ row \in [Apps -> Row]
  BY DEF Actors, Control, TypeOK
<1>1. ASSUME NEW a \in Apps, NEW img, NEW lh, NEW kind, At(o, "idle"), Free(a),
             NewTask(o, kind, a, img, lh), kube' = kube,
             \A b \in Apps : b # a => row'[b] = row[b],
             row'[a].status \in {row[a].status, "pending"}
      PROVE  Ordered'
  <2>1. ~Live(o) /\ Quiet(a)
    BY <1>1 DEF At, Live, Free
  <2>2. /\ \A s \in Actors : s # o => task'[s] = task[s]
        /\ task'[o].app = a /\ task'[o].pc = "create_op"
    BY <1>0, <1>1 DEF NewTask, IdleTask
  <2>. QED BY <1>0, <1>1, <2>1, <2>2, StartOfTask
<1>2. ASSUME NEW a \in Apps, NEW img PROVE UpsertRow(row[a], img).status = "pending"
  BY <1>0 DEF UpsertRow, Row, NoRow
<1>3. ASSUME NEW a \in Apps, NEW img \in Images, UpsertApp(o, a, img) PROVE Ordered'
  <2>1. row' = [row EXCEPT ![a] = UpsertRow(row[a], img)]
    BY <1>3 DEF UpsertApp
  <2>2. row'[a].status = "pending" /\ \A b \in Apps : b # a => row'[b] = row[b]
    BY <1>0, <1>2, <2>1
  <2>. QED BY <1>1, <1>3, <2>2 DEF UpsertApp
<1>4. ASSUME NEW a \in Apps, HibernateApp(o, a) \/ WakeApp(o, a) PROVE Ordered'
  BY <1>1, <1>4 DEF HibernateApp, WakeApp, RequestTask
<1>5. ASSUME NEW a \in Apps, DeleteApp(o, a) PROVE Ordered'
  <2>1. row'[a].status = row[a].status /\ \A b \in Apps : b # a => row'[b] = row[b]
    BY <1>0, <1>5 DEF DeleteApp, Row
  <2>. QED BY <1>1, <1>5, <2>1 DEF DeleteApp
<1>6. ASSUME NEW S \in SUBSET Apps, NEW declared \in [S -> Images],
             SyncRepo(o, declared)
      PROVE  Ordered'
  <2>1. \A s \in Actors : ~Live(s)
    <3>. SUFFICES ASSUME NEW s \in Actors, Live(s) PROVE FALSE
      OBVIOUS
    <3>1. App(s) \in Apps
      BY <1>0, WorkingFacts DEF Live
    <3>. QED BY <1>6, <3>1 DEF SyncRepo, Free, Quiet, App
  <2>2. \A s \in Actors : ~Live(s)'
    BY <1>0, <1>6, <2>1 DEF SyncRepo, IdleTask, Live
  <2>3. ASSUME NEW a \in Apps
        PROVE  row'[a].status \in {row[a].status, "pending"} /\ kube'[a] = kube[a]
    <3>1. row'[a] = IF a \in S THEN UpsertRow(row[a], declared[a])
                    ELSE IF Listed(a) THEN [row[a] EXCEPT !.deletion_pending = TRUE]
                    ELSE row[a]
      BY <1>6 DEF SyncRepo
    <3>2. [row[a] EXCEPT !.deletion_pending = TRUE].status = row[a].status
      BY <1>0 DEF Row
    <3>. QED BY <1>2, <1>6, <3>1, <3>2 DEF SyncRepo
  <2>4. ASSUME NEW a \in Apps PROVE AppOK(a)'
    BY <2>3 DEF Ordered, AppOK, ObjectsOK
  <2>5. OneTask' /\ \A s \in Actors : TaskOK(s)'
    BY <2>2 DEF OneTask, TaskOK, Needs, Live
  <2>. QED BY <2>4, <2>5 DEF Ordered
<1>. QED BY <1>3, <1>4, <1>5, <1>6 DEF Request

(* The requests of the wake proxy. *)
LEMMA WakerOrdered ==
  ASSUME Control, Exclusive, Ordered, NEW w \in Wakers,
         WakerStep(w) \/ \E a \in Apps : InternalWake(w, a)
  PROVE  Ordered'
<1>0. /\ w \in Actors /\ task \in [Actors -> Task] /\ row \in [Apps -> Row]
      /\ IdleTask.pc = "idle"
  BY DEF Actors, Control, TypeOK, IdleTask
<1>1. ASSUME NEW a \in Apps, InternalWake(w, a) PROVE Ordered'
  <2>1. ~Live(w) /\ Quiet(a)
    BY <1>1 DEF InternalWake, At, Live, Free
  <2>2. /\ \A s \in Actors : s # w => task'[s] = task[s]
        /\ task'[w].app = a /\ task'[w].pc = "touch"
    BY <1>0, <1>1 DEF InternalWake, IdleTask
  <2>. QED BY <1>0, <1>1, <2>1, <2>2, StartOfTask DEF InternalWake
<1>2. CASE WakeTouch(w)
  <2>. DEFINE a == App(w)
              r == [row[a] EXCEPT !.last_active = "fresh"]
  <2>1. /\ Live(w) /\ a \in Apps /\ row[a] \in Row
        /\ ObjectsOK(a, kube[a], row[a].status)
    BY <1>0, <1>2, WorkingFacts DEF WakeTouch, At
  <2>2. RowUpdate(w, r, "gate") /\ "gate" \in Pc
    BY <1>2 DEF WakeTouch, Pc
  <2>3. r.status = row[a].status
    BY <2>1 DEF Row
  <2>4. ObjectsOK(a, kube[a], r.status) /\ Needs("gate", a, kube[a], r.status)
    BY <2>1, <2>3 DEF Needs
  <2>. HIDE DEF r
  <2>. QED BY <1>0, <2>1, <2>2, <2>4, RowUpdateOrdered
<1>3. CASE \/ WakeRefused(w) \/ WakeFinish(w)
           \/ LoadOrStore(w) /\ wakingNow[App(w)]
  <2>1. task' = [task EXCEPT ![w] = IdleTask] /\ kube' = kube /\ row' = row
    BY <1>3 DEF WakeRefused, WakeFinish, LoadOrStore
  <2>2. \A t \in Actors : task'[t] = task[t] \/ ~Live(t)'
    BY <1>0, <2>1 DEF Live
  <2>. QED BY <2>1, <2>2, QuietStep
<1>4. CASE LoadOrStore(w) /\ ~wakingNow[App(w)]
  <2>1. /\ Live(w)
        /\ App(w) \in Apps
        /\ ObjectsOK(App(w), kube[App(w)], row[App(w)].status)
    BY <1>0, <1>4, WorkingFacts DEF LoadOrStore, At
  <2>0. PICK a \in Apps : a = App(w)
    BY <2>1
  <2>2. /\ \A s \in Actors : s # w => task'[s] = task[s]
        /\ task'[w].app = task[w].app /\ task'[w].pc = "wake_scale"
        /\ kube' = kube /\ row' = row
    BY <1>0, <1>4 DEF LoadOrStore, Task
  <2>3. AppOK(a)' /\ TaskOK(w)'
    BY <2>0, <2>1, <2>2 DEF AppOK, ObjectsOK, TaskOK, Needs
  <2>. QED BY <1>0, <2>0, <2>1, <2>2, <2>3, StepOfTask
<1>5. CASE WakeStep(w)
  BY <1>5, WakeOrdered
<1>6. CASE LoadOrStore(w)
  BY <1>3, <1>4, <1>6
<1>. QED BY <1>1, <1>2, <1>3, <1>5, <1>6 DEF WakerStep

(* The watchers. *)
LEMMA WatcherOrdered ==
  ASSUME Control, Exclusive, Ordered, IdleStep \/ BudgetStep
  PROVE  Ordered'
<1>1. PICK w \in Watchers :
        \/ WatcherStep(w)
        \/ w = IdleWatcher /\ (IdleDesired \/ IdleQueues \/ IdleRow)
  BY DEF IdleStep, BudgetStep
<1>2. /\ w \in Actors /\ task \in [Actors -> Task] /\ row \in [Apps -> Row]
      /\ IdleTask.pc = "idle"
  BY DEF Actors, Control, TypeOK, IdleTask
<1>3. CASE WatcherTick(w) \/ WatcherDone(w)
  <2>1. /\ task'[w].pc \in {"idle", "next"}
        /\ \A t \in Actors : t # w => task'[t] = task[t]
    BY <1>2, <1>3 DEF WatcherTick, WatcherDone, IdleTask
  <2>2. \A t \in Actors : task'[t] = task[t] \/ ~Live(t)'
    BY <1>2, <2>1 DEF Live
  <2>. QED BY <1>3, <2>2, QuietStep DEF WatcherTick, WatcherDone
<1>4. ASSUME NEW a \in Apps, SkipExempt(w, a) PROVE Ordered'
  <2>1. /\ task'[w].pc = "next"
        /\ \A t \in Actors : t # w => task'[t] = task[t]
    BY <1>2, <1>4 DEF SkipExempt, At, Task
  <2>2. \A t \in Actors : task'[t] = task[t] \/ ~Live(t)'
    BY <2>1 DEF Live
  <2>. QED BY <1>4, <2>2, QuietStep DEF SkipExempt
<1>5. ASSUME NEW a \in Apps, WatcherPick(w, a) PROVE Ordered'
  <2>. DEFINE first == IF w = BudgetWatcher THEN FirstHib(a)
                       ELSE IF IsHttp(a) THEN "idle_desired" ELSE "idle_queues"
  <2>1. ~Live(w) /\ Quiet(a)
    BY <1>5 DEF WatcherPick, At, Live, Free
  <2>2. /\ \A s \in Actors : s # w => task'[s] = task[s]
        /\ task'[w].app = a /\ task'[w].pc = first
    BY <1>2, <1>5 DEF WatcherPick, Task
  <2>3. /\ first \in {"hib_route", "hib_scale", "idle_desired", "idle_queues"}
        /\ first = "hib_scale" => ~IsHttp(a)
    BY DEF FirstHib
  <2>. HIDE DEF first
  <2>4. ~IsHttp(a) => kube[a].route # "app"
    BY DEF Ordered, AppOK, ObjectsOK
  <2>5. kube' = kube /\ row' = row
    BY <1>5 DEF WatcherPick
  <2>. QED BY <1>2, <2>1, <2>2, <2>3, <2>4, <2>5, StartOfTask
<1>6. CASE HibernateStep(w)
  BY <1>6, HibernateOrdered
<1>7. CASE w = IdleWatcher /\ (IdleDesired \/ IdleRow)
  <2>. DEFINE a == App(w)
  <2>1. Live(w) /\ a \in Apps /\ ObjectsOK(a, kube[a], row[a].status)
    BY <1>2, <1>7, WorkingFacts DEF IdleDesired, IdleRow, At
  <2>2. PICK next \in {"idle_row", "next", "hib_route", "hib_scale"} :
          Goto(w, next) /\ (next = "hib_scale" => ~IsHttp(a))
    BY <1>7 DEF IdleDesired, IdleRow, FirstHib
  <2>3. next \in Pc
    BY DEF Pc, WatchPc, HibPc
  <2>4. Needs(next, a, kube[a], row[a].status)
    BY <2>1, <2>2 DEF Needs, ObjectsOK
  <2>. QED BY <1>2, <1>7, <2>1, <2>2, <2>3, <2>4, ReadOrdered DEF IdleDesired, IdleRow
<1>8. CASE w = IdleWatcher /\ IdleQueues
  <2>. DEFINE a == App(w)
  <2>1. /\ Live(w) /\ a \in Apps /\ row[a] \in Row
        /\ ObjectsOK(a, kube[a], row[a].status)
    BY <1>2, <1>8, WorkingFacts DEF IdleQueues, At
  <2>2. PICK next \in {"idle_row", "next"} : Goto(w, next)
    BY <1>8 DEF IdleQueues
  <2>3. next \in Pc
    BY DEF Pc, WatchPc
  <2>4. [row[a] EXCEPT !.last_active = "fresh"].status = row[a].status
    BY <2>1 DEF Row
  <2>5. PICK r : row' = [row EXCEPT ![a] = r] /\ r.status = row[a].status
    BY <1>2, <1>8, <2>1, <2>4 DEF IdleQueues
  <2>6. ObjectsOK(a, kube[a], r.status) /\ Needs(next, a, kube[a], r.status)
    BY <2>1, <2>2, <2>5 DEF Needs
  <2>7. kube' = kube
    BY <1>8 DEF IdleQueues
  <2>. QED BY <1>2, <2>1, <2>2, <2>3, <2>5, <2>6, <2>7, RowOrdered
<1>. QED BY <1>1, <1>3, <1>4, <1>5, <1>6, <1>7, <1>8 DEF WatcherStep

(* The cluster's controllers, the passing of time, and a crash. *)
LEMMA EnvironmentOrdered ==
  ASSUME Control, Exclusive, Ordered, Cloud \/ Crash \/ \E a \in Apps : Idle(a)
  PROVE  Ordered'
<1>0. kube \in [Apps -> Cluster] /\ row \in [Apps -> Row]
  BY DEF Control, TypeOK
<1>1. ASSUME NEW a \in Apps, PodReady(a) \/ PodGone(a) \/ NamespaceGone(a)
      PROVE  Ordered'
  <2>1. row' = row /\ task' = task /\ \A b \in Apps : b # a => kube'[b] = kube[b]
    BY <1>0, <1>1 DEF PodReady, PodGone, NamespaceGone
  <2>2. \/ /\ kube'[a].ns = kube[a].ns /\ kube'[a].scale = kube[a].scale
           /\ kube'[a].svc = kube[a].svc /\ kube'[a].route = kube[a].route
        \/ kube'[a] = NoCluster
    BY <1>0, <1>1 DEF PodReady, PodGone, NamespaceGone, Cluster
  <2>3. ASSUME NEW status, ObjectsOK(a, kube[a], status)
        PROVE  ObjectsOK(a, kube'[a], status)
    BY <2>2, <2>3 DEF ObjectsOK, NoCluster
  <2>4. ASSUME NEW pc, NEW status, Needs(pc, a, kube[a], status)
        PROVE  Needs(pc, a, kube'[a], status)
    BY <2>2, <2>4 DEF Needs, NoCluster
  <2>5. ASSUME NEW b \in Apps PROVE AppOK(b)'
    <3>1. ObjectsOK(b, kube[b], row[b].status)
      BY DEF Ordered, AppOK
    <3>2. ObjectsOK(b, kube'[b], row[b].status)
      BY <2>1, <2>3, <3>1
    <3>. QED BY <2>1, <3>2 DEF AppOK, ObjectsOK
  <2>6. ASSUME NEW t \in Actors PROVE TaskOK(t)'
    <3>1. CASE ~Live(t)
      BY <2>1, <3>1 DEF TaskOK, Needs, Live
    <3>2. CASE Live(t)
      <4>1. /\ App(t) \in Apps
            /\ Needs(task[t].pc, App(t), kube[App(t)], row[App(t)].status)
        BY <3>2, WorkingFacts DEF Live
      <4>2. Needs(task[t].pc, App(t), kube'[App(t)], row[App(t)].status)
        BY <2>1, <2>4, <4>1
      <4>. QED BY <2>1, <4>2 DEF TaskOK, App, Needs
    <3>. QED BY <3>1, <3>2
  <2>7. OneTask'
    BY <2>1 DEF Ordered, OneTask, Live, App
  <2>. QED BY <2>5, <2>6, <2>7 DEF Ordered
<1>2. ASSUME NEW a \in Apps, Idle(a) PROVE Ordered'
  <2>1. \A b \in Apps : row'[b].status = row[b].status
    BY <1>0, <1>2 DEF Idle, Row
  <2>. QED BY <1>2, <2>1, QuietStep DEF Idle
<1>3. CASE Crash
  <2>1. \A t \in Actors : task'[t] = task[t] \/ ~Live(t)'
    BY <1>3 DEF Crash, IdleTask, Live
  <2>. QED BY <1>3, <2>1, QuietStep DEF Crash
<1>. QED BY <1>1, <1>2, <1>3 DEF Cloud

(* Every step preserves Ordered. *)
LEMMA OrderedNext == Control /\ Ordered /\ [Next]_vars => Ordered'
<1>. SUFFICES ASSUME Control, Ordered, [Next]_vars, Exclusive PROVE Ordered'
  BY DEF Ordered
<1>1. ASSUME NEW o \in Ops, Request(o) PROVE Ordered'
  BY <1>1, RequestOrdered
<1>2. ASSUME NEW o \in Ops, OpStep(o) PROVE Ordered'
  BY <1>2, OperationOrdered, DeployOrdered, HibernateOrdered, WakeOrdered,
     DeleteOrdered DEF OpStep
<1>3. ASSUME NEW w \in Wakers, WakerStep(w) \/ \E a \in Apps : InternalWake(w, a)
      PROVE  Ordered'
  BY <1>3, WakerOrdered
<1>4. CASE IdleStep \/ BudgetStep
  BY <1>4, WatcherOrdered
<1>5. CASE Cloud \/ Crash \/ \E a \in Apps : Idle(a)
  BY <1>5, EnvironmentOrdered
<1>6. CASE UNCHANGED vars
  BY <1>6, QuietStep DEF vars
<1>. QED BY <1>1, <1>2, <1>3, <1>4, <1>5, <1>6 DEF Next

-----------------------------------------------------------------------------
(* The theorems that rest on Ordered. *)

(* Ordered is an invariant. *)
THEOREM OrderedInvariant == Spec => []Ordered
BY OrderedInit, OrderedNext, ControlInvariant, PTL DEF Spec

(* Tasks of one app that do not overlap never leave the route on a         *)
(* workload that is scaled to zero or missing: not between two calls of    *)
(* Apply, hibernateApp, wakeApp, deleteApp or the watchers, not after a    *)
(* failed call, and not after a crash of the API process.                  *)
THEOREM RouteSafe == Spec => []RouteOnlyToScaledUp
<1>1. Ordered => RouteOnlyToScaledUp
  BY DEF Ordered, AppOK, ObjectsOK, RouteOnlyToScaledUp
<1>. QED BY <1>1, OrderedInvariant, PTL

(* An app that the API shows as deleted has no namespace that will stay.   *)
THEOREM DeletedGone == Spec => []DeletedMeansGone
<1>1. Ordered => DeletedMeansGone
  BY DEF Ordered, AppOK, ObjectsOK, DeletedMeansGone
<1>. QED BY <1>1, OrderedInvariant, PTL
=============================================================================
