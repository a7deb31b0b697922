------------------------ MODULE AppLifecycle_proofs ------------------------
(***************************************************************************)
(* Proofs about AppLifecycle, for any number of apps, operations, wake     *)
(* requests and images, with Kubernetes errors and crashes.                *)
(*                                                                         *)
(* Control is the inductive invariant behind the first three theorems.  It *)
(* says which program counters each kind of goroutine can have, that a     *)
(* goroutine at work has an app, which status an operation's row has at    *)
(* each program counter, and what the wake map holds.                      *)
(***************************************************************************)
EXTENDS AppLifecycle, TLAPS

Busy == Pc \ {"idle", "done", "lost", "next"}

OpWork == DeployPc \cup HibPc \cup (WakePc \ {"wake_lookup"}) \cup DeletePc
            \cup {"succeed", "fail_op"}
WakerWork == (WakePc \ {"wake_event"}) \cup {"finish"}

OpPc == OpWork \cup {"idle", "create_op", "start_op", "fail_status", "done",
                     "lost"}
WakerPc == WakerWork \cup {"idle", "touch", "gate"}
WatcherPc == WatchPc \cup HibPc \cup {"idle"}

(* A goroutine at work has an app. *)
HasApp == \A t \in Actors : task[t].pc \in Busy => task[t].app \in Apps

(* The program counters of each kind of goroutine. *)
RoleOK ==
  /\ \A o \in Ops : task[o].pc \in OpPc
  /\ \A w \in Wakers : task[w].pc \in WakerPc
  /\ \A w \in Watchers : task[w].pc \in WatcherPc

(* The status of an operation's row at each program counter. *)
OpStatusOK ==
  \A o \in Ops :
    /\ task[o].pc \in {"idle", "create_op"} => opStatus[o] = "unused"
    /\ task[o].pc = "start_op" => opStatus[o] = "pending"
    /\ task[o].pc \in OpWork => opStatus[o] = "running"
    /\ task[o].pc = "fail_status" => opStatus[o] = "failed"
    /\ task[o].pc = "done" => opStatus[o] \in Terminal
    /\ task[o].pc = "lost" => opStatus[o] # "succeeded"

Control == TypeOK /\ HasApp /\ RoleOK /\ OpStatusOK /\ WakingNowExact

USE ActorsDistinct DEF Actors

-----------------------------------------------------------------------------
(* What the moves of a goroutine do. *)

(* Goto changes the program counter of one goroutine and nothing else; a   *)
(* goroutine that returns loses its locals.                                *)
LEMMA GotoEffect ==
  ASSUME TypeOK, NEW t \in Actors, NEW label \in Pc, Goto(t, label)
  PROVE  /\ task' \in [Actors -> Task]
         /\ \A s \in Actors : s # t => task'[s] = task[s]
         /\ task'[t].pc = label
         /\ label # "done" => /\ task'[t].app = task[t].app
                              /\ task'[t].image = task[t].image
                              /\ task'[t].kind = task[t].kind
<1>1. IdleTask \in Task /\ [IdleTask EXCEPT !.pc = "done"] \in Task
  BY DEF IdleTask, Task, Pc, Kinds
<1>2. task \in [Actors -> Task]
  BY DEF TypeOK
<1>3. CASE label = "done"
  BY <1>1, <1>2, <1>3 DEF Goto, Task, IdleTask
<1>4. CASE label # "done"
  BY <1>2, <1>4 DEF Goto, Task
<1>. QED BY <1>3, <1>4

(* A step of a goroutine between two working program counters, one that    *)
(* writes neither the operations table nor the wake map, preserves Control *)
(* when what it writes is well typed.                                      *)
LEMMA WorkStep ==
  ASSUME Control, NEW t \in Actors, NEW label \in Pc, Goto(t, label),
         t \in Ops => task[t].pc \in OpWork /\ label \in OpWork,
         t \in Wakers => task[t].pc \in WakerWork /\ label \in WakerWork,
         t \in Watchers => /\ label \in WatcherPc
                           /\ label \in Busy => task[t].app \in Apps,
         opStatus' = opStatus, wakingNow' = wakingNow,
         row' \in [Apps -> Row], kube' \in [Apps -> Cluster],
         lastEvent' \in [Apps -> {"none", "scale_to_0", "scale_to_1"}]
  PROVE  Control'
<1>. USE DEF Control
<1>1. /\ task' \in [Actors -> Task]
      /\ \A s \in Actors : s # t => task'[s] = task[s]
      /\ task'[t].pc = label
      /\ label # "done" => task'[t].app = task[t].app
  BY GotoEffect
<1>2. TypeOK'
  BY <1>1 DEF TypeOK
<1>3. t \in Ops \cup Wakers => label \in Busy /\ task[t].pc \in Busy
  BY DEF Busy, OpWork, WakerWork, DeployPc, HibPc, WakePc, DeletePc, Pc, OpEndPc, WatchPc
<1>4. HasApp'
  BY <1>1, <1>3 DEF HasApp, Busy
<1>5. RoleOK'
  BY <1>1 DEF RoleOK, OpPc, WakerPc
<1>6. OpStatusOK'
  BY <1>1 DEF OpStatusOK, OpWork, DeployPc, HibPc, WakePc, DeletePc
<1>7. WakingNowExact'
  <2>1. ASSUME NEW w \in Wakers, NEW a \in Apps
        PROVE  Waking(w, a)' <=> Waking(w, a)
    <3>1. WakerWork \subseteq WakePc \cup {"finish"}
      BY DEF WakerWork
    <3>2. CASE w = t
      BY <1>1, <3>1, <3>2 DEF Waking, App, WakePc
    <3>3. CASE w # t
      BY <1>1, <3>3 DEF Waking, App
    <3>. QED BY <3>2, <3>3
  <2>. QED BY <2>1 DEF WakingNowExact
<1>. QED BY <1>2, <1>4, <1>5, <1>6, <1>7

-----------------------------------------------------------------------------
(* Control is inductive: one lemma per group of actions. *)

(* Control holds of the empty tables, an empty cluster and idle goroutines. *)
LEMMA ControlInit == Init => Control
<1>. SUFFICES ASSUME Init PROVE Control
  OBVIOUS
<1>1. IdleTask \in Task /\ IdleTask.pc = "idle"
  BY DEF IdleTask, Task, Pc, Kinds
<1>2. NoRow \in Row /\ NoCluster \in Cluster
  BY DEF NoRow, Row, NoCluster, Cluster
<1>3. TypeOK
  BY <1>1, <1>2 DEF Init, TypeOK, OpStatus
<1>4. \A t \in Actors : task[t].pc = "idle"
  BY <1>1 DEF Init
<1>5. HasApp /\ RoleOK /\ OpStatusOK
  BY <1>4 DEF HasApp, Busy, RoleOK, OpPc, WakerPc, WatcherPc, OpStatusOK,
              OpWork, DeployPc, HibPc, WakePc, DeletePc, Init
<1>6. WakingNowExact
  BY <1>4 DEF WakingNowExact, Waking, WakePc, Init
<1>. QED BY <1>3, <1>5, <1>6 DEF Control

(* A step that changes only the tables and the cluster, in a well typed    *)
(* way, preserves Control.                                                 *)
LEMMA TableStep ==
  ASSUME Control, task' = task, opStatus' = opStatus, wakingNow' = wakingNow,
         row' \in [Apps -> Row], kube' \in [Apps -> Cluster],
         lastEvent' \in [Apps -> {"none", "scale_to_0", "scale_to_1"}]
  PROVE  Control'
<1>. USE DEF Control
<1>1. TypeOK'
  BY DEF TypeOK
<1>2. HasApp' /\ RoleOK' /\ OpStatusOK'
  BY DEF HasApp, RoleOK, OpStatusOK
<1>3. WakingNowExact'
  BY DEF WakingNowExact, Waking, App
<1>. QED BY <1>1, <1>2, <1>3

(* UpsertRow, SetAppHibernated and the other writes of the store keep a    *)
(* row well typed.                                                         *)
LEMMA RowTypes ==
  ASSUME NEW r \in Row, NEW img \in Images \cup {None}
  PROVE  /\ UpsertRow(r, img) \in Row
         /\ UpdateAppImages(r, img) \in Row
         /\ SetAppHibernated(r) \in Row
         /\ SetAppAwake(r) \in Row
         /\ \A s \in {"deploying", "running", "failed", "hibernated", "deleted"} :
              UpdateAppStatus(r, s) \in Row
         /\ [r EXCEPT !.deletion_pending = TRUE] \in Row
         /\ \A s \in {"null", "fresh", "stale"} : [r EXCEPT !.last_active = s] \in Row
<1>1. NoRow \in Row /\ [NoRow EXCEPT !.present = TRUE, !.image_current = img] \in Row
  BY DEF NoRow, Row
<1>2. UpsertRow(r, img) \in Row
  <2>1. [r EXCEPT !.image_last_healthy = r.image_current, !.image_current = img,
                  !.status = "pending", !.deletion_pending = FALSE] \in Row
    BY DEF Row
  <2>. QED BY <1>1, <2>1 DEF UpsertRow
<1>3. UpdateAppImages(r, img) \in Row
  BY DEF Row, UpdateAppImages
<1>4. SetAppHibernated(r) \in Row /\ SetAppAwake(r) \in Row
  BY DEF Row, SetAppHibernated, SetAppAwake
<1>5. \A s \in {"deploying", "running", "failed", "hibernated", "deleted"} :
        UpdateAppStatus(r, s) \in Row
  BY DEF Row, UpdateAppStatus
<1>6. [r EXCEPT !.deletion_pending = TRUE] \in Row
  BY DEF Row
<1>7. \A s \in {"null", "fresh", "stale"} : [r EXCEPT !.last_active = s] \in Row
  BY DEF Row
<1>. QED BY <1>2, <1>3, <1>4, <1>5, <1>6, <1>7

(* Requests, which start the task of an idle operation. *)
LEMMA RequestControl ==
  ASSUME Control, NEW o \in Ops, Request(o)
  PROVE  Control'
<1>. USE DEF Control
<1>1. task \in [Actors -> Task] /\ o \in Actors
  BY DEF TypeOK
<1>2. task[o].pc = "idle" /\ opStatus[o] = "unused"
  <2>1. task[o].pc = "idle"
    BY DEF Request, UpsertApp, HibernateApp, WakeApp, DeleteApp, RequestTask,
           SyncRepo, At
  <2>. QED BY <2>1 DEF OpStatusOK
<1>3. ASSUME NEW kind \in Kinds, NEW a \in Apps, NEW img \in Images \cup {None},
             NEW lh \in Images \cup {None}, NewTask(o, kind, a, img, lh),
             row' \in [Apps -> Row],
             UNCHANGED <<opStatus, lastEvent, kube, wakingNow>>
      PROVE  Control'
  <2>1. /\ task' \in [Actors -> Task]
        /\ \A s \in Actors : s # o => task'[s] = task[s]
        /\ task'[o].pc = "create_op" /\ task'[o].app = a
    <3>1. [IdleTask EXCEPT !.pc = "create_op", !.kind = kind, !.app = a,
                           !.image = img, !.lastHealthy = lh] \in Task
      BY DEF IdleTask, Task, Pc
    <3>. QED BY <1>1, <1>3, <3>1 DEF NewTask, IdleTask
  <2>2. TypeOK'
    BY <1>3, <2>1 DEF TypeOK
  <2>3. HasApp' /\ RoleOK'
    BY <2>1 DEF HasApp, RoleOK, OpPc
  <2>4. OpStatusOK'
    BY <1>2, <1>3, <2>1 DEF OpStatusOK, OpWork, DeployPc, HibPc, WakePc, DeletePc
  <2>5. WakingNowExact'
    BY <1>3, <2>1 DEF WakingNowExact, Waking, App
  <2>. QED BY <2>2, <2>3, <2>4, <2>5
<1>4. ASSUME NEW a \in Apps, NEW img \in Images, UpsertApp(o, a, img)
      PROVE  Control'
  <2>1. row[a] \in Row
    BY DEF TypeOK
  <2>2. UpsertRow(row[a], img) \in Row
    BY <2>1, RowTypes
  <2>3. row' \in [Apps -> Row]
    BY <1>4, <2>2 DEF UpsertApp, TypeOK
  <2>4. UpsertRow(row[a], img).image_last_healthy \in Images \cup {None}
    BY <2>2 DEF Row
  <2>5. "deploy" \in Kinds
    BY DEF Kinds
  <2>. QED BY <1>3, <1>4, <2>3, <2>4, <2>5 DEF UpsertApp
<1>5. ASSUME NEW a \in Apps, NEW kind \in {"hibernate", "wake"},
             RequestTask(o, a, kind)
      PROVE  Control'
  BY <1>3, <1>5 DEF RequestTask, Kinds, TypeOK
<1>6. ASSUME NEW a \in Apps, DeleteApp(o, a)
      PROVE  Control'
  <2>1. row[a] \in Row
    BY DEF TypeOK
  <2>2. row' \in [Apps -> Row]
    BY <1>6, <2>1, RowTypes DEF DeleteApp, TypeOK
  <2>. QED BY <1>3, <1>6, <2>2 DEF DeleteApp, Kinds
<1>7. ASSUME NEW S \in SUBSET Apps, NEW declared \in [S -> Images],
             SyncRepo(o, declared)
      PROVE  Control'
  <2>1. row' \in [Apps -> Row]
    <3>1. ASSUME NEW a \in Apps PROVE row'[a] \in Row
      <4>1. row[a] \in Row
        BY DEF TypeOK
      <4>2. a \in S => UpsertRow(row[a], declared[a]) \in Row
        BY <4>1, RowTypes
      <4>3. [row[a] EXCEPT !.deletion_pending = TRUE] \in Row
        BY <4>1, RowTypes
      <4>. QED BY <1>7, <4>1, <4>2, <4>3 DEF SyncRepo
    <3>. QED BY <1>7, <3>1 DEF SyncRepo
  <2>2. /\ task' \in [Actors -> Task]
        /\ \A s \in Actors : s # o => task'[s] = task[s]
        /\ task'[o].pc = "done"
    <3>1. [IdleTask EXCEPT !.pc = "done"] \in Task
      BY DEF IdleTask, Task, Pc, Kinds
    <3>. QED BY <1>1, <1>7, <3>1 DEF SyncRepo, IdleTask
  <2>3. opStatus' = [opStatus EXCEPT ![o] = "succeeded"]
    BY <1>7 DEF SyncRepo
  <2>4. TypeOK'
    BY <1>7, <2>1, <2>2, <2>3 DEF SyncRepo, TypeOK, OpStatus
  <2>5. HasApp' /\ RoleOK'
    BY <2>2 DEF HasApp, RoleOK, OpPc, Busy
  <2>6. OpStatusOK'
    BY <2>2, <2>3 DEF OpStatusOK, OpWork, DeployPc, HibPc, WakePc, DeletePc,
                      Terminal, TypeOK
  <2>7. WakingNowExact'
    BY <1>7, <2>2 DEF WakingNowExact, Waking, App, SyncRepo
  <2>. QED BY <2>4, <2>5, <2>6, <2>7
<1>. QED
  BY <1>4, <1>5, <1>6, <1>7 DEF Request, HibernateApp, WakeApp

(* Where goroutine t may go from its program counter without touching the  *)
(* operations table or the wake map.                                       *)
WorkMove(t, label) ==
  /\ t \in Ops => task[t].pc \in OpWork /\ label \in OpWork
  /\ t \in Wakers => task[t].pc \in WakerWork /\ label \in WakerWork
  /\ t \in Watchers => label \in WatcherPc /\ task[t].app \in Apps

(* The program counters, listed: which labels belong to which task.        *)
LEMMA PcSets ==
  /\ OpWork \subseteq Pc /\ WakerWork \subseteq Pc /\ WatcherPc \subseteq Pc
  /\ OpWork \subseteq Busy /\ WakerWork \subseteq Busy /\ HibPc \subseteq Busy
BY DEF OpWork, WakerWork, WatcherPc, Pc, Busy, DeployPc, HibPc, WakePc,
       DeletePc, WatchPc, OpEndPc

(* A Kubernetes call, whether it succeeds or not. *)
LEMMA KubeCallControl ==
  ASSUME Control, NEW t \in Actors, NEW possible, NEW k \in Cluster, NEW next,
         WorkMove(t, next), KubeCall(t, possible, k, next)
  PROVE  Control'
<1>1. next \in Pc
  BY PcSets DEF WorkMove
<1>2. OnError(t) \in Pc /\ WorkMove(t, OnError(t))
  BY DEF OnError, WorkMove, Pc, OpWork, WakerWork, WatcherPc, WatchPc, OpEndPc
<1>3. kube' \in [Apps -> Cluster]
  BY DEF Control, TypeOK, KubeCall
<1>4. PICK label \in {next, OnError(t)} : Goto(t, label)
  BY DEF KubeCall
<1>5. label \in Pc /\ WorkMove(t, label)
  BY <1>1, <1>2, <1>4
<1>6. UNCHANGED <<row, opStatus, lastEvent, wakingNow>>
  BY DEF KubeCall
<1>7. /\ row' \in [Apps -> Row]
      /\ lastEvent' \in [Apps -> {"none", "scale_to_0", "scale_to_1"}]
  BY <1>6 DEF Control, TypeOK
<1>. QED BY <1>3, <1>4, <1>5, <1>6, <1>7, WorkStep DEF WorkMove

(* A write of the app's row. *)
LEMMA RowUpdateControl ==
  ASSUME Control, NEW t \in Actors, NEW r \in Row, NEW next,
         WorkMove(t, next), RowUpdate(t, r, next)
  PROVE  Control'
<1>1. next \in Pc
  BY PcSets DEF WorkMove
<1>2. row' \in [Apps -> Row] /\ Goto(t, next)
  BY DEF Control, TypeOK, RowUpdate
<1>3. UNCHANGED <<opStatus, lastEvent, kube, wakingNow>>
  BY DEF RowUpdate
<1>4. /\ kube' \in [Apps -> Cluster]
      /\ lastEvent' \in [Apps -> {"none", "scale_to_0", "scale_to_1"}]
  BY <1>3 DEF Control, TypeOK
<1>. QED BY <1>1, <1>2, <1>3, <1>4, WorkStep DEF WorkMove

(* A row of scale_events. *)
LEMMA ScaleEventControl ==
  ASSUME Control, NEW t \in Actors, NEW event \in {"scale_to_0", "scale_to_1"},
         NEW next, WorkMove(t, next), ScaleEvent(t, event, next)
  PROVE  Control'
<1>1. next \in Pc
  BY PcSets DEF WorkMove
<1>2. /\ lastEvent' \in [Apps -> {"none", "scale_to_0", "scale_to_1"}]
      /\ Goto(t, next)
  BY DEF Control, TypeOK, ScaleEvent
<1>3. UNCHANGED <<row, opStatus, kube, wakingNow>>
  BY DEF ScaleEvent
<1>4. row' \in [Apps -> Row] /\ kube' \in [Apps -> Cluster]
  BY <1>3 DEF Control, TypeOK
<1>. QED BY <1>1, <1>2, <1>3, <1>4, WorkStep DEF WorkMove

(* A step that only reads. *)
LEMMA ReadControl ==
  ASSUME Control, NEW t \in Actors, NEW next, WorkMove(t, next), Goto(t, next),
         UNCHANGED <<row, opStatus, lastEvent, kube, wakingNow>>
  PROVE  Control'
<1>1. next \in Pc
  BY PcSets DEF WorkMove
<1>2. /\ row' \in [Apps -> Row] /\ kube' \in [Apps -> Cluster]
      /\ lastEvent' \in [Apps -> {"none", "scale_to_0", "scale_to_1"}]
  BY DEF Control, TypeOK
<1>. QED BY <1>1, <1>2, WorkStep DEF WorkMove

(* The functions on the cluster's objects keep them well typed. *)
LEMMA ClusterTypes ==
  ASSUME NEW k \in Cluster
  PROVE  /\ \A s \in {"zero", "one"} : ScaleDeployment(k, s) \in Cluster
         /\ \A r \in {"none", "app", "proxy"} : SetRoute(k, r) \in Cluster
         /\ \A n \in {"active", "terminating"} : [k EXCEPT !.ns = n] \in Cluster
         /\ \A b \in BOOLEAN : [k EXCEPT !.svc = b] \in Cluster
         /\ \A i \in Images \cup {None} :
              /\ [k EXCEPT !.image = i] \in Cluster
              /\ [k EXCEPT !.pod = i] \in Cluster
              /\ [k EXCEPT !.scale = "one", !.image = i] \in Cluster
<1>1. \A s \in {"zero", "one"} : ScaleDeployment(k, s) \in Cluster
  BY DEF Cluster, ScaleDeployment
<1>2. \A r \in {"none", "app", "proxy"} : SetRoute(k, r) \in Cluster
  BY DEF Cluster, SetRoute
<1>3. \A n \in {"active", "terminating"} : [k EXCEPT !.ns = n] \in Cluster
  BY DEF Cluster
<1>4. \A b \in BOOLEAN : [k EXCEPT !.svc = b] \in Cluster
  BY DEF Cluster
<1>5. ASSUME NEW i \in Images \cup {None}
      PROVE  /\ [k EXCEPT !.image = i] \in Cluster
             /\ [k EXCEPT !.pod = i] \in Cluster
             /\ [k EXCEPT !.scale = "one", !.image = i] \in Cluster
  BY DEF Cluster
<1>. QED BY <1>1, <1>2, <1>3, <1>4, <1>5

(* The app of a goroutine at work, its row and its cluster objects. *)
LEMMA AtWork ==
  ASSUME Control, NEW t \in Actors, task[t].pc \in Busy
  PROVE  /\ App(t) \in Apps
         /\ row[App(t)] \in Row
         /\ kube[App(t)] \in Cluster
         /\ task[t].image \in Images \cup {None}
         /\ task[t].lastHealthy \in Images \cup {None}
<1>1. App(t) \in Apps
  BY DEF Control, HasApp, App
<1>2. task[t] \in Task
  BY DEF Control, TypeOK
<1>3. /\ task[t].image \in Images \cup {None}
      /\ task[t].lastHealthy \in Images \cup {None}
  BY <1>2 DEF Task
<1>. QED BY <1>1, <1>3 DEF Control, TypeOK

(* kube.Apply, the rollout and what follows it. *)
LEMMA DeployControl ==
  ASSUME Control, NEW o \in Ops, DeployStep(o)
  PROVE  Control'
<1>1. task[o].pc \in DeployPc
  BY DEF DeployStep, DeployingStatus, ApplyNamespace, ApplyWorkload,
         ApplyAppService, ApplyHTTPRoute, RolloutSucceeds, RolloutFails,
         RollbackDeployment, RollbackImages, DeployedImages, DeployedStatus,
         DeployedEvent, At, DeployPc
<1>2. o \in Actors /\ o \notin Wakers /\ o \notin Watchers
  OBVIOUS
<1>3. ASSUME NEW label \in DeployPc \cup {"fail_op", "succeed"}
      PROVE  WorkMove(o, label)
  BY <1>1, <1>2 DEF WorkMove, OpWork
<1>4. /\ App(o) \in Apps
      /\ row[App(o)] \in Row
      /\ kube[App(o)] \in Cluster
      /\ task[o].image \in Images \cup {None}
      /\ task[o].lastHealthy \in Images \cup {None}
  BY <1>1, <1>2, PcSets, AtWork DEF OpWork
<1>. USE <1>2
<1>5. CASE DeployingStatus(o)
  BY <1>3, <1>4, <1>5, RowTypes, RowUpdateControl DEF DeployingStatus, DeployPc
<1>6. CASE ApplyNamespace(o)
  <2>1. (IF kube[App(o)].ns = "absent" THEN [kube[App(o)] EXCEPT !.ns = "active"]
                                       ELSE kube[App(o)]) \in Cluster
    BY <1>4, ClusterTypes
  <2>. QED BY <1>3, <1>6, <2>1, KubeCallControl DEF ApplyNamespace, DeployPc
<1>7. CASE ApplyWorkload(o)
  <2>1. [kube[App(o)] EXCEPT !.scale = "one", !.image = task[o].image] \in Cluster
    BY <1>4, ClusterTypes
  <2>. DEFINE next == CASE AppType[App(o)] = "http" -> "apply_service"
                        [] AppType[App(o)] = "worker" -> "rollout"
                        [] OTHER -> "images"
  <2>2. WorkMove(o, next)
    BY <1>3 DEF DeployPc
  <2>. QED BY <1>7, <2>1, <2>2, KubeCallControl DEF ApplyWorkload
<1>8. CASE ApplyAppService(o)
  <2>1. [kube[App(o)] EXCEPT !.svc = TRUE] \in Cluster
    BY <1>4, ClusterTypes
  <2>. QED BY <1>3, <1>8, <2>1, KubeCallControl DEF ApplyAppService, DeployPc
<1>9. CASE ApplyHTTPRoute(o)
  <2>1. SetRoute(kube[App(o)], "app") \in Cluster
    BY <1>4, ClusterTypes
  <2>. QED BY <1>3, <1>9, <2>1, KubeCallControl DEF ApplyHTTPRoute, DeployPc
<1>10. CASE RolloutSucceeds(o)
  BY <1>3, <1>10, ReadControl DEF RolloutSucceeds, DeployPc
<1>11. CASE RolloutFails(o)
  BY <1>3, <1>11, ReadControl DEF RolloutFails, DeployPc
<1>12. CASE RollbackDeployment(o)
  <2>1. [kube[App(o)] EXCEPT !.image = task[o].lastHealthy] \in Cluster
    BY <1>4, ClusterTypes
  <2>. QED BY <1>3, <1>12, <2>1, KubeCallControl DEF RollbackDeployment, DeployPc
<1>13. CASE RollbackImages(o)
  BY <1>3, <1>4, <1>13, RowTypes, RowUpdateControl DEF RollbackImages
<1>14. CASE DeployedImages(o)
  BY <1>3, <1>4, <1>14, RowTypes, RowUpdateControl DEF DeployedImages, DeployPc
<1>15. CASE DeployedStatus(o)
  BY <1>3, <1>4, <1>15, RowTypes, RowUpdateControl DEF DeployedStatus, DeployPc
<1>16. CASE DeployedEvent(o)
  BY <1>3, <1>16, ScaleEventControl DEF DeployedEvent
<1>. QED
  BY <1>5, <1>6, <1>7, <1>8, <1>9, <1>10, <1>11, <1>12, <1>13, <1>14, <1>15,
     <1>16 DEF DeployStep

(* Hibernation, by an operation or by a watcher. *)
LEMMA HibernateControl ==
  ASSUME Control, NEW t \in Ops \cup Watchers, HibernateStep(t)
  PROVE  Control'
<1>1. task[t].pc \in HibPc
  BY DEF HibernateStep, HibRoute, HibScale, HibEvent, HibFlag, HibStatus, At, HibPc
<1>2. t \in Actors /\ t \notin Wakers
  OBVIOUS
<1>3. /\ App(t) \in Apps /\ row[App(t)] \in Row /\ kube[App(t)] \in Cluster
      /\ task[t].app \in Apps
  BY <1>1, <1>2, PcSets, AtWork DEF App
<1>4. ASSUME NEW label \in HibPc
      PROVE  WorkMove(t, label)
  BY <1>1, <1>2, <1>3 DEF WorkMove, OpWork, WatcherPc
<1>5. WorkMove(t, IF t \in Ops THEN "succeed" ELSE "next")
  BY <1>1, <1>2, <1>3 DEF WorkMove, OpWork, WatcherPc, WatchPc
<1>. USE <1>2
<1>6. CASE HibRoute(t)
  <2>1. SetRoute(kube[App(t)], "proxy") \in Cluster
    BY <1>3, ClusterTypes
  <2>. QED BY <1>4, <1>6, <2>1, KubeCallControl DEF HibRoute, HibPc
<1>7. CASE HibScale(t)
  <2>1. ScaleDeployment(kube[App(t)], "zero") \in Cluster
    BY <1>3, ClusterTypes
  <2>. QED BY <1>4, <1>7, <2>1, KubeCallControl DEF HibScale, HibPc
<1>8. CASE HibEvent(t)
  BY <1>4, <1>8, ScaleEventControl DEF HibEvent, HibPc
<1>9. CASE HibFlag(t)
  BY <1>3, <1>4, <1>9, RowTypes, RowUpdateControl DEF HibFlag, HibPc
<1>10. CASE HibStatus(t)
  BY <1>3, <1>5, <1>10, RowTypes, RowUpdateControl DEF HibStatus
<1>. QED BY <1>6, <1>7, <1>8, <1>9, <1>10 DEF HibernateStep

(* Waking, by an operation or for the wake proxy. *)
LEMMA WakeControl ==
  ASSUME Control, NEW t \in Ops \cup Wakers, WakeStep(t)
  PROVE  Control'
<1>1. task[t].pc \in WakePc
  BY DEF WakeStep, WakeScale, WakeWatch, WakeLookup, WakeRoute, WakeEvent,
         WakeFlag, WakeStatus, At, WakePc
<1>2. t \in Actors /\ t \notin Watchers /\ (t \in Ops => t \notin Wakers)
  OBVIOUS
<1>3. /\ t \in Ops => task[t].pc \in OpWork
      /\ t \in Wakers => task[t].pc \in WakerWork
  BY <1>1, <1>2 DEF Control, RoleOK, OpPc, OpWork, WakerPc, WakerWork, WakePc,
                    DeployPc, HibPc, DeletePc
<1>4. /\ App(t) \in Apps /\ row[App(t)] \in Row /\ kube[App(t)] \in Cluster
  BY <1>2, <1>3, PcSets, AtWork
<1>5. ASSUME NEW label,
             t \in Ops => label \in (WakePc \ {"wake_lookup"}) \cup {"succeed", "fail_op"},
             t \in Wakers => label \in WakerWork
      PROVE  WorkMove(t, label)
  BY <1>2, <1>3, <1>5 DEF WorkMove, OpWork
<1>. USE <1>2 DEF WakePc, WakerWork
<1>6. CASE WakeScale(t)
  <2>1. ScaleDeployment(kube[App(t)], "one") \in Cluster
    BY <1>4, ClusterTypes
  <2>2. WorkMove(t, IF IsHttp(App(t)) THEN "wake_watch"
                    ELSE IF t \in Ops THEN "wake_event" ELSE "wake_flag")
    BY <1>5
  <2>. QED BY <1>6, <2>1, <2>2, KubeCallControl DEF WakeScale
<1>7. CASE WakeWatch(t)
  <2>1. WorkMove(t, IF t \in Ops THEN "wake_route" ELSE "wake_lookup")
    BY <1>5
  <2>2. WorkMove(t, OnError(t))
    BY <1>5 DEF OnError
  <2>. QED BY <1>7, <2>1, <2>2, ReadControl DEF WakeWatch
<1>8. CASE WakeLookup(t)
  <2>1. t \in Wakers
    BY <1>3, <1>8 DEF WakeLookup, At, OpWork, DeployPc, HibPc, DeletePc
  <2>2. WorkMove(t, IF Listed(App(t)) THEN "wake_route" ELSE "finish")
    BY <1>5, <2>1
  <2>. QED BY <1>8, <2>2, ReadControl DEF WakeLookup
<1>9. CASE WakeRoute(t)
  <2>1. SetRoute(kube[App(t)], "app") \in Cluster
    BY <1>4, ClusterTypes
  <2>2. WorkMove(t, IF t \in Ops THEN "wake_event" ELSE "wake_flag")
    BY <1>5
  <2>. QED BY <1>9, <2>1, <2>2, KubeCallControl DEF WakeRoute
<1>10. CASE WakeEvent(t)
  BY <1>5, <1>10, ScaleEventControl DEF WakeEvent
<1>11. CASE WakeFlag(t)
  <2>1. WorkMove(t, "wake_status")
    BY <1>5
  <2>. QED BY <1>4, <1>11, <2>1, RowTypes, RowUpdateControl DEF WakeFlag
<1>12. CASE WakeStatus(t)
  <2>1. WorkMove(t, IF t \in Ops THEN "succeed" ELSE "finish")
    BY <1>5
  <2>. QED BY <1>4, <1>12, <2>1, RowTypes, RowUpdateControl DEF WakeStatus
<1>. QED BY <1>6, <1>7, <1>8, <1>9, <1>10, <1>11, <1>12 DEF WakeStep

(* handler.deleteApp *)
LEMMA DeleteControl ==
  ASSUME Control, NEW o \in Ops, DeleteStep(o)
  PROVE  Control'
<1>1. task[o].pc \in DeletePc
  BY DEF DeleteStep, DeleteRoute, DeleteService, DeleteAppNamespace,
         DeletedStatus, At, DeletePc
<1>2. o \in Actors /\ o \notin Wakers /\ o \notin Watchers
  OBVIOUS
<1>3. ASSUME NEW label \in DeletePc \cup {"succeed"}
      PROVE  WorkMove(o, label)
  BY <1>1, <1>2 DEF WorkMove, OpWork
<1>4. row[App(o)] \in Row /\ kube[App(o)] \in Cluster
  BY <1>1, <1>2, PcSets, AtWork DEF OpWork
<1>. USE <1>2
<1>5. CASE DeleteRoute(o)
  <2>1. SetRoute(kube[App(o)], "none") \in Cluster
    BY <1>4, ClusterTypes
  <2>. QED BY <1>3, <1>5, <2>1, KubeCallControl DEF DeleteRoute, DeletePc
<1>6. CASE DeleteService(o)
  <2>1. [kube[App(o)] EXCEPT !.svc = FALSE] \in Cluster
    BY <1>4, ClusterTypes
  <2>. QED BY <1>3, <1>6, <2>1, KubeCallControl DEF DeleteService, DeletePc
<1>7. CASE DeleteAppNamespace(o)
  <2>1. (IF kube[App(o)].ns = "absent" THEN kube[App(o)]
         ELSE [kube[App(o)] EXCEPT !.ns = "terminating"]) \in Cluster
    BY <1>4, ClusterTypes
  <2>. QED BY <1>3, <1>7, <2>1, KubeCallControl DEF DeleteAppNamespace, DeletePc
<1>8. CASE DeletedStatus(o)
  BY <1>3, <1>4, <1>8, RowTypes, RowUpdateControl DEF DeletedStatus
<1>. QED BY <1>5, <1>6, <1>7, <1>8 DEF DeleteStep

(* The steps on the operations table. *)
LEMMA OperationControl ==
  ASSUME Control, NEW o \in Ops,
         \/ CreateOperation(o) \/ StartOperation(o) \/ SucceedOperation(o)
         \/ FailOperation(o) \/ FailStatus(o)
  PROVE  Control'
<1>. USE DEF Control
<1>1. o \in Actors /\ o \notin Wakers /\ o \notin Watchers
  OBVIOUS
<1>2. task[o].pc \in {"create_op", "start_op", "succeed", "fail_op", "fail_status"}
  BY DEF CreateOperation, StartOperation, SucceedOperation, FailOperation,
         FailStatus, At
<1>3. task[o].app \in Apps
  BY <1>1, <1>2 DEF HasApp, Busy, Pc, OpEndPc
<1>4. ASSUME NEW label \in OpPc, NEW status \in OpStatus, Goto(o, label),
             opStatus' = [opStatus EXCEPT ![o] = status],
             \/ label = "start_op" /\ status = "pending"
             \/ label \in OpWork /\ status = "running"
             \/ label = "fail_status" /\ status = "failed"
             \/ label = "done" /\ status \in Terminal,
             row' \in [Apps -> Row], UNCHANGED <<lastEvent, kube, wakingNow>>
      PROVE  Control'
  <2>1. label \in Pc
    BY DEF OpPc, OpWork, Pc, DeployPc, HibPc, WakePc, DeletePc, OpEndPc
  <2>2. /\ task' \in [Actors -> Task]
        /\ \A s \in Actors : s # o => task'[s] = task[s]
        /\ task'[o].pc = label
        /\ label # "done" => task'[o].app = task[o].app
    BY <1>1, <1>4, <2>1, GotoEffect
  <2>3. TypeOK'
    BY <1>4, <2>2 DEF TypeOK
  <2>4. HasApp' /\ RoleOK'
    BY <1>1, <1>3, <2>2 DEF HasApp, RoleOK, Busy
  <2>5. OpStatusOK'
    BY <1>1, <1>4, <2>2 DEF OpStatusOK, TypeOK, OpWork, DeployPc, HibPc, WakePc,
                            DeletePc, Terminal
  <2>6. WakingNowExact'
    BY <1>1, <1>4, <2>2 DEF WakingNowExact, Waking, App
  <2>. QED BY <2>3, <2>4, <2>5, <2>6
<1>5. CASE CreateOperation(o)
  BY <1>4, <1>5 DEF CreateOperation, OpUpdate, OpPc, OpStatus, TypeOK
<1>6. CASE StartOperation(o)
  <2>1. FirstStep(task[o].kind, App(o)) \in OpWork
    BY DEF FirstStep, FirstHib, OpWork, DeployPc, HibPc, WakePc, DeletePc
  <2>. QED BY <1>4, <1>6, <2>1 DEF StartOperation, OpUpdate, OpPc, OpStatus, TypeOK
<1>7. CASE SucceedOperation(o)
  BY <1>4, <1>7 DEF SucceedOperation, OpUpdate, OpPc, OpStatus, Terminal, TypeOK
<1>8. CASE FailOperation(o)
  BY <1>4, <1>8 DEF FailOperation, OpUpdate, OpPc, OpStatus, Terminal, TypeOK
<1>9. CASE FailStatus(o)
  <2>1. opStatus[o] = "failed"
    BY <1>9 DEF FailStatus, At, OpStatusOK
  <2>2. opStatus' = [opStatus EXCEPT ![o] = "failed"]
    BY <1>9, <2>1 DEF FailStatus, RowUpdate, TypeOK
  <2>3. row' \in [Apps -> Row]
    <3>1. row[App(o)] \in Row
      BY <1>3 DEF TypeOK, App
    <3>. QED BY <1>9, <3>1, RowTypes DEF FailStatus, RowUpdate, TypeOK
  <2>. QED BY <1>4, <1>9, <2>2, <2>3 DEF FailStatus, RowUpdate, OpPc, OpStatus, Terminal
<1>. QED BY <1>5, <1>6, <1>7, <1>8, <1>9

(* The requests of the wake proxy. *)
LEMMA WakerControl ==
  ASSUME Control, NEW w \in Wakers,
         WakerStep(w) \/ \E a \in Apps : InternalWake(w, a)
  PROVE  Control'
<1>. USE DEF Control
<1>1. w \in Actors /\ w \notin Ops /\ w \notin Watchers
  OBVIOUS
<1>2. task \in [Actors -> Task] /\ IdleTask \in Task /\ IdleTask.pc = "idle"
  BY DEF TypeOK, IdleTask, Task, Pc, Kinds
(* A step that changes the task of w alone preserves the parts of Control  *)
(* that say nothing of the wake map.                                       *)
<1>3. ASSUME NEW r \in Task, r.pc \in WakerPc, r.pc \in Busy => r.app \in Apps,
             task' = [task EXCEPT ![w] = r], row' \in [Apps -> Row],
             wakingNow' \in [Apps -> BOOLEAN],
             UNCHANGED <<opStatus, lastEvent, kube>>
      PROVE  /\ TypeOK' /\ HasApp' /\ RoleOK' /\ OpStatusOK'
             /\ task'[w] = r
             /\ \A s \in Actors : s # w => task'[s] = task[s]
  <2>1. /\ task' \in [Actors -> Task]
        /\ task'[w] = r
        /\ \A s \in Actors : s # w => task'[s] = task[s]
    BY <1>1, <1>2, <1>3
  <2>2. TypeOK'
    BY <1>3, <2>1 DEF TypeOK
  <2>3. HasApp' /\ RoleOK' /\ OpStatusOK'
    BY <1>1, <1>3, <2>1 DEF HasApp, RoleOK, OpStatusOK
  <2>. QED BY <2>1, <2>2, <2>3
<1>4. ASSUME NEW a \in Apps, InternalWake(w, a)
      PROVE  Control'
  <2>. DEFINE r == [IdleTask EXCEPT !.pc = "touch", !.app = a]
  <2>1. r \in Task /\ r.pc = "touch" /\ r.app = a
    BY DEF IdleTask, Task, Pc, Kinds
  <2>2. task' = [task EXCEPT ![w] = r]
    BY <1>4 DEF InternalWake
  <2>3. UNCHANGED <<row, opStatus, lastEvent, kube, wakingNow>>
    BY <1>4 DEF InternalWake
  <2>. HIDE DEF r
  <2>4. row' \in [Apps -> Row] /\ wakingNow' \in [Apps -> BOOLEAN]
    BY <2>3 DEF TypeOK
  <2>5. r.pc \in WakerPc /\ (r.pc \in Busy => r.app \in Apps)
    BY <2>1 DEF WakerPc
  <2>6. /\ TypeOK' /\ HasApp' /\ RoleOK' /\ OpStatusOK'
        /\ task'[w] = r
        /\ \A s \in Actors : s # w => task'[s] = task[s]
    BY <1>3, <2>1, <2>2, <2>3, <2>4, <2>5
  <2>7. task[w].pc = "idle"
    BY <1>4 DEF InternalWake, At
  <2>8. WakingNowExact'
    BY <1>1, <2>1, <2>3, <2>6, <2>7 DEF WakingNowExact, Waking, App, WakePc
  <2>. QED BY <2>6, <2>8
<1>5. CASE WakeTouch(w)
  <2>1. task[w].pc = "touch" /\ task[w].app \in Apps
    BY <1>1, <1>5 DEF WakeTouch, At, HasApp, Busy, Pc
  <2>2. [row[App(w)] EXCEPT !.last_active = "fresh"] \in Row
    BY <2>1, RowTypes DEF TypeOK, App
  <2>3. row' \in [Apps -> Row] /\ Goto(w, "gate")
    BY <1>5, <2>2 DEF WakeTouch, RowUpdate, TypeOK
  <2>4. UNCHANGED <<opStatus, lastEvent, kube, wakingNow>>
    BY <1>5 DEF WakeTouch, RowUpdate
  <2>. DEFINE r == [task[w] EXCEPT !.pc = "gate"]
  <2>5. r \in Task /\ r.pc = "gate" /\ r.app \in Apps
    BY <1>1, <1>2, <2>1 DEF Task, Pc
  <2>6. task' = [task EXCEPT ![w] = r]
    BY <1>2, <2>3 DEF Goto
  <2>. HIDE DEF r
  <2>7. r.pc \in WakerPc /\ wakingNow' \in [Apps -> BOOLEAN]
    BY <2>4, <2>5 DEF WakerPc, TypeOK
  <2>8. /\ TypeOK' /\ HasApp' /\ RoleOK' /\ OpStatusOK'
        /\ task'[w] = r
        /\ \A s \in Actors : s # w => task'[s] = task[s]
    BY <1>3, <2>3, <2>4, <2>5, <2>6, <2>7
  <2>9. WakingNowExact'
    BY <1>1, <2>1, <2>4, <2>5, <2>8 DEF WakingNowExact, Waking, App, WakePc
  <2>. QED BY <2>8, <2>9
<1>6. CASE WakeRefused(w)
  <2>1. task[w].pc = "gate" /\ task' = [task EXCEPT ![w] = IdleTask]
    BY <1>6 DEF WakeRefused, At
  <2>2. UNCHANGED <<row, opStatus, lastEvent, kube, wakingNow>>
    BY <1>6 DEF WakeRefused
  <2>3. row' \in [Apps -> Row] /\ wakingNow' \in [Apps -> BOOLEAN]
    BY <2>2 DEF TypeOK
  <2>4. IdleTask.pc \in WakerPc /\ IdleTask.pc \notin Busy
    BY <1>2 DEF WakerPc, Busy
  <2>5. /\ TypeOK' /\ HasApp' /\ RoleOK' /\ OpStatusOK'
        /\ task'[w] = IdleTask
        /\ \A s \in Actors : s # w => task'[s] = task[s]
    BY <1>2, <1>3, <2>1, <2>2, <2>3, <2>4
  <2>6. WakingNowExact'
    BY <1>1, <1>2, <2>1, <2>2, <2>5 DEF WakingNowExact, Waking, App, WakePc
  <2>. QED BY <2>5, <2>6
<1>7. CASE LoadOrStore(w)
  <2>. DEFINE r == IF wakingNow[App(w)] THEN IdleTask
                   ELSE [task[w] EXCEPT !.pc = "wake_scale", !.kind = "wake"]
  <2>1. task[w].pc = "gate" /\ task[w].app \in Apps /\ App(w) = task[w].app
    BY <1>1, <1>7 DEF LoadOrStore, At, HasApp, Busy, Pc, App
  <2>2. /\ task' = [task EXCEPT ![w] = r]
        /\ wakingNow' = [wakingNow EXCEPT ![App(w)] = TRUE]
        /\ UNCHANGED <<row, opStatus, lastEvent, kube>>
    BY <1>7 DEF LoadOrStore
  <2>3. /\ r \in Task
        /\ wakingNow[App(w)] => r.pc = "idle"
        /\ ~wakingNow[App(w)] => r.pc = "wake_scale" /\ r.app = App(w)
    BY <1>1, <1>2, <2>1 DEF Task, Pc, WakePc, Kinds
  <2>. HIDE DEF r
  <2>4. row' \in [Apps -> Row] /\ wakingNow' \in [Apps -> BOOLEAN]
    BY <2>2 DEF TypeOK
  <2>5. r.pc \in WakerPc /\ (r.pc \in Busy => r.app \in Apps)
    BY <2>1, <2>3 DEF WakerPc, WakerWork, WakePc, Busy
  <2>6. /\ TypeOK' /\ HasApp' /\ RoleOK' /\ OpStatusOK'
        /\ task'[w] = r
        /\ \A s \in Actors : s # w => task'[s] = task[s]
    BY <1>3, <2>2, <2>3, <2>4, <2>5
  <2>7. ASSUME NEW a \in Apps
        PROVE  /\ wakingNow'[a] => \E v \in Wakers : Waking(v, a)'
               /\ \A v \in Wakers : Waking(v, a)' => wakingNow'[a]
               /\ \A u, v \in Wakers : Waking(u, a)' /\ Waking(v, a)' => u = v
    <3>1. ASSUME NEW v \in Wakers, v # w PROVE Waking(v, a)' <=> Waking(v, a)
      BY <2>6, <3>1 DEF Waking, App
    <3>2. ~Waking(w, a)
      BY <2>1 DEF Waking, WakePc
    <3>3. Waking(w, a)' <=> (~wakingNow[App(w)] /\ a = App(w))
      BY <2>3, <2>6 DEF Waking, App, WakePc
    <3>4. wakingNow'[a] = IF a = App(w) THEN TRUE ELSE wakingNow[a]
      BY <2>2 DEF TypeOK
    <3>. QED BY <3>1, <3>2, <3>3, <3>4 DEF WakingNowExact
  <2>8. WakingNowExact'
    BY <2>7 DEF WakingNowExact
  <2>. QED BY <2>6, <2>8
<1>8. CASE WakeFinish(w)
  <2>1. task[w].pc = "finish" /\ task[w].app \in Apps /\ App(w) = task[w].app
    BY <1>1, <1>8 DEF WakeFinish, At, HasApp, Busy, Pc, App
  <2>2. /\ task' = [task EXCEPT ![w] = IdleTask]
        /\ wakingNow' = [wakingNow EXCEPT ![App(w)] = FALSE]
        /\ UNCHANGED <<row, opStatus, lastEvent, kube>>
    BY <1>8 DEF WakeFinish
  <2>3. row' \in [Apps -> Row] /\ wakingNow' \in [Apps -> BOOLEAN]
    BY <2>2 DEF TypeOK
  <2>4. IdleTask.pc \in WakerPc /\ IdleTask.pc \notin Busy
    BY <1>2 DEF WakerPc, Busy
  <2>5. /\ TypeOK' /\ HasApp' /\ RoleOK' /\ OpStatusOK'
        /\ task'[w] = IdleTask
        /\ \A s \in Actors : s # w => task'[s] = task[s]
    BY <1>2, <1>3, <2>2, <2>3, <2>4
  <2>6. ASSUME NEW a \in Apps
        PROVE  /\ wakingNow'[a] => \E v \in Wakers : Waking(v, a)'
               /\ \A v \in Wakers : Waking(v, a)' => wakingNow'[a]
               /\ \A u, v \in Wakers : Waking(u, a)' /\ Waking(v, a)' => u = v
    <3>1. ASSUME NEW v \in Wakers, v # w PROVE Waking(v, a)' <=> Waking(v, a)
      BY <2>5, <3>1 DEF Waking, App
    <3>2. Waking(w, App(w)) /\ (a # App(w) => ~Waking(w, a))
      BY <2>1 DEF Waking
    <3>3. ~Waking(w, a)'
      BY <1>2, <2>5 DEF Waking, WakePc
    <3>4. wakingNow'[a] = IF a = App(w) THEN FALSE ELSE wakingNow[a]
      BY <2>2 DEF TypeOK
    <3>. QED BY <2>1, <3>1, <3>2, <3>3, <3>4 DEF WakingNowExact
  <2>7. WakingNowExact'
    BY <2>6 DEF WakingNowExact
  <2>. QED BY <2>5, <2>7
<1>9. CASE WakeStep(w)
  BY <1>9, WakeControl
<1>. QED BY <1>4, <1>5, <1>6, <1>7, <1>8, <1>9 DEF WakerStep

(* The watchers. *)
LEMMA WatcherControl ==
  ASSUME Control, IdleStep \/ BudgetStep
  PROVE  Control'
<1>. USE DEF Control
<1>1. PICK w \in Watchers :
        \/ WatcherStep(w)
        \/ w = IdleWatcher /\ (IdleDesired \/ IdleQueues \/ IdleRow)
  BY DEF IdleStep, BudgetStep
<1>2. w \in Actors /\ w \notin Ops /\ w \notin Wakers
  OBVIOUS
<1>3. task \in [Actors -> Task] /\ IdleTask \in Task /\ IdleTask.pc = "idle"
  BY DEF TypeOK, IdleTask, Task, Pc, Kinds
<1>4. ASSUME NEW r \in Task, r.pc \in WatcherPc, r.pc \in Busy => r.app \in Apps,
             task' = [task EXCEPT ![w] = r],
             UNCHANGED <<row, opStatus, lastEvent, kube, wakingNow>>
      PROVE  Control'
  <2>1. /\ task' \in [Actors -> Task]
        /\ task'[w] = r
        /\ \A s \in Actors : s # w => task'[s] = task[s]
    BY <1>2, <1>3, <1>4
  <2>2. TypeOK'
    BY <1>4, <2>1 DEF TypeOK
  <2>3. HasApp' /\ RoleOK' /\ OpStatusOK'
    BY <1>2, <1>4, <2>1 DEF HasApp, RoleOK, OpStatusOK
  <2>4. WakingNowExact'
    BY <1>2, <1>4, <2>1 DEF WakingNowExact, Waking, App
  <2>. QED BY <2>2, <2>3, <2>4
<1>5. CASE WatcherTick(w)
  <2>1. PICK due \in SUBSET Apps :
          task' = [task EXCEPT ![w] = [IdleTask EXCEPT !.pc = "next", !.todo = due]]
    <3>. DEFINE listed == {a \in Apps : Listed(a) /\ ~row[a].hibernated}
                due == IF w = IdleWatcher
                         THEN {a \in listed : AppType[a] # "cron"} ELSE listed
    <3>1. due \in SUBSET Apps
      OBVIOUS
    <3>2. task' = [task EXCEPT ![w] = [IdleTask EXCEPT !.pc = "next", !.todo = due]]
      BY <1>5 DEF WatcherTick
    <3>. QED BY <3>1, <3>2
  <2>. DEFINE r == [IdleTask EXCEPT !.pc = "next", !.todo = due]
  <2>2. r \in Task /\ r.pc = "next"
    BY DEF IdleTask, Task, Pc, Kinds, WatchPc
  <2>. HIDE DEF r
  <2>3. r.pc \in WatcherPc /\ r.pc \notin Busy
    BY <2>2 DEF WatcherPc, WatchPc, Busy
  <2>4. task' = [task EXCEPT ![w] = r]
    BY <2>1 DEF r
  <2>5. UNCHANGED <<row, opStatus, lastEvent, kube, wakingNow>>
    BY <1>5 DEF WatcherTick
  <2>. QED BY <1>4, <2>2, <2>3, <2>4, <2>5
<1>6. CASE WatcherDone(w)
  <2>1. IdleTask.pc \in WatcherPc /\ IdleTask.pc \notin Busy
    BY <1>3 DEF WatcherPc, Busy
  <2>. QED BY <1>3, <1>4, <1>6, <2>1 DEF WatcherDone
<1>7. ASSUME NEW a \in Apps, SkipExempt(w, a)
      PROVE  Control'
  <2>. DEFINE r == [task[w] EXCEPT !.todo = @ \ {a}]
  <2>1. r \in Task /\ r.pc = "next"
    BY <1>2, <1>3, <1>7 DEF SkipExempt, At, Task
  <2>2. task' = [task EXCEPT ![w] = r]
    BY <1>2, <1>3, <1>7 DEF SkipExempt
  <2>. HIDE DEF r
  <2>3. r.pc \in WatcherPc /\ r.pc \notin Busy
    BY <2>1 DEF WatcherPc, WatchPc, Busy
  <2>. QED BY <1>4, <1>7, <2>1, <2>2, <2>3 DEF SkipExempt
<1>8. ASSUME NEW a \in Apps, WatcherPick(w, a)
      PROVE  Control'
  <2>. DEFINE first == IF w = BudgetWatcher THEN FirstHib(a)
                       ELSE IF IsHttp(a) THEN "idle_desired" ELSE "idle_queues"
              r == [task[w] EXCEPT !.app = a, !.todo = @ \ {a}, !.pc = first]
  <2>1. first \in WatcherPc /\ first \in Pc
    BY DEF FirstHib, WatcherPc, WatchPc, HibPc, Pc
  <2>2. task' = [task EXCEPT ![w] = r]
    BY <1>2, <1>3, <1>8 DEF WatcherPick
  <2>. HIDE DEF first
  <2>3. r \in Task /\ r.pc = first /\ r.app = a
    BY <1>2, <1>3, <2>1 DEF Task
  <2>. QED BY <1>4, <1>8, <2>1, <2>2, <2>3 DEF WatcherPick
<1>9. CASE HibernateStep(w)
  BY <1>9, HibernateControl
<1>10. ASSUME task[w].pc \in Busy, NEW label \in WatcherPc
       PROVE  WorkMove(w, label)
  BY <1>2, <1>10 DEF WorkMove, HasApp
<1>11. CASE w = IdleWatcher /\ IdleDesired
  <2>1. task[w].pc \in Busy
    BY <1>11 DEF IdleDesired, At, Busy, Pc, WatchPc
  <2>2. PICK label \in {"idle_row", "next"} : Goto(w, label)
    BY <1>11 DEF IdleDesired
  <2>3. WorkMove(w, label)
    BY <1>10, <2>1 DEF WatcherPc, WatchPc
  <2>. QED BY <1>2, <1>11, <2>2, <2>3, ReadControl DEF IdleDesired
<1>12. CASE w = IdleWatcher /\ IdleQueues
  <2>1. task[w].pc \in Busy
    BY <1>12 DEF IdleQueues, At, Busy, Pc, WatchPc
  <2>2. row[App(w)] \in Row
    BY <1>2, <2>1, AtWork
  <2>3. [row[App(w)] EXCEPT !.last_active = "fresh"] \in Row
    BY <2>2, RowTypes
  <2>4. PICK label \in {"idle_row", "next"} : Goto(w, label)
    BY <1>12 DEF IdleQueues
  <2>5. WorkMove(w, label) /\ label \in Pc
    BY <1>10, <2>1 DEF WatcherPc, WatchPc, Pc
  <2>6. row' \in [Apps -> Row]
    BY <1>12, <2>3 DEF IdleQueues, TypeOK
  <2>7. UNCHANGED <<opStatus, lastEvent, kube, wakingNow>>
    BY <1>12 DEF IdleQueues
  <2>8. /\ kube' \in [Apps -> Cluster]
        /\ lastEvent' \in [Apps -> {"none", "scale_to_0", "scale_to_1"}]
    BY <2>7 DEF TypeOK
  <2>. QED BY <1>2, <2>4, <2>5, <2>6, <2>7, <2>8, WorkStep DEF WorkMove
<1>13. CASE w = IdleWatcher /\ IdleRow
  <2>1. task[w].pc \in Busy
    BY <1>13 DEF IdleRow, At, Busy, Pc, WatchPc
  <2>. DEFINE label == IF IdleTooLong(App(w)) THEN FirstHib(App(w)) ELSE "next"
  <2>2. label \in WatcherPc /\ Goto(w, label)
    BY <1>13 DEF IdleRow, FirstHib, WatcherPc, HibPc, WatchPc
  <2>. HIDE DEF label
  <2>3. WorkMove(w, label)
    BY <1>10, <2>1, <2>2
  <2>. QED BY <1>2, <1>13, <2>2, <2>3, ReadControl DEF IdleRow
<1>. QED
  BY <1>1, <1>5, <1>6, <1>7, <1>8, <1>9, <1>11, <1>12, <1>13 DEF WatcherStep

(* The cluster's controllers, the passing of time, and a crash. *)
LEMMA EnvironmentControl ==
  ASSUME Control, Cloud \/ Crash \/ \E a \in Apps : Idle(a)
  PROVE  Control'
<1>. USE DEF Control
<1>1. ASSUME NEW a \in Apps, PodReady(a) \/ PodGone(a) \/ NamespaceGone(a)
      PROVE  Control'
  <2>1. kube[a] \in Cluster /\ NoCluster \in Cluster
    BY DEF TypeOK, NoCluster, Cluster
  <2>2. kube[a].image \in Images \cup {None}
    BY <2>1 DEF Cluster
  <2>3. /\ [kube[a] EXCEPT !.pod = kube[a].image] \in Cluster
        /\ [kube[a] EXCEPT !.pod = None] \in Cluster
    BY <2>1, <2>2, ClusterTypes
  <2>4. PICK k \in Cluster : kube' = [kube EXCEPT ![a] = k]
    BY <1>1, <2>1, <2>3 DEF PodReady, PodGone, NamespaceGone, TypeOK
  <2>5. kube' \in [Apps -> Cluster]
    BY <2>4 DEF TypeOK
  <2>6. UNCHANGED <<row, opStatus, lastEvent, task, wakingNow>>
    BY <1>1 DEF PodReady, PodGone, NamespaceGone
  <2>7. /\ row' \in [Apps -> Row]
        /\ lastEvent' \in [Apps -> {"none", "scale_to_0", "scale_to_1"}]
    BY <2>6 DEF TypeOK
  <2>. QED BY <2>5, <2>6, <2>7, TableStep
<1>2. ASSUME NEW a \in Apps, Idle(a)
      PROVE  Control'
  <2>1. [row[a] EXCEPT !.last_active = "stale"] \in Row
    BY RowTypes DEF TypeOK
  <2>2. row' \in [Apps -> Row]
    BY <1>2, <2>1 DEF Idle, TypeOK
  <2>3. UNCHANGED <<opStatus, lastEvent, kube, task, wakingNow>>
    BY <1>2 DEF Idle
  <2>4. /\ kube' \in [Apps -> Cluster]
        /\ lastEvent' \in [Apps -> {"none", "scale_to_0", "scale_to_1"}]
    BY <2>3 DEF TypeOK
  <2>. QED BY <2>2, <2>3, <2>4, TableStep
<1>3. CASE Crash
  <2>1. /\ IdleTask \in Task /\ IdleTask.pc = "idle"
        /\ [IdleTask EXCEPT !.pc = "lost"] \in Task
        /\ [IdleTask EXCEPT !.pc = "lost"].pc = "lost"
    BY DEF IdleTask, Task, Pc, Kinds
  <2>2. /\ task' \in [Actors -> Task]
        /\ \A w \in Wakers \cup Watchers : task'[w].pc = "idle"
        /\ \A o \in Ops : \/ ~Live(o) /\ task'[o] = task[o]
                          \/ Live(o) /\ task'[o].pc = "lost"
    BY <1>3, <2>1 DEF Crash, TypeOK
  <2>3. UNCHANGED <<row, opStatus, lastEvent, kube>>
        /\ wakingNow' = [a \in Apps |-> FALSE]
    BY <1>3 DEF Crash
  <2>4. TypeOK'
    BY <2>2, <2>3 DEF TypeOK
  <2>5. HasApp' /\ RoleOK'
    BY <2>2 DEF HasApp, RoleOK, Busy, OpPc, WakerPc, WatcherPc
  <2>6. ASSUME NEW o \in Ops, Live(o) PROVE opStatus[o] # "succeeded"
    BY <2>6 DEF RoleOK, OpPc, OpStatusOK, Live
  <2>7. OpStatusOK'
    BY <2>2, <2>3, <2>6 DEF OpStatusOK, OpWork, DeployPc, HibPc, WakePc, DeletePc
  <2>8. WakingNowExact'
    BY <2>2, <2>3 DEF WakingNowExact, Waking, WakePc
  <2>. QED BY <2>4, <2>5, <2>7, <2>8
<1>. QED BY <1>1, <1>2, <1>3 DEF Cloud

(* Every step of every goroutine, of the cluster and of a crash preserves  *)
(* Control.                                                                *)
LEMMA ControlNext == Control /\ [Next]_vars => Control'
<1>. SUFFICES ASSUME Control, [Next]_vars PROVE Control'
  OBVIOUS
<1>1. ASSUME NEW o \in Ops, Request(o) PROVE Control'
  BY <1>1, RequestControl
<1>2. ASSUME NEW o \in Ops, OpStep(o) PROVE Control'
  BY <1>2, OperationControl, DeployControl, HibernateControl, WakeControl,
     DeleteControl DEF OpStep
<1>3. ASSUME NEW w \in Wakers, WakerStep(w) \/ \E a \in Apps : InternalWake(w, a)
      PROVE  Control'
  BY <1>3, WakerControl
<1>4. CASE IdleStep \/ BudgetStep
  BY <1>4, WatcherControl
<1>5. CASE Cloud \/ Crash \/ \E a \in Apps : Idle(a)
  BY <1>5, EnvironmentControl
<1>6. CASE UNCHANGED vars
  BY <1>6, TableStep DEF vars, Control, TypeOK
<1>. QED BY <1>1, <1>2, <1>3, <1>4, <1>5, <1>6 DEF Next

(* Control is an invariant of the tasks of apps.go, lifecycle.go and        *)
(* mux.go, however they interleave, fail or die.                           *)
THEOREM ControlInvariant == Spec => []Control
BY ControlInit, ControlNext, PTL DEF Spec

-----------------------------------------------------------------------------
(* The theorems that rest on Control. *)

(* Every variable has its type in every reachable state: no statement of   *)
(* the handlers, the wake endpoint or the watchers writes a status, a      *)
(* scale or a program counter that the model does not know.                *)
THEOREM TypeCorrect == Spec => []TypeOK
BY ControlInvariant, PTL DEF Control

(* The operation that a client polls agrees with the goroutine at work on  *)
(* it, however operations, wakes, watchers, errors and crashes interleave. *)
THEOREM OperationsTruthful == Spec => []OperationTellsTheTruth
<1>1. Control => OperationTellsTheTruth
  <2>. SUFFICES ASSUME Control, NEW o \in Ops
                PROVE  /\ task[o].pc = "done" => opStatus[o] \in Terminal
                       /\ opStatus[o] = "succeeded" => task[o].pc = "done"
                       /\ opStatus[o] = "failed"
                            => task[o].pc \in {"fail_status", "done", "lost"}
                       /\ Live(o) /\ task[o].pc \notin
                                       {"create_op", "start_op", "fail_status"}
                            => opStatus[o] = "running"
    BY DEF OperationTellsTheTruth
  <2>1. task[o].pc \in OpPc
    BY DEF Control, RoleOK
  <2>. QED BY <2>1 DEF Control, OpStatusOK, OpPc, Live
<1>. QED BY <1>1, ControlInvariant, PTL

(* The wake map of internalWakeHandler is exact: never a leaked entry,     *)
(* never two wakes of one app.                                             *)
THEOREM WakeMapExact == Spec => []WakingNowExact
BY ControlInvariant, PTL DEF Control

(* A terminal status is final: no step of any goroutine changes it.        *)
THEOREM TerminalStatusFinal == Spec => TerminalIsFinal
<1>1. ASSUME Control, [Next]_vars, NEW o \in Ops, opStatus[o] \in Terminal
      PROVE  opStatus'[o] = opStatus[o]
  <2>. USE <1>1 DEF Control
  <2>1. task[o].pc \in {"fail_status", "done", "lost"}
    BY DEF OpStatusOK, RoleOK, OpPc, Terminal
  <2>2. opStatus \in [Ops -> OpStatus]
    BY DEF TypeOK
  <2>3. ASSUME NEW p \in Ops, Request(p) PROVE opStatus'[o] = opStatus[o]
    BY <2>1, <2>2, <2>3 DEF Request, UpsertApp, HibernateApp, WakeApp, DeleteApp,
       RequestTask, SyncRepo, At
  <2>4. ASSUME NEW p \in Ops, OpStep(p) PROVE opStatus'[o] = opStatus[o]
    <3>1. CASE \/ CreateOperation(p) \/ StartOperation(p)
               \/ SucceedOperation(p) \/ FailOperation(p)
      BY <2>1, <2>2, <3>1 DEF CreateOperation, StartOperation, SucceedOperation,
         FailOperation, OpUpdate, At
    <3>2. CASE FailStatus(p)
      BY <3>2 DEF FailStatus, RowUpdate
    <3>3. CASE DeployStep(p)
      BY <3>3 DEF DeployStep, DeployingStatus, ApplyNamespace, ApplyWorkload,
         ApplyAppService, ApplyHTTPRoute, RolloutSucceeds, RolloutFails,
         RollbackDeployment, RollbackImages, DeployedImages, DeployedStatus,
         DeployedEvent, KubeCall, RowUpdate, ScaleEvent
    <3>4. CASE HibernateStep(p)
      BY <3>4 DEF HibernateStep, HibRoute, HibScale, HibEvent, HibFlag,
         HibStatus, KubeCall, RowUpdate, ScaleEvent
    <3>5. CASE WakeStep(p)
      BY <3>5 DEF WakeStep, WakeScale, WakeWatch, WakeLookup, WakeRoute,
         WakeEvent, WakeFlag, WakeStatus, KubeCall, RowUpdate, ScaleEvent
    <3>6. CASE DeleteStep(p)
      BY <3>6 DEF DeleteStep, DeleteRoute, DeleteService, DeleteAppNamespace,
         DeletedStatus, KubeCall, RowUpdate
    <3>. QED BY <2>4, <3>1, <3>2, <3>3, <3>4, <3>5, <3>6 DEF OpStep
  <2>5. ASSUME NEW w \in Wakers, WakerStep(w) \/ \E a \in Apps : InternalWake(w, a)
        PROVE  opStatus'[o] = opStatus[o]
    BY <2>5 DEF WakerStep, WakeTouch, WakeRefused, LoadOrStore, WakeFinish,
       InternalWake, WakeStep, WakeScale, WakeWatch, WakeLookup, WakeRoute,
       WakeEvent, WakeFlag, WakeStatus, KubeCall, RowUpdate, ScaleEvent
  <2>6. ASSUME NEW w, WatcherStep(w) PROVE opStatus'[o] = opStatus[o]
    BY <2>6 DEF WatcherStep, WatcherTick, WatcherDone, SkipExempt, WatcherPick,
       HibernateStep, HibRoute, HibScale, HibEvent, HibFlag, HibStatus,
       KubeCall, RowUpdate, ScaleEvent
  <2>7. CASE IdleStep \/ BudgetStep
    BY <2>6, <2>7 DEF IdleStep, BudgetStep, IdleDesired, IdleQueues, IdleRow
  <2>8. CASE Cloud \/ Crash \/ \E a \in Apps : Idle(a)
    BY <2>8 DEF Cloud, PodReady, PodGone, NamespaceGone, Crash, Idle
  <2>. QED BY <2>3, <2>4, <2>5, <2>7, <2>8 DEF Next, vars
<1>2. Control /\ [Next]_vars =>
        [\A o \in Ops : opStatus[o] \in Terminal => opStatus'[o] = opStatus[o]]_vars
  BY <1>1
<1>. QED BY <1>2, ControlInvariant, PTL DEF Spec, TerminalIsFinal
=============================================================================
