---------------------------- MODULE AppLifecycle ----------------------------
(***************************************************************************)
(* The life of an app on the platform: deploy, hibernate, wake and delete. *)
(*                                                                         *)
(* Every accepted API request writes a row of the operations table and     *)
(* starts a goroutine that works on the cluster and on the apps table with *)
(* no lock and no transaction (internal/api/handler/apps.go and            *)
(* lifecycle.go).  The wake proxy's requests start goroutines of their own *)
(* (internal/api/mux.go) and two watchers hibernate apps in the background *)
(* (internal/watchers).  Every Kubernetes call and every SQL statement of  *)
(* these goroutines is one step here, so all their interleavings are       *)
(* behaviours of the model.                                                *)
(*                                                                         *)
(* The cluster (package internal/kube) is the record kube[a]; its          *)
(* controllers, which are not part of the repository, are the actions      *)
(* PodReady, PodGone and NamespaceGone.                                    *)
(***************************************************************************)
EXTENDS Naturals, FiniteSets

CONSTANTS
  Apps,           \* apps, each with one row and one namespace
  AppType,        \* the type declared for each app
  Ops,            \* operation ids: every accepted request takes a fresh one
  Wakers,         \* goroutines the internal wake handler may start
  IdleWatcher,    \* the goroutine of watchers.Hibernation
  BudgetWatcher,  \* the goroutine of watchers.Budget
  Watchers,       \* the watchers that run
  Images,         \* image digests
  Startable,      \* the images whose pods become ready
  None,           \* SQL NULL, and "no app"
  Exclusive,      \* TRUE: the tasks of one app never overlap
  KubeMayFail,    \* TRUE: any Kubernetes call may return an error
  MayCrash        \* TRUE: the API process may be killed at any step

Actors == Ops \cup Wakers \cup Watchers

ASSUME ConstantsOK ==
  /\ AppType \in [Apps -> {"http", "worker", "cron"}]
  /\ Startable \subseteq Images
  /\ None \notin Images /\ None \notin Apps
  /\ Exclusive \in BOOLEAN /\ KubeMayFail \in BOOLEAN /\ MayCrash \in BOOLEAN

ASSUME ActorsDistinct ==
  /\ Ops \cap Wakers = {}
  /\ Ops \cap Watchers = {}
  /\ Wakers \cap Watchers = {}
  /\ Watchers \subseteq {IdleWatcher, BudgetWatcher}
  /\ IdleWatcher # BudgetWatcher

VARIABLES
  row,        \* the apps table
  opStatus,   \* the operations table
  lastEvent,  \* the newest row of scale_events for each app
  kube,       \* the cluster's objects for each app
  task,       \* the goroutines
  wakingNow   \* the sync.Map of internalWakeHandler

vars == <<row, opStatus, lastEvent, kube, task, wakingNow>>

-----------------------------------------------------------------------------
(* Types *)

Row == [present : BOOLEAN, image_current : Images \cup {None},
        image_last_healthy : Images \cup {None},
        status : {"pending", "deploying", "running", "failed",
                  "hibernated", "deleted"},
        hibernated : BOOLEAN, deletion_pending : BOOLEAN,
        \* last_active_at against idle_after: NULL, recent, or old enough
        last_active : {"null", "fresh", "stale"}]

(* The workload is a Deployment, or a CronJob for a cron app; scale is     *)
(* "zero" for replicas = 0 and for suspend = true.  pod is the image of    *)
(* the ready pod: readyReplicas is 1 exactly when pod # None.              *)
Cluster == [ns : {"absent", "active", "terminating"},
            scale : {"none", "zero", "one"}, image : Images \cup {None},
            pod : Images \cup {None}, svc : BOOLEAN,
            route : {"none", "app", "proxy"}]

OpStatus == {"unused", "pending", "running", "succeeded", "failed"}
Terminal == {"succeeded", "failed"}
Kinds == {"none", "deploy", "hibernate", "wake", "delete"}

DeployPc == {"deploying", "apply_ns", "apply_workload", "apply_service",
             "apply_route", "rollout", "rollback", "rollback_images",
             "images", "deployed_status", "deployed_event"}
HibPc == {"hib_route", "hib_scale", "hib_event", "hib_flag", "hib_status"}
WakePc == {"wake_scale", "wake_watch", "wake_lookup", "wake_route",
           "wake_event", "wake_flag", "wake_status"}
DeletePc == {"del_route", "del_service", "del_ns", "del_status"}
WatchPc == {"next", "idle_desired", "idle_queues", "idle_row"}
OpEndPc == {"succeed", "fail_op", "fail_status"}
Pc == {"idle", "create_op", "start_op", "touch", "gate", "finish", "done",
       "lost"}
        \cup DeployPc \cup HibPc \cup WakePc \cup DeletePc \cup WatchPc
        \cup OpEndPc

Task == [pc : Pc, kind : Kinds, app : Apps \cup {None},
         image : Images \cup {None}, lastHealthy : Images \cup {None},
         todo : SUBSET Apps]

IdleTask == [pc |-> "idle", kind |-> "none", app |-> None, image |-> None,
             lastHealthy |-> None, todo |-> {}]

NoRow == [present |-> FALSE, image_current |-> None,
          image_last_healthy |-> None, status |-> "pending",
          hibernated |-> FALSE, deletion_pending |-> FALSE,
          last_active |-> "null"]

NoCluster == [ns |-> "absent", scale |-> "none", image |-> None,
              pod |-> None, svc |-> FALSE, route |-> "none"]

TypeOK ==
  /\ row \in [Apps -> Row]
  /\ opStatus \in [Ops -> OpStatus]
  /\ lastEvent \in [Apps -> {"none", "scale_to_0", "scale_to_1"}]
  /\ kube \in [Apps -> Cluster]
  /\ task \in [Actors -> Task]
  /\ wakingNow \in [Apps -> BOOLEAN]

Init ==
  /\ row = [a \in Apps |-> NoRow]
  /\ opStatus = [o \in Ops |-> "unused"]
  /\ lastEvent = [a \in Apps |-> "none"]
  /\ kube = [a \in Apps |-> NoCluster]
  /\ task = [t \in Actors |-> IdleTask]
  /\ wakingNow = [a \in Apps |-> FALSE]

-----------------------------------------------------------------------------
(* Helpers *)

Live(t) == task[t].pc \notin {"idle", "done", "lost", "next"}

(* No goroutine is working on app a. *)
Quiet(a) == \A t \in Actors : Live(t) => task[t].app # a

(* With Exclusive, a task of an app starts only when no other is at work.  *)
(* The code has no such lock: this is the discipline of a client that      *)
(* polls each operation to its end before it sends the next one.           *)
Free(a) == Exclusive => Quiet(a)

(* A goroutine moves to its next statement; one that returns takes its     *)
(* local variables with it.                                                *)
Goto(t, label) ==
  task' = IF label = "done"
            THEN [task EXCEPT ![t] = [IdleTask EXCEPT !.pc = "done"]]
            ELSE [task EXCEPT ![t].pc = label]

At(t, label) == task[t].pc = label

App(t) == task[t].app

IsHttp(a) == AppType[a] = "http"

(* ListAllApps and GetAppByNamespace see only these rows. *)
Listed(a) == row[a].present /\ ~row[a].deletion_pending

(* Seeded fault: an error path returns without FailOperation. *)
SilentError(t) ==
  CASE t \in Ops -> "done"
    [] t \in Wakers -> "finish"
    [] OTHER -> "next"

(* Where a goroutine goes when a Kubernetes call returns an error. *)
OnError(t) ==
  CASE t \in Ops -> "fail_op"
    [] t \in Wakers -> "finish"
    [] OTHER -> "next"

(* One Kubernetes call of goroutine t.  When possible holds it may succeed *)
(* and turn the app's objects into k; otherwise, or when the API server is *)
(* unavailable or reports a write conflict, it returns an error.           *)
KubeCall(t, possible, k, next) ==
  /\ \/ /\ possible
        /\ kube' = [kube EXCEPT ![App(t)] = k]
        /\ Goto(t, next)
     \/ /\ KubeMayFail \/ ~possible
        /\ Goto(t, OnError(t))
        /\ UNCHANGED kube
  /\ UNCHANGED <<row, opStatus, lastEvent, wakingNow>>

(* One UPDATE of the app's row; errors of the store are only logged. *)
RowUpdate(t, r, next) ==
  /\ row' = [row EXCEPT ![App(t)] = r]
  /\ Goto(t, next)
  /\ UNCHANGED <<opStatus, lastEvent, kube, wakingNow>>

OpUpdate(t, status, next) ==
  /\ opStatus' = [opStatus EXCEPT ![t] = status]
  /\ Goto(t, next)
  /\ UNCHANGED <<row, lastEvent, kube, wakingNow>>

(* RecordScaleEvent *)
ScaleEvent(t, event, next) ==
  /\ lastEvent' = [lastEvent EXCEPT ![App(t)] = event]
  /\ Goto(t, next)
  /\ UNCHANGED <<row, opStatus, kube, wakingNow>>

UpdateAppStatus(r, status) == [r EXCEPT !.status = status]

SetAppHibernated(r) == [r EXCEPT !.hibernated = TRUE, !.status = "hibernated"]

(* Seeded fault: a status that no reader of the column knows. *)
SetAppAwakeUnknown(r) == [r EXCEPT !.hibernated = FALSE, !.status = "awake"]

SetAppAwake(r) == [r EXCEPT !.hibernated = FALSE, !.status = "running"]

(* The store's upsert: the former current image becomes image_last_healthy *)
(* and the hibernated column is left as it was.                            *)
UpsertRow(r, img) ==
  IF r.present
    THEN [r EXCEPT !.image_last_healthy = r.image_current,
                   !.image_current = img,
                   !.status = "pending",
                   !.deletion_pending = FALSE]
    ELSE [NoRow EXCEPT !.present = TRUE, !.image_current = img]

ScaleDeployment(k, scale) ==
  IF k.scale = "none" THEN k ELSE [k EXCEPT !.scale = scale]

(* An HTTPRoute is updated where it exists and can be created only in a    *)
(* namespace that is not being deleted.                                    *)
CanSetRoute(k) == k.route # "none" \/ k.ns = "active"

SetRoute(k, target) == [k EXCEPT !.route = target]

-----------------------------------------------------------------------------
(* API requests: the handlers up to the operation row *)

NewTask(o, kind, a, img, lh) ==
  task' = [task EXCEPT ![o] = [IdleTask EXCEPT !.pc = "create_op",
                                               !.kind = kind, !.app = a,
                                               !.image = img,
                                               !.lastHealthy = lh]]

(* Handler.UpsertApp: the row, and the rollback target taken from it. *)
UpsertApp(o, a, img) ==
  /\ At(o, "idle")
  /\ Free(a)
  /\ LET r == UpsertRow(row[a], img)
     IN  /\ row' = [row EXCEPT ![a] = r]
         /\ NewTask(o, "deploy", a, img, r.image_last_healthy)
  /\ UNCHANGED <<opStatus, lastEvent, kube, wakingNow>>

(* Handler.HibernateApp and Handler.WakeApp: only a lookup of the row,     *)
(* which GetApp finds also when the app is marked for deletion.            *)
RequestTask(o, a, kind) ==
  /\ At(o, "idle")
  /\ Free(a)
  /\ row[a].present
  /\ NewTask(o, kind, a, None, None)
  /\ UNCHANGED <<row, opStatus, lastEvent, kube, wakingNow>>

HibernateApp(o, a) == RequestTask(o, a, "hibernate")

WakeApp(o, a) == RequestTask(o, a, "wake")

(* Handler.DeleteApp *)
DeleteApp(o, a) ==
  /\ At(o, "idle")
  /\ Free(a)
  /\ row[a].present
  /\ row' = [row EXCEPT ![a].deletion_pending = TRUE]
  /\ NewTask(o, "delete", a, None, None)
  /\ UNCHANGED <<opStatus, lastEvent, kube, wakingNow>>

(* Handler.SyncRepo over a repo that owns all of Apps: declared apps are   *)
(* upserted and the listed others marked for deletion; nothing is deployed *)
(* or removed from the cluster.  Its SQL statements, all on the request's  *)
(* own goroutine, are taken together.                                      *)
SyncRepo(o, declared) ==
  /\ At(o, "idle")
  /\ \A a \in Apps : Free(a)
  /\ row' = [a \in Apps |->
               IF a \in DOMAIN declared THEN UpsertRow(row[a], declared[a])
               ELSE IF Listed(a) THEN [row[a] EXCEPT !.deletion_pending = TRUE]
               ELSE row[a]]
  /\ opStatus' = [opStatus EXCEPT ![o] = "succeeded"]
  /\ task' = [task EXCEPT ![o] = [IdleTask EXCEPT !.pc = "done"]]
  /\ UNCHANGED <<lastEvent, kube, wakingNow>>

CreateOperation(o) ==
  /\ At(o, "create_op")
  /\ OpUpdate(o, "pending", "start_op")

(* Seeded fault: scaled down before, and without, the route to the proxy. *)
FirstHibNoRoute(a) == "hib_scale"

FirstHib(a) == IF IsHttp(a) THEN "hib_route" ELSE "hib_scale"

FirstStep(kind, a) ==
  CASE kind = "deploy" -> "deploying"
    [] kind = "hibernate" -> FirstHib(a)
    [] kind = "wake" -> "wake_scale"
    [] OTHER -> "del_route"

StartOperation(o) ==
  /\ At(o, "start_op")
  /\ OpUpdate(o, "running", FirstStep(task[o].kind, App(o)))

SucceedOperation(o) ==
  /\ At(o, "succeed")
  /\ OpUpdate(o, "succeeded", "done")

(* A failed deploy goes on to set the app's status; the others return. *)
FailOperation(o) ==
  /\ At(o, "fail_op")
  /\ OpUpdate(o, "failed",
              IF task[o].kind = "deploy" THEN "fail_status" ELSE "done")

(* Seeded fault: runDeploy does not return after a failure. *)
FailStatusFallsThrough(o) ==
  /\ At(o, "fail_status")
  /\ RowUpdate(o, UpdateAppStatus(row[App(o)], "failed"), "succeed")

FailStatus(o) ==
  /\ At(o, "fail_status")
  /\ RowUpdate(o, UpdateAppStatus(row[App(o)], "failed"), "done")

-----------------------------------------------------------------------------
(* runDeploy and kube.Apply *)

DeployingStatus(o) ==
  /\ At(o, "deploying")
  /\ RowUpdate(o, UpdateAppStatus(row[App(o)], "deploying"), "apply_ns")

(* ensureNamespace, quota, limits, network policy, service account *)
ApplyNamespace(o) ==
  /\ At(o, "apply_ns")
  /\ LET k == kube[App(o)]
     IN  KubeCall(o, TRUE,
                  IF k.ns = "absent" THEN [k EXCEPT !.ns = "active"] ELSE k,
                  "apply_workload")

(* applyDeployment and applyCronJob: replicas 1, not suspended, new image *)
ApplyWorkload(o) ==
  /\ At(o, "apply_workload")
  /\ LET k == kube[App(o)]
     IN  KubeCall(o, k.scale # "none" \/ k.ns = "active",
                  [k EXCEPT !.scale = "one", !.image = task[o].image],
                  CASE AppType[App(o)] = "http" -> "apply_service"
                    [] AppType[App(o)] = "worker" -> "rollout"
                    [] OTHER -> "images")

ApplyAppService(o) ==
  /\ At(o, "apply_service")
  /\ LET k == kube[App(o)]
     IN  KubeCall(o, k.svc \/ k.ns = "active", [k EXCEPT !.svc = TRUE],
                  "apply_route")

ApplyHTTPRoute(o) ==
  /\ At(o, "apply_route")
  /\ LET k == kube[App(o)]
     IN  KubeCall(o, CanSetRoute(k), SetRoute(k, "app"), "rollout")

(* WatchDeploymentRollout: readyReplicas >= desired.  It looks neither at  *)
(* the image of the ready pod nor at updatedReplicas.                      *)
RolloutComplete(k) ==
  \/ k.scale = "zero"
  \/ k.scale = "one" /\ k.pod # None

RolloutSucceeds(o) ==
  /\ At(o, "rollout")
  /\ RolloutComplete(kube[App(o)])
  /\ Goto(o, "images")
  /\ UNCHANGED <<row, opStatus, lastEvent, kube, wakingNow>>

(* A missing Deployment, an API error, a pod that cannot start, a timeout. *)
RolloutFails(o) ==
  /\ At(o, "rollout")
  /\ KubeMayFail \/ ~RolloutComplete(kube[App(o)])
  /\ Goto(o, IF task[o].lastHealthy = None THEN "fail_op" ELSE "rollback")
  /\ UNCHANGED <<row, opStatus, lastEvent, kube, wakingNow>>

RollbackDeployment(o) ==
  /\ At(o, "rollback")
  /\ LET k == kube[App(o)]
     IN  KubeCall(o, k.scale # "none",
                  [k EXCEPT !.image = task[o].lastHealthy], "rollback_images")

UpdateAppImages(r, img) ==
  [r EXCEPT !.image_current = img, !.image_last_healthy = img]

RollbackImages(o) ==
  /\ At(o, "rollback_images")
  /\ RowUpdate(o, UpdateAppImages(row[App(o)], task[o].lastHealthy), "fail_op")

DeployedImages(o) ==
  /\ At(o, "images")
  /\ RowUpdate(o, UpdateAppImages(row[App(o)], task[o].image),
               "deployed_status")

DeployedStatus(o) ==
  /\ At(o, "deployed_status")
  /\ RowUpdate(o, UpdateAppStatus(row[App(o)], "running"), "deployed_event")

DeployedEvent(o) ==
  /\ At(o, "deployed_event")
  /\ ScaleEvent(o, "scale_to_1", "succeed")

DeployStep(o) ==
  \/ DeployingStatus(o) \/ ApplyNamespace(o) \/ ApplyWorkload(o)
  \/ ApplyAppService(o) \/ ApplyHTTPRoute(o)
  \/ RolloutSucceeds(o) \/ RolloutFails(o)
  \/ RollbackDeployment(o) \/ RollbackImages(o)
  \/ DeployedImages(o) \/ DeployedStatus(o) \/ DeployedEvent(o)

-----------------------------------------------------------------------------
(* Hibernation: hibernateApp, hibernateHTTP, checkWorker, forceHibernateAll *)

HibRoute(t) ==
  /\ At(t, "hib_route")
  /\ LET k == kube[App(t)]
     IN  KubeCall(t, CanSetRoute(k), SetRoute(k, "proxy"), "hib_scale")

HibScale(t) ==
  /\ At(t, "hib_scale")
  /\ KubeCall(t, TRUE, ScaleDeployment(kube[App(t)], "zero"), "hib_event")

HibEvent(t) ==
  /\ At(t, "hib_event")
  /\ ScaleEvent(t, "scale_to_0", "hib_flag")

HibFlag(t) ==
  /\ At(t, "hib_flag")
  /\ RowUpdate(t, SetAppHibernated(row[App(t)]), "hib_status")

HibStatus(t) ==
  /\ At(t, "hib_status")
  /\ RowUpdate(t, UpdateAppStatus(row[App(t)], "hibernated"),
               IF t \in Ops THEN "succeed" ELSE "next")

HibernateStep(t) ==
  HibRoute(t) \/ HibScale(t) \/ HibEvent(t) \/ HibFlag(t) \/ HibStatus(t)

-----------------------------------------------------------------------------
(* Waking: handler.wakeApp, and wakeApp of internal/api/mux.go *)

(* Seeded fault: the error of ScaleDeployment or UnsuspendCronJob is       *)
(* dropped.                                                                *)
WakeScaleUnchecked(t) ==
  /\ At(t, "wake_scale")
  /\ LET next == IF IsHttp(App(t)) THEN "wake_watch" ELSE "wake_flag"
     IN  \/ KubeCall(t, TRUE, ScaleDeployment(kube[App(t)], "one"), next)
         \/ /\ KubeMayFail
            /\ Goto(t, next)
            /\ UNCHANGED <<row, opStatus, lastEvent, kube, wakingNow>>

WakeScale(t) ==
  /\ At(t, "wake_scale")
  /\ KubeCall(t, TRUE, ScaleDeployment(kube[App(t)], "one"),
              IF IsHttp(App(t)) THEN "wake_watch"
              ELSE IF t \in Ops THEN "wake_event" ELSE "wake_flag")

(* Seeded fault: no deadline. *)
WakeWatchForever(t) ==
  /\ At(t, "wake_watch")
  /\ kube[App(t)].pod # None
  /\ Goto(t, IF t \in Ops THEN "wake_route" ELSE "wake_lookup")
  /\ UNCHANGED <<row, opStatus, lastEvent, kube, wakingNow>>

(* WatchDeploymentReady: a ready replica, or the five minutes are over. *)
WakeWatch(t) ==
  /\ At(t, "wake_watch")
  /\ \/ /\ kube[App(t)].pod # None
        /\ Goto(t, IF t \in Ops THEN "wake_route" ELSE "wake_lookup")
     \/ /\ KubeMayFail \/ kube[App(t)].pod = None
        /\ Goto(t, OnError(t))
  /\ UNCHANGED <<row, opStatus, lastEvent, kube, wakingNow>>

(* Only the proxy's wakeApp looks the app up again, by namespace. *)
WakeLookup(t) ==
  /\ At(t, "wake_lookup")
  /\ Goto(t, IF Listed(App(t)) THEN "wake_route" ELSE "finish")
  /\ UNCHANGED <<row, opStatus, lastEvent, kube, wakingNow>>

(* RestoreHTTPRoute reads the port from the app's Service. *)
WakeRoute(t) ==
  /\ At(t, "wake_route")
  /\ LET k == kube[App(t)]
     IN  KubeCall(t, k.svc /\ CanSetRoute(k), SetRoute(k, "app"),
                  IF t \in Ops THEN "wake_event" ELSE "wake_flag")

WakeEvent(t) ==
  /\ At(t, "wake_event")
  /\ ScaleEvent(t, "scale_to_1", "wake_flag")

WakeFlag(t) ==
  /\ At(t, "wake_flag")
  /\ RowUpdate(t, SetAppAwake(row[App(t)]), "wake_status")

WakeStatus(t) ==
  /\ At(t, "wake_status")
  /\ RowUpdate(t, UpdateAppStatus(row[App(t)], "running"),
               IF t \in Ops THEN "succeed" ELSE "finish")

WakeStep(t) ==
  \/ WakeScale(t) \/ WakeWatch(t) \/ WakeLookup(t) \/ WakeRoute(t)
  \/ WakeEvent(t) \/ WakeFlag(t) \/ WakeStatus(t)

(* internalWakeHandler, for a request that the gateway sends to the wake   *)
(* proxy: the host is matched against the listed apps, last_active_at is   *)
(* written, the budget gate (module Budget) may refuse the request, and a  *)
(* wake in progress for the namespace makes it a no-op.                    *)
InternalWake(w, a) ==
  /\ At(w, "idle")
  /\ Free(a)
  /\ kube[a].route = "proxy"
  /\ Listed(a)
  /\ task' = [task EXCEPT ![w] = [IdleTask EXCEPT !.pc = "touch", !.app = a]]
  /\ UNCHANGED <<row, opStatus, lastEvent, kube, wakingNow>>

(* UpdateLastActiveAt *)
WakeTouch(w) ==
  /\ At(w, "touch")
  /\ RowUpdate(w, [row[App(w)] EXCEPT !.last_active = "fresh"], "gate")

(* A refused request ends here: the handler answers 503. *)
WakeRefused(w) ==
  /\ At(w, "gate")
  /\ task' = [task EXCEPT ![w] = IdleTask]
  /\ UNCHANGED <<row, opStatus, lastEvent, kube, wakingNow>>

(* Seeded fault: the entry is stored without looking for one. *)
StoreOnly(w) ==
  /\ At(w, "gate")
  /\ task' = [task EXCEPT ![w] =
                [task[w] EXCEPT !.pc = "wake_scale", !.kind = "wake"]]
  /\ wakingNow' = [wakingNow EXCEPT ![App(w)] = TRUE]
  /\ UNCHANGED <<row, opStatus, lastEvent, kube>>

(* wakingNow.LoadOrStore: the one that stores starts the goroutine. *)
LoadOrStore(w) ==
  /\ At(w, "gate")
  /\ task' = [task EXCEPT ![w] =
                IF wakingNow[App(w)] THEN IdleTask
                ELSE [task[w] EXCEPT !.pc = "wake_scale", !.kind = "wake"]]
  /\ wakingNow' = [wakingNow EXCEPT ![App(w)] = TRUE]
  /\ UNCHANGED <<row, opStatus, lastEvent, kube>>

(* Seeded fault: the entry of the map is left behind. *)
WakeFinishLeaks(w) ==
  /\ At(w, "finish")
  /\ task' = [task EXCEPT ![w] = IdleTask]
  /\ UNCHANGED <<row, opStatus, lastEvent, kube, wakingNow>>

(* The deferred wakingNow.Delete of the goroutine. *)
WakeFinish(w) ==
  /\ At(w, "finish")
  /\ wakingNow' = [wakingNow EXCEPT ![App(w)] = FALSE]
  /\ task' = [task EXCEPT ![w] = IdleTask]
  /\ UNCHANGED <<row, opStatus, lastEvent, kube>>

-----------------------------------------------------------------------------
(* handler.deleteApp and kube.Delete *)

DeleteRoute(o) ==
  /\ At(o, "del_route")
  /\ KubeCall(o, TRUE, SetRoute(kube[App(o)], "none"), "del_service")

DeleteService(o) ==
  /\ At(o, "del_service")
  /\ KubeCall(o, TRUE, [kube[App(o)] EXCEPT !.svc = FALSE], "del_ns")

(* Seeded fault: the error of the deletion is dropped. *)
DeleteAppNamespaceUnchecked(o) ==
  /\ At(o, "del_ns")
  /\ LET k == kube[App(o)]
     IN  \/ KubeCall(o, TRUE,
                  IF k.ns = "absent" THEN k ELSE [k EXCEPT !.ns = "terminating"],
                  "del_status")
         \/ /\ KubeMayFail
            /\ Goto(o, "del_status")
            /\ UNCHANGED <<row, opStatus, lastEvent, kube, wakingNow>>

(* The API server accepts the deletion; NamespaceGone ends it. *)
DeleteAppNamespace(o) ==
  /\ At(o, "del_ns")
  /\ LET k == kube[App(o)]
     IN  KubeCall(o, TRUE,
                  IF k.ns = "absent" THEN k ELSE [k EXCEPT !.ns = "terminating"],
                  "del_status")

DeletedStatus(o) ==
  /\ At(o, "del_status")
  /\ RowUpdate(o, UpdateAppStatus(row[App(o)], "deleted"), "succeed")

DeleteStep(o) ==
  DeleteRoute(o) \/ DeleteService(o) \/ DeleteAppNamespace(o) \/ DeletedStatus(o)

-----------------------------------------------------------------------------
(* The watchers: one list of the apps per tick, then the apps one by one.  *)
(* The list is a snapshot: flags may have changed when an app's turn comes. *)

WatcherTick(w) ==
  /\ At(w, "idle")
  /\ LET listed == {a \in Apps : Listed(a) /\ ~row[a].hibernated}
         due == IF w = IdleWatcher
                  THEN {a \in listed : AppType[a] # "cron"} ELSE listed
     IN  /\ due # {}
         /\ task' = [task EXCEPT ![w] = [IdleTask EXCEPT !.pc = "next",
                                                         !.todo = due]]
  /\ UNCHANGED <<row, opStatus, lastEvent, kube, wakingNow>>

(* forceHibernateAll passes over an exempt app (module Budget). *)
SkipExempt(w, a) ==
  /\ w = BudgetWatcher
  /\ At(w, "next")
  /\ a \in task[w].todo
  /\ task' = [task EXCEPT ![w].todo = @ \ {a}]
  /\ UNCHANGED <<row, opStatus, lastEvent, kube, wakingNow>>

WatcherPick(w, a) ==
  /\ At(w, "next")
  /\ a \in task[w].todo
  /\ Free(a)
  /\ task' = [task EXCEPT ![w].app = a, ![w].todo = @ \ {a},
                          ![w].pc = IF w = BudgetWatcher THEN FirstHib(a)
                                    ELSE IF IsHttp(a) THEN "idle_desired"
                                    ELSE "idle_queues"]
  /\ UNCHANGED <<row, opStatus, lastEvent, kube, wakingNow>>

WatcherDone(w) ==
  /\ At(w, "next")
  /\ task[w].todo = {}
  /\ task' = [task EXCEPT ![w] = IdleTask]
  /\ UNCHANGED <<row, opStatus, lastEvent, kube, wakingNow>>

(* checkHTTP: AppReplicaCounts, which also answers 0 on an error *)
IdleDesired ==
  /\ At(IdleWatcher, "idle_desired")
  /\ \/ /\ kube[App(IdleWatcher)].scale = "one"
        /\ Goto(IdleWatcher, "idle_row")
     \/ /\ KubeMayFail \/ kube[App(IdleWatcher)].scale # "one"
        /\ Goto(IdleWatcher, "next")
  /\ UNCHANGED <<row, opStatus, lastEvent, kube, wakingNow>>

(* checkWorker: the queue service reports a queue that is not idle, fails  *)
(* to answer, or reports every queue idle.                                 *)
IdleQueues ==
  /\ At(IdleWatcher, "idle_queues")
  /\ \/ /\ row' = [row EXCEPT ![App(IdleWatcher)].last_active = "fresh"]
        /\ Goto(IdleWatcher, "next")
     \/ /\ \/ Goto(IdleWatcher, "next")
           \/ Goto(IdleWatcher, "idle_row")
        /\ UNCHANGED row
  /\ UNCHANGED <<opStatus, lastEvent, kube, wakingNow>>

(* Seeded fault: the comparison with idle_after is inverted. *)
IdleTooShort(a) == Listed(a) /\ row[a].last_active = "fresh"

(* An HTTP app whose last_active_at is NULL is left alone, a worker is not. *)
IdleTooLong(a) ==
  /\ Listed(a)
  /\ IF IsHttp(a) THEN row[a].last_active = "stale"
                  ELSE row[a].last_active # "fresh"

IdleRow ==
  /\ At(IdleWatcher, "idle_row")
  /\ Goto(IdleWatcher,
          IF IdleTooLong(App(IdleWatcher)) THEN FirstHib(App(IdleWatcher))
                                           ELSE "next")
  /\ UNCHANGED <<row, opStatus, lastEvent, kube, wakingNow>>

WatcherStep(w) ==
  \/ WatcherTick(w) \/ WatcherDone(w)
  \/ \E a \in Apps : SkipExempt(w, a) \/ WatcherPick(w, a)
  \/ HibernateStep(w)

-----------------------------------------------------------------------------
(* The environment *)

(* idle_after goes by without activity. *)
Idle(a) ==
  /\ row[a].last_active = "fresh"
  /\ row' = [row EXCEPT ![a].last_active = "stale"]
  /\ UNCHANGED <<opStatus, lastEvent, kube, task, wakingNow>>

(* The Deployment controller replaces the ready pod only when a pod of the *)
(* new image is ready (rolling update).                                    *)
PodReady(a) ==
  /\ AppType[a] # "cron"
  /\ kube[a].scale = "one"
  /\ kube[a].image \in Startable
  /\ kube[a].pod # kube[a].image
  /\ kube' = [kube EXCEPT ![a].pod = kube[a].image]
  /\ UNCHANGED <<row, opStatus, lastEvent, task, wakingNow>>

PodGone(a) ==
  /\ kube[a].scale = "zero"
  /\ kube[a].pod # None
  /\ kube' = [kube EXCEPT ![a].pod = None]
  /\ UNCHANGED <<row, opStatus, lastEvent, task, wakingNow>>

NamespaceGone(a) ==
  /\ kube[a].ns = "terminating"
  /\ kube' = [kube EXCEPT ![a] = NoCluster]
  /\ UNCHANGED <<row, opStatus, lastEvent, task, wakingNow>>

(* The API process dies: goroutines and wakingNow are gone, and nothing    *)
(* resumes the operations on restart.                                      *)
Crash ==
  /\ MayCrash
  /\ task' = [t \in Actors |->
                IF t \in Ops
                  THEN IF Live(t) THEN [IdleTask EXCEPT !.pc = "lost"] ELSE task[t]
                  ELSE IdleTask]
  /\ wakingNow' = [a \in Apps |-> FALSE]
  /\ UNCHANGED <<row, opStatus, lastEvent, kube>>

-----------------------------------------------------------------------------
(* Specification *)

Request(o) ==
  \/ \E a \in Apps, img \in Images : UpsertApp(o, a, img)
  \/ \E a \in Apps : HibernateApp(o, a) \/ WakeApp(o, a) \/ DeleteApp(o, a)
  \/ \E S \in SUBSET Apps : \E declared \in [S -> Images] : SyncRepo(o, declared)

OpStep(o) ==
  \/ CreateOperation(o) \/ StartOperation(o) \/ SucceedOperation(o)
  \/ FailOperation(o) \/ FailStatus(o)
  \/ DeployStep(o) \/ HibernateStep(o) \/ WakeStep(o) \/ DeleteStep(o)

WakerStep(w) ==
  WakeTouch(w) \/ WakeRefused(w) \/ LoadOrStore(w) \/ WakeStep(w) \/ WakeFinish(w)

IdleStep ==
  /\ IdleWatcher \in Watchers
  /\ WatcherStep(IdleWatcher) \/ IdleDesired \/ IdleQueues \/ IdleRow

BudgetStep == BudgetWatcher \in Watchers /\ WatcherStep(BudgetWatcher)

Cloud == \E a \in Apps : PodReady(a) \/ PodGone(a) \/ NamespaceGone(a)

Next ==
  \/ \E o \in Ops : Request(o) \/ OpStep(o)
  \/ \E w \in Wakers : WakerStep(w) \/ \E a \in Apps : InternalWake(w, a)
  \/ IdleStep
  \/ BudgetStep
  \/ \E a \in Apps : Idle(a)
  \/ Cloud
  \/ Crash

Spec == Init /\ [][Next]_vars

(* Goroutines that can run do run, the watchers' tickers keep firing and   *)
(* the cluster's controllers work; clients need not send anything, and     *)
(* the process need not crash.                                             *)
Fairness ==
  /\ \A o \in Ops : WF_vars(OpStep(o))
  /\ \A w \in Wakers : WF_vars(WakerStep(w))
  /\ WF_vars(IdleStep)
  /\ \A a \in Apps : WF_vars(PodReady(a)) /\ WF_vars(PodGone(a))
                       /\ WF_vars(NamespaceGone(a))

FairSpec == Spec /\ Fairness

-----------------------------------------------------------------------------
(* Properties *)

(* lifecycle.go, apps.go: the operation a client polls agrees with the     *)
(* goroutine that works on it.  A goroutine that ran to its end has left   *)
(* its operation succeeded or failed; a succeeded one has nothing left to  *)
(* do; one still at work shows as running; and no operation is reported    *)
(* terminal while its goroutine may still touch the cluster.               *)
OperationTellsTheTruth ==
  \A o \in Ops :
    /\ task[o].pc = "done" => opStatus[o] \in Terminal
    /\ opStatus[o] = "succeeded" => task[o].pc = "done"
    /\ opStatus[o] = "failed" => task[o].pc \in {"fail_status", "done", "lost"}
    /\ Live(o) /\ task[o].pc \notin {"create_op", "start_op", "fail_status"}
         => opStatus[o] = "running"

(* rest.md, Operation States: a poller may stop at a terminal status, so   *)
(* no later step of any goroutine may change it.                           *)
TerminalIsFinal ==
  [][\A o \in Ops : opStatus[o] \in Terminal => opStatus'[o] = opStatus[o]]_vars

(* Goroutine w of the internal wake handler is at work on a. *)
Waking(w, a) == task[w].pc \in WakePc \cup {"finish"} /\ App(w) = a

(* mux.go, wakingNow: a namespace is in the map exactly while one          *)
(* goroutine is waking it.  A leaked entry would make the app impossible   *)
(* to wake through the proxy for the rest of the process's life; a missing *)
(* one would start a second scale-up.                                      *)
WakingNowExact ==
  \A a \in Apps :
    /\ wakingNow[a] => \E w \in Wakers : Waking(w, a)
    /\ \A w \in Wakers : Waking(w, a) => wakingNow[a]
    /\ \A v, w \in Wakers : Waking(v, a) /\ Waking(w, a) => v = w

(* The order of the Kubernetes calls in Apply, Delete, hibernateApp and    *)
(* wakeApp: traffic is sent to the app's own Service only while the        *)
(* Deployment is scaled up, so a request either reaches a pod that is      *)
(* starting or the proxy that wakes it - whichever call fails and wherever *)
(* the process dies.  The order guarantees it for tasks that do not        *)
(* overlap.                                                                *)
RouteOnlyToScaledUp ==
  Exclusive => \A a \in Apps : kube[a].route = "app" => kube[a].scale = "one"

(* hibernateApp and wakeApp write the row after the cluster, so an app     *)
(* shown as hibernated is never routed around the wake proxy, and an app   *)
(* shown as running is never left scaled to zero, when no task is at work. *)
StatusMatchesCluster ==
  Exclusive /\ ~MayCrash =>
    \A a \in Apps : Quiet(a) /\ row[a].present =>
      /\ row[a].status = "hibernated" => kube[a].route # "app"
      /\ row[a].status = "running" => kube[a].scale # "zero"

(* deleteApp marks the app deleted only after the namespace's deletion was *)
(* accepted: a deleted app owns no namespace that will stay.               *)
DeletedMeansGone ==
  Exclusive => \A a \in Apps :
    row[a].present /\ row[a].status = "deleted" => kube[a].ns # "active"

(* A task that was accepted ends: every wait of the goroutines is bounded  *)
(* by a timeout.                                                           *)
OperationsEnd ==
  \A o \in Ops : (opStatus[o] = "pending") ~> (opStatus[o] \in Terminal)

(* A wake goroutine of the proxy ends and leaves the map, so a later       *)
(* request may try again.                                                  *)
WakesEnd == \A a \in Apps : wakingNow[a] ~> ~wakingNow[a]

(* An HTTP app that was active once and has been idle for idle_after is    *)
(* scaled down, or something else happens to it.                           *)
IdleAppHibernates ==
  \A a \in Apps :
    (IsHttp(a) /\ Listed(a) /\ row[a].last_active = "stale"
       /\ kube[a].scale = "one" /\ ~row[a].hibernated)
      ~> (kube[a].scale # "one" \/ row[a].hibernated
            \/ ~Listed(a) \/ row[a].last_active # "stale")

-----------------------------------------------------------------------------
(* What the documents say and the code does not do.  Each of these is      *)
(* violated, in a run of its own.                                          *)

(* hibernation.md, cost table: a hibernated app uses zero compute.  A      *)
(* deploy scales the workload up and leaves the hibernated column as it    *)
(* was, after which checkAll and forceHibernateAll pass over the app.      *)
HibernatedIsScaledDown ==
  \A a \in Apps : Quiet(a) /\ row[a].status = "running" /\ row[a].hibernated
                    => kube[a].scale # "one"

(* deployment.md, Health Checks and Rollback: a deploy succeeds when its   *)
(* pods are ready.  WatchDeploymentRollout counts the ready pod of the     *)
(* image that is being replaced.                                           *)
DeployedImageStarts ==
  \A o \in Ops : At(o, "deployed_status") /\ AppType[App(o)] # "cron"
                    => task[o].image \in Startable
=============================================================================
