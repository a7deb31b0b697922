-------------------------------- MODULE Tiers --------------------------------
(***************************************************************************)
(* Quota tiers: the operator's requests on the tiers table and on a repo's *)
(* tier (handler/tiers.go, operator.go), the quota check of a deploy, the  *)
(* sync and the deletion of apps as far as they count (apps.go, repos.go), *)
(* and the limits that end up in the apps' namespaces.                     *)
(*                                                                         *)
(* No handler uses a transaction: every SQL statement and every            *)
(* ApplyNamespaceTier is one step, and what a statement returned is kept   *)
(* in the request's record until the handler uses it.  cpu_milli and       *)
(* memory_mb, which always travel together, are one value; blob_gb,        *)
(* database_gb, queue_gb and hibernate_after are stored and passed on but  *)
(* decide nothing.                                                         *)
(***************************************************************************)
EXTENDS Naturals, FiniteSets

CONSTANTS
  TierNames,  \* names of tiers
  Builtin,    \* the rows that the migration inserts
  Fallback,   \* fallbackDefaultTier
  Repos, Apps,
  RepoOf,     \* the repo of each app
  MaxApps,    \* the values of max_apps that requests carry
  Limits,     \* the values of cpu_milli and memory_mb that requests carry
  Baseline,   \* smallBaseline, used where a manifest gives no limits
  Reqs,       \* requests at work at the same time
  MaxReqs,    \* bound: requests altogether
  MayFail,    \* TRUE: statements and Kubernetes calls may fail
  None

Tier == [max_apps : MaxApps, limits : Limits, is_default : BOOLEAN]

ASSUME TierConstants ==
  /\ MaxApps \subseteq Nat \ {0} /\ Baseline \in Limits
  /\ 0 \notin Limits
  /\ Builtin \in [TierNames -> Tier \cup {None}] /\ None \notin Tier
  /\ Fallback \in TierNames /\ None \notin TierNames
  /\ Builtin[Fallback] # None
  /\ \A t \in TierNames :
       Builtin[t] # None => (Builtin[t].is_default <=> t = Fallback)
  /\ RepoOf \in [Apps -> Repos] /\ IsFiniteSet(Apps) /\ None \notin Repos /\ None \notin Apps
  /\ None \notin Limits
  /\ MaxReqs \in Nat /\ MayFail \in BOOLEAN

VARIABLES
  tiers,     \* the tiers table; None where there is no row
  repoTier,  \* the tier column of repos; None where there is no row
  app,       \* the apps table
  ns,        \* the limits in the app's namespace; None without one
  req,       \* the requests and the goroutines they leave behind
  made,      \* requests so far
  calm       \* history: no two requests overlapped and nothing failed so far

vars == <<tiers, repoTier, app, ns, req, made, calm>>

-----------------------------------------------------------------------------
(* Types *)

PatchPc == {"patch_write", "prop_repos"}
PropPc == {"prop_repo", "prop_app"}
DeletePc == {"del_count", "del_exec"}
AssignPc == {"tier_read", "cur_read", "rt_count", "rt_set", "rt_list"}
UpsertPc == {"up_repo", "up_app", "up_tier", "up_count", "up_insert", "up_apply"}
SyncPc == {"sy_repo", "sy_apps", "sy_mark"}
Pc == {"idle", "def_write", "del_ns"} \cup PatchPc \cup PropPc \cup DeletePc
        \cup AssignPc \cup UpsertPc \cup SyncPc

(* row is the Tier that the handler read, or the one that it will write. *)
Request == [pc : Pc, tier : TierNames \cup {None}, old : TierNames \cup {None},
            repo : Repos \cup {None}, app : Apps \cup {None},
            row : Tier \cup {None}, repos : SUBSET Repos,
            desired : SUBSET Apps, todo : SUBSET Apps]

Idle == [pc |-> "idle", tier |-> None, old |-> None, repo |-> None,
         app |-> None, row |-> None, repos |-> {}, desired |-> {}, todo |-> {}]

(* An app marked deletion_pending keeps its row. *)
TypeOK ==
  /\ tiers \in [TierNames -> Tier \cup {None}]
  /\ repoTier \in [Repos -> TierNames \cup {None}]
  /\ app \in [Apps -> {"absent", "active", "pending"}]
  /\ ns \in [Apps -> Limits \cup {None}]
  /\ req \in [Reqs -> Request]
  /\ made \in 0 .. MaxReqs
  /\ calm \in BOOLEAN

Init ==
  /\ tiers = Builtin
  /\ repoTier = [r \in Repos |-> None]
  /\ app = [a \in Apps |-> "absent"]
  /\ ns = [a \in Apps |-> None]
  /\ req = [q \in Reqs |-> Idle]
  /\ made = 0
  /\ calm = TRUE

-----------------------------------------------------------------------------
(* Helpers *)

Live(q) == req[q].pc # "idle"

At(q, pc) == req[q].pc = pc

(* A request arrives; begin is its record after its first statement. *)
Begin(q, begin) ==
  /\ ~Live(q)
  /\ made < MaxReqs
  /\ made' = made + 1
  /\ calm' = (calm /\ \A p \in Reqs : ~Live(p))
  /\ req' = [req EXCEPT ![q] = begin]

Move(q, r) == req' = [req EXCEPT ![q] = r] /\ UNCHANGED made

Goto(q, pc) == Move(q, [req[q] EXCEPT !.pc = pc])

Return(q) == Move(q, Idle)

Works == UNCHANGED calm

Fails == MayFail /\ calm' = FALSE

(* ListApps and CountAppsByRepo pass over apps marked for deletion. *)
ActiveApps(r) == {a \in Apps : RepoOf[a] = r /\ app[a] = "active"}

CountAppsByRepo(r) == Cardinality(ActiveApps(r))

ReposOn(t) == {r \in Repos : repoTier[r] = t}

Exists(t) == tiers[t] # None

Default(t) == Exists(t) /\ tiers[t].is_default

-----------------------------------------------------------------------------
(* Operator requests on a tier *)

(* CreateTier: one INSERT; the name of an existing tier is a conflict. *)
CreateTier(q, t, m, l) ==
  /\ ~Exists(t)
  /\ tiers' = [tiers EXCEPT ![t] = [max_apps |-> m, limits |-> l, is_default |-> FALSE]]
  /\ Begin(q, Idle)
  /\ UNCHANGED <<repoTier, app, ns>>

(* Seeded fault: a field that the request does not give is written as 0. *)
PatchedBlank(old, m, l) == [old EXCEPT !.max_apps = m, !.limits = l]

Patched(old, m, l) ==
  [old EXCEPT !.max_apps = IF m = 0 THEN @ ELSE m,
              !.limits = IF l = 0 THEN @ ELSE l]

(* PatchTier: GetTier, and the patch applied in memory; 0 is "not given". *)
UpdateTier(q, t, m, l) ==
  /\ Exists(t)
  /\ Begin(q, [Idle EXCEPT !.pc = "patch_write", !.tier = t,
                           !.row = Patched(tiers[t], m, l)])
  /\ UNCHANGED <<tiers, repoTier, app, ns>>

(* Seeded fault: the whole row is written back. *)
PatchTierWriteAll(q) ==
  /\ At(q, "patch_write")
  /\ LET t == req[q].tier
     IN  IF Exists(t)
           THEN tiers' = [tiers EXCEPT ![t] = req[q].row] /\ Goto(q, "prop_repos")
           ELSE Return(q) /\ UNCHANGED tiers
  /\ Works
  /\ UNCHANGED <<repoTier, app, ns>>

(* The UPDATE leaves is_default alone and finds no row if the tier is gone. *)
PatchTierWrite(q) ==
  /\ At(q, "patch_write")
  /\ LET t == req[q].tier
     IN  IF Exists(t)
           THEN /\ tiers' = [tiers EXCEPT ![t].max_apps = req[q].row.max_apps,
                                          ![t].limits = req[q].row.limits]
                /\ Goto(q, "prop_repos")
           ELSE Return(q) /\ UNCHANGED tiers
  /\ Works
  /\ UNCHANGED <<repoTier, app, ns>>

(* propagateTierToNamespaces, the goroutine that UpdateTier leaves behind: *)
(* ListReposByTier, then for each repo ListApps, then its namespaces.      *)
PropagateRepos(q) ==
  /\ At(q, "prop_repos")
  /\ \/ /\ Move(q, [req[q] EXCEPT !.pc = "prop_repo", !.repos = ReposOn(req[q].tier)])
        /\ Works
     \/ Return(q) /\ Fails
  /\ UNCHANGED <<tiers, repoTier, app, ns>>

PropagateRepo(q) ==
  /\ At(q, "prop_repo")
  /\ \/ /\ req[q].repos = {}
        /\ Return(q) /\ Works
     \/ \E r \in req[q].repos :
          \/ /\ Move(q, [req[q] EXCEPT !.pc = "prop_app", !.repos = @ \ {r},
                                       !.todo = ActiveApps(r)])
             /\ Works
          \/ Move(q, [req[q] EXCEPT !.repos = @ \ {r}]) /\ Fails
  /\ UNCHANGED <<tiers, repoTier, app, ns>>

(* Seeded fault: only the first namespace of a repo is updated. *)
ApplyFirstOnly(q) ==
  /\ At(q, "prop_app")
  /\ IF req[q].todo = {} THEN Goto(q, "prop_repo") /\ UNCHANGED ns
     ELSE \E a \in req[q].todo :
            /\ Move(q, [req[q] EXCEPT !.todo = {}])
            /\ ns' = [ns EXCEPT ![a] = IF @ = None THEN None ELSE req[q].row.limits]
  /\ Works
  /\ UNCHANGED <<tiers, repoTier, app>>

(* ApplyNamespaceTier with the limits that the request carries; an error - *)
(* there is no such namespace, say - is logged.                            *)
ApplyNamespaceTier(q) ==
  /\ At(q, "prop_app")
  /\ \/ /\ req[q].todo = {}
        /\ Goto(q, "prop_repo") /\ Works /\ UNCHANGED ns
     \/ \E a \in req[q].todo :
          /\ Move(q, [req[q] EXCEPT !.todo = @ \ {a}])
          /\ \/ /\ ns' = [ns EXCEPT ![a] = IF @ = None THEN None ELSE req[q].row.limits]
                /\ Works
             \/ Fails /\ UNCHANGED ns
  /\ UNCHANGED <<tiers, repoTier, app>>

(* DeleteTier: GetTier, which also tells whether it is the default ... *)
DeleteTier(q, t) ==
  /\ Exists(t) /\ ~tiers[t].is_default
  /\ Begin(q, [Idle EXCEPT !.pc = "del_count", !.tier = t])
  /\ UNCHANGED <<tiers, repoTier, app, ns>>

(* Seeded fault: the count is not looked at. *)
CountReposIgnored(q) ==
  /\ At(q, "del_count")
  /\ Goto(q, "del_exec")
  /\ Works
  /\ UNCHANGED <<tiers, repoTier, app, ns>>

(* ... CountReposByTier ... *)
CountReposByTier(q) ==
  /\ At(q, "del_count")
  /\ IF ReposOn(req[q].tier) = {} THEN Goto(q, "del_exec") ELSE Return(q)
  /\ Works
  /\ UNCHANGED <<tiers, repoTier, app, ns>>

(* ... and the DELETE, by name alone. *)
DeleteTierRow(q) ==
  /\ At(q, "del_exec")
  /\ tiers' = [tiers EXCEPT ![req[q].tier] = None]
  /\ Return(q) /\ Works
  /\ UNCHANGED <<repoTier, app, ns>>

(* SetDefaultTier: GetTier, and one UPDATE of every row. *)
SetDefaultTier(q, t) ==
  /\ Exists(t)
  /\ Begin(q, [Idle EXCEPT !.pc = "def_write", !.tier = t])
  /\ UNCHANGED <<tiers, repoTier, app, ns>>

SetDefaultTierRows(q) ==
  /\ At(q, "def_write")
  /\ tiers' = [t \in TierNames |->
                 IF Exists(t) THEN [tiers[t] EXCEPT !.is_default = (t = req[q].tier)]
                              ELSE None]
  /\ Return(q) /\ Works
  /\ UNCHANGED <<repoTier, app, ns>>

-----------------------------------------------------------------------------
(* UpdateRepoTier *)

(* GetRepo *)
UpdateRepoTier(q, r, t) ==
  /\ repoTier[r] # None
  /\ Begin(q, [Idle EXCEPT !.pc = "tier_read", !.repo = r, !.tier = t,
                           !.old = repoTier[r]])
  /\ UNCHANGED <<tiers, repoTier, app, ns>>

(* GetTier of the new tier *)
GetNewTier(q) ==
  /\ At(q, "tier_read")
  /\ IF Exists(req[q].tier)
       THEN Move(q, [req[q] EXCEPT !.pc = "cur_read", !.row = tiers[req[q].tier]])
       ELSE Return(q)
  /\ Works
  /\ UNCHANGED <<tiers, repoTier, app, ns>>

(* currentMaxAppsFor: a tier that cannot be read allows any number, so the *)
(* move counts as a demotion.                                              *)
CurrentMaxApps(q) ==
  /\ At(q, "cur_read")
  /\ LET old == req[q].old
     IN  \/ /\ Works
            /\ Goto(q, IF Exists(old) /\ req[q].row.max_apps >= tiers[old].max_apps
                         THEN "rt_set" ELSE "rt_count")
         \/ Fails /\ Goto(q, "rt_count")
  /\ UNCHANGED <<tiers, repoTier, app, ns>>

(* The demotion guard; a count that fails lets the request pass. *)
DemotionGuard(q) ==
  /\ At(q, "rt_count")
  /\ \/ /\ Works
        /\ IF CountAppsByRepo(req[q].repo) > req[q].row.max_apps
             THEN Return(q) ELSE Goto(q, "rt_set")
     \/ Fails /\ Goto(q, "rt_set")
  /\ UNCHANGED <<tiers, repoTier, app, ns>>

SetRepoTier(q) ==
  /\ At(q, "rt_set")
  /\ repoTier' = [repoTier EXCEPT ![req[q].repo] = req[q].tier]
  /\ Goto(q, "rt_list") /\ Works
  /\ UNCHANGED <<tiers, app, ns>>

(* ListApps; the limits are those of the tier as it was read before. *)
ListRepoApps(q) ==
  /\ At(q, "rt_list")
  /\ \/ Move(q, [req[q] EXCEPT !.pc = "prop_app", !.todo = ActiveApps(req[q].repo)]) /\ Works
     \/ Goto(q, "prop_app") /\ Fails
  /\ UNCHANGED <<tiers, repoTier, app, ns>>

-----------------------------------------------------------------------------
(* UpsertApp, SyncRepo and DeleteApp *)

(* The first statement of UpsertApp and of SyncRepo, which arrive here. *)
ReadDefault(q, begin) ==
  \E name \in TierNames :
    \/ Default(name) /\ Begin(q, [begin EXCEPT !.tier = name])
    \/ /\ name = Fallback
       /\ \A t \in TierNames : ~Default(t)
       /\ Begin(q, [begin EXCEPT !.tier = name])

UpsertApp(q, a) ==
  /\ ReadDefault(q, [Idle EXCEPT !.pc = "up_repo", !.repo = RepoOf[a], !.app = a])
  /\ UNCHANGED <<tiers, repoTier, app, ns>>

SyncRepo(q, r, desired) ==
  /\ ReadDefault(q, [Idle EXCEPT !.pc = "sy_repo", !.repo = r,
                                 !.desired = desired, !.todo = desired])
  /\ UNCHANGED <<tiers, repoTier, app, ns>>

(* GetDefaultTierName answers Fallback when its query failed. *)
DefaultUnread(q) ==
  /\ req[q].pc \in {"up_repo", "sy_repo"}
  /\ req[q].tier # Fallback
  /\ Move(q, [req[q] EXCEPT !.tier = Fallback]) /\ Fails
  /\ UNCHANGED <<tiers, repoTier, app, ns>>

(* ON CONFLICT(slug) the row is left as it is. *)
TierAfterUpsert(q) ==
  IF repoTier[req[q].repo] = None THEN req[q].tier ELSE repoTier[req[q].repo]

GetOrCreateRepo(q) ==
  /\ req[q].pc \in {"up_repo", "sy_repo"}
  /\ LET t == TierAfterUpsert(q)
     IN  /\ repoTier' = [repoTier EXCEPT ![req[q].repo] = t]
         /\ Move(q, [req[q] EXCEPT !.tier = t,
                       !.pc = IF @ = "up_repo" THEN "up_app" ELSE "sy_apps"])
  /\ Works
  /\ UNCHANGED <<tiers, app, ns>>

(* GetApp: the quota is checked only if there is no row at all. *)
GetAppRow(q) ==
  /\ At(q, "up_app")
  /\ \/ Goto(q, IF app[req[q].app] = "absent" THEN "up_tier" ELSE "up_insert") /\ Works
     \/ Goto(q, "up_insert") /\ Fails
  /\ UNCHANGED <<tiers, repoTier, app, ns>>

(* GetTier of the repo's tier: without one there is no quota. *)
GetQuotaTier(q) ==
  /\ At(q, "up_tier")
  /\ \/ /\ Works
        /\ IF Exists(req[q].tier)
             THEN Move(q, [req[q] EXCEPT !.pc = "up_count", !.row = tiers[req[q].tier]])
             ELSE Goto(q, "up_insert")
     \/ Goto(q, "up_insert") /\ Fails
  /\ UNCHANGED <<tiers, repoTier, app, ns>>

(* Seeded fault: one app too many is let through. *)
AtQuotaOffByOne(count, row) == count > row.max_apps

AtQuota(count, row) == count >= row.max_apps

CheckQuota(q) ==
  /\ At(q, "up_count")
  /\ \/ /\ Works
        /\ IF AtQuota(CountAppsByRepo(req[q].repo), req[q].row)
             THEN Return(q) ELSE Goto(q, "up_insert")
     \/ Goto(q, "up_insert") /\ Fails
  /\ UNCHANGED <<tiers, repoTier, app, ns>>

(* The upsert also takes back a mark for deletion. *)
UpsertAppRow(q) ==
  /\ At(q, "up_insert")
  /\ app' = [app EXCEPT ![req[q].app] = "active"]
  /\ Goto(q, "up_apply") /\ Works
  /\ UNCHANGED <<tiers, repoTier, ns>>

(* runDeploy: Apply sets the limits of the manifest, and UpsertApp puts    *)
(* none into it.                                                           *)
ApplyManifest(q) ==
  /\ At(q, "up_apply")
  /\ \/ ns' = [ns EXCEPT ![req[q].app] = Baseline] /\ Works
     \/ Fails /\ UNCHANGED ns
  /\ Return(q)
  /\ UNCHANGED <<tiers, repoTier, app>>

(* SyncRepo: every desired app is upserted; then ListApps, and the others  *)
(* of the repo are marked for deletion one by one.                         *)
SyncUpsert(q) ==
  /\ At(q, "sy_apps")
  /\ \/ \E a \in req[q].todo :
          /\ app' = [app EXCEPT ![a] = "active"]
          /\ Move(q, [req[q] EXCEPT !.todo = @ \ {a}])
     \/ /\ req[q].todo = {}
        /\ Move(q, [req[q] EXCEPT !.pc = "sy_mark",
                                  !.todo = ActiveApps(req[q].repo) \ req[q].desired])
        /\ UNCHANGED app
  /\ Works
  /\ UNCHANGED <<tiers, repoTier, ns>>

SyncMark(q) ==
  /\ At(q, "sy_mark")
  /\ \/ \E a \in req[q].todo :
          /\ app' = [app EXCEPT ![a] = "pending"]
          /\ Move(q, [req[q] EXCEPT !.todo = @ \ {a}])
     \/ /\ req[q].todo = {}
        /\ Return(q) /\ UNCHANGED app
  /\ Works
  /\ UNCHANGED <<tiers, repoTier, ns>>

(* DeleteApp: MarkAppDeletionPending, then the goroutine. *)
DeleteApp(q, a) ==
  /\ app[a] # "absent"
  /\ app' = [app EXCEPT ![a] = "pending"]
  /\ Begin(q, [Idle EXCEPT !.pc = "del_ns", !.app = a])
  /\ UNCHANGED <<tiers, repoTier, ns>>

DeleteNamespace(q) ==
  /\ At(q, "del_ns")
  /\ \/ ns' = [ns EXCEPT ![req[q].app] = None] /\ Works
     \/ Fails /\ UNCHANGED ns
  /\ Return(q)
  /\ UNCHANGED <<tiers, repoTier, app>>

(* Any other statement that fails ends its request with an error. *)
RequestFails(q) ==
  /\ req[q].pc \in {"patch_write", "del_count", "del_exec", "def_write",
                    "tier_read", "rt_set", "up_repo", "sy_repo", "up_insert",
                    "sy_apps", "sy_mark"}
  /\ Return(q) /\ Fails
  /\ UNCHANGED <<tiers, repoTier, app, ns>>

-----------------------------------------------------------------------------
(* Specification *)

Arrive(q) ==
  \/ \E t \in TierNames, m \in MaxApps, l \in Limits : CreateTier(q, t, m, l)
  \/ \E t \in TierNames, m \in MaxApps \cup {0}, l \in Limits \cup {0} : UpdateTier(q, t, m, l)
  \/ \E t \in TierNames : DeleteTier(q, t) \/ SetDefaultTier(q, t)
  \/ \E r \in Repos, t \in TierNames : UpdateRepoTier(q, r, t)
  \/ \E a \in Apps : UpsertApp(q, a) \/ DeleteApp(q, a)
  \/ \E r \in Repos : \E desired \in SUBSET {a \in Apps : RepoOf[a] = r} :
       SyncRepo(q, r, desired)

TierStep(q) ==
  \/ PatchTierWrite(q) \/ PropagateRepos(q) \/ PropagateRepo(q)
  \/ ApplyNamespaceTier(q) \/ CountReposByTier(q) \/ DeleteTierRow(q)
  \/ SetDefaultTierRows(q)

AssignStep(q) ==
  \/ GetNewTier(q) \/ CurrentMaxApps(q) \/ DemotionGuard(q) \/ SetRepoTier(q)
  \/ ListRepoApps(q)

AppStep(q) ==
  \/ DefaultUnread(q) \/ GetOrCreateRepo(q) \/ GetAppRow(q) \/ GetQuotaTier(q)
  \/ CheckQuota(q) \/ UpsertAppRow(q) \/ ApplyManifest(q) \/ SyncUpsert(q)
  \/ SyncMark(q) \/ DeleteNamespace(q)

Next ==
  \E q \in Reqs :
    Arrive(q) \/ TierStep(q) \/ AssignStep(q) \/ AppStep(q) \/ RequestFails(q)

Spec == Init /\ [][Next]_vars

-----------------------------------------------------------------------------
(* Properties *)

(* tiers.sql, SetDefaultTier: whatever requests overlap and whatever       *)
(* fails, no two tiers are the default, so GetDefaultTier's LIMIT 1 never  *)
(* chooses.                                                                *)
OneDefault == \A t, u \in TierNames : Default(t) /\ Default(u) => t = u

(* cost-controls.md, Deletion Constraints: the tier of every repo exists,  *)
(* and so does a default.  No foreign key says so: it rests on the checks  *)
(* of DeleteTier, SetDefaultTier and UpdateRepoTier, and they are enough   *)
(* only as long as no two requests overlap and every query answers.        *)
TiersInUseExist ==
  calm => /\ \E t \in TierNames : Default(t)
          /\ \A r \in Repos : repoTier[r] # None => Exists(repoTier[r])

(* apps.go, UpsertApp: the deploy of a new app leaves its repo within      *)
(* max_apps of its tier - the tier that the repo has when the row is       *)
(* written, and not one that was read for it before.                       *)
NewAppWithinQuota ==
  [][\A q \in Reqs :
       /\ req[q].pc = "up_insert" /\ req'[q].pc = "up_apply" /\ calm'
       /\ app[req[q].app] = "absent"
       => CountAppsByRepo(req[q].repo)'
            <= tiers[repoTier[req[q].repo]].max_apps]_vars

(* propagateTierToNamespaces and UpdateRepoTier: when the request is over, *)
(* every namespace of an active app of the repos concerned has the limits  *)
(* that the tier has now.                                                  *)
EditsReachNamespaces ==
  [][\A q \in Reqs :
       /\ req[q].pc = "prop_repo" /\ req'[q].pc = "idle" /\ calm'
       => \A a \in Apps :
            /\ app[a] = "active" /\ ns[a] # None
            /\ repoTier[RepoOf[a]] = req[q].tier
            /\ req[q].repo \in {None, RepoOf[a]}
            => ns[a] = tiers[req[q].tier].limits]_vars

-----------------------------------------------------------------------------
(* What a document says and the code does not do. *)

(* control-plane.md, Manifest Apply: a deploy applies the limits of the    *)
(* repo's current tier.  UpsertApp gives the manifest no limits, so every  *)
(* deploy puts the small baseline into the namespace, whatever the tier.   *)
NamespaceHasTierLimits ==
  calm /\ (\A q \in Reqs : ~Live(q)) =>
    \A a \in Apps : app[a] = "active" /\ ns[a] # None =>
      ns[a] = tiers[repoTier[RepoOf[a]]].limits
=============================================================================
