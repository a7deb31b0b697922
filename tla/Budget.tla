------------------------------- MODULE Budget -------------------------------
(***************************************************************************)
(* Budget enforcement: the budget watcher (watchers/budget.go), the gate   *)
(* that WakeApp and the internal wake handler put before a wake, the       *)
(* operator's PATCH of the platform configuration and the exemptions.      *)
(*                                                                         *)
(* The parties share SQLite rows and nothing else; every statement is one  *)
(* step.  platform_config is a single row that the watcher and PATCH both  *)
(* read, change in memory and write back whole.                            *)
(*                                                                         *)
(* Time is the billing period.  A wake and a hibernation are taken here as *)
(* what they do to the hibernated column; module AppLifecycle has their    *)
(* steps.  A deploy has no budget gate and leaves that column alone.       *)
(***************************************************************************)
EXTENDS Naturals, FiniteSets

CONSTANTS
  Apps, Repos,
  RepoOf,      \* the repo of each app
  Ceilings,    \* budget_ceiling_monthly: what PATCH may set
  SoftPcts,    \* soft_limit_pct, in percent
  HardPcts,    \* hard_limit_pct, in percent
  MaxSpend,    \* bound: the highest estimate of a period
  MaxPeriod,   \* bound: the billing periods
  MaxPatches,  \* bound: PATCH requests
  MaxFaults,   \* bound: failed statements and calls, and crashes
  None

ASSUME BudgetConstants ==
  /\ RepoOf \in [Apps -> Repos] /\ Apps \cap Repos = {}
  /\ Ceilings \subseteq Nat \ {0} /\ Ceilings # {}
  /\ SoftPcts \subseteq Nat \ {0} /\ SoftPcts # {}
  /\ HardPcts \subseteq Nat \ {0} /\ HardPcts # {}
  /\ MaxSpend \in Nat /\ MaxPeriod \in Nat \ {0}
  /\ MaxPatches \in Nat /\ MaxFaults \in Nat
  /\ None \notin Apps

VARIABLES
  period,      \* the calendar month
  spend,       \* what a complete estimate of each period amounts to
  config,      \* the platform_config row
  exemptions,  \* the rows of exemptions
  hibernated,  \* the apps whose hibernated column is 1
  tick,        \* the watcher's goroutine
  patch,       \* the PATCH request under way
  wake,        \* the wake of each app under way (bound: one each)
  patches,     \* PATCH requests so far
  faults,      \* faults so far
  permanent,   \* history: the apps and repos the operator has exempted
  override     \* history: the period of an app's last operator override

vars == <<period, spend, config, exemptions, hibernated, tick, patch, wake,
          patches, faults, permanent, override>>

appVars == <<hibernated, wake>>
exemptVars == <<exemptions, permanent, override>>
worldVars == <<period, spend>>

-----------------------------------------------------------------------------
(* Types *)

Periods == 1 .. MaxPeriod

(* billing_period is '' (0) until the first tick. *)
PlatformConfig == [ceiling : Ceilings, softPct : SoftPcts, hardPct : HardPcts,
                   soft : BOOLEAN, hard : BOOLEAN, billing : {0} \cup Periods]

(* expires_at is NULL (0) or the first instant of a period. *)
Exemption == [kind : {"app", "repo"}, repo : Repos, app : Apps \cup {None},
              type : {"explicit", "period"}, expires : 0 .. MaxPeriod + 1]

TickPc == {"idle", "expire", "roll", "cost", "list", "force", "scale", "persist"}

Callers == {"proxy", "developer", "operator"}

TypeOK ==
  /\ period \in Periods
  /\ spend \in [Periods -> 0 .. MaxSpend]
  /\ config \in PlatformConfig
  /\ exemptions \subseteq Exemption
  /\ hibernated \subseteq Apps
  /\ tick \in [pc : TickPc, now : Periods, cfg : PlatformConfig,
               todo : SUBSET Apps, app : Apps \cup {None}]
  /\ patch \in PlatformConfig \cup {None}
  /\ wake \in [Apps -> {"none", "waking"} \cup Callers]
  /\ patches \in 0 .. MaxPatches /\ faults \in 0 .. MaxFaults
  /\ permanent \subseteq Apps \cup Repos
  /\ override \in [Apps -> {0} \cup Periods]

Init ==
  /\ period = 1
  /\ spend = [p \in Periods |-> 0]
  /\ config \in {c \in PlatformConfig : ~c.soft /\ ~c.hard /\ c.billing = 0}
  /\ exemptions = {}
  /\ hibernated = {}
  /\ tick = [pc |-> "idle", now |-> 1, cfg |-> config, todo |-> {}, app |-> None]
  /\ patch = None
  /\ wake = [a \in Apps |-> "none"]
  /\ patches = 0 /\ faults = 0
  /\ permanent = {}
  /\ override = [a \in Apps |-> 0]

(* A statement or a call fails. *)
Fault == faults < MaxFaults /\ faults' = faults + 1
Works == UNCHANGED faults

-----------------------------------------------------------------------------
(* Exemptions *)

Key(e) == <<e.kind, e.repo, e.app, e.type>>

(* ON CONFLICT of the key DO UPDATE *)
UpsertExemption(e) ==
  exemptions' = {x \in exemptions : Key(x) # Key(e)} \cup {e}

AppExemption(a, type, expires) ==
  [kind |-> "app", repo |-> RepoOf[a], app |-> a, type |-> type, expires |-> expires]

RepoExemption(r) ==
  [kind |-> "repo", repo |-> r, app |-> None, type |-> "explicit", expires |-> 0]

(* expires_at IS NULL OR expires_at > now *)
IsAppExempt(a) ==
  \E e \in exemptions :
    /\ e.repo = RepoOf[a]
    /\ e.kind = "repo" \/ (e.kind = "app" /\ e.app = a)
    /\ e.expires = 0 \/ e.expires > period

AddAppExemption(a) ==
  /\ UpsertExemption(AppExemption(a, "explicit", 0))
  /\ permanent' = permanent \cup {a}
  /\ UNCHANGED <<worldVars, config, appVars, tick, patch, patches, faults, override>>

(* Only the explicit row is deleted. *)
RemoveAppExemption(a) ==
  /\ exemptions' = {e \in exemptions : ~(e.kind = "app" /\ e.app = a /\ e.type = "explicit")}
  /\ permanent' = permanent \ {a}
  /\ UNCHANGED <<worldVars, config, appVars, tick, patch, patches, faults, override>>

AddRepoExemption(r) ==
  /\ UpsertExemption(RepoExemption(r))
  /\ permanent' = permanent \cup {r}
  /\ UNCHANGED <<worldVars, config, appVars, tick, patch, patches, faults, override>>

RemoveRepoExemption(r) ==
  /\ exemptions' = {e \in exemptions : ~(e.kind = "repo" /\ e.repo = r /\ e.type = "explicit")}
  /\ permanent' = permanent \ {r}
  /\ UNCHANGED <<worldVars, config, appVars, tick, patch, patches, faults, override>>

-----------------------------------------------------------------------------
(* PATCH /api/operator/config: read the row, then write it all *)

(* Seeded fault: an absent field overwrites the column. *)
GivenAlways(value, old) == value

Given(value, old) == IF value = 0 THEN old ELSE value

(* A field that is absent is 0 and is left as it was. *)
PatchRead(ceiling, softPct, hardPct) ==
  /\ patch = None /\ patches < MaxPatches
  /\ patch' = [config EXCEPT !.ceiling = Given(ceiling, @),
                             !.softPct = Given(softPct, @),
                             !.hardPct = Given(hardPct, @)]
  /\ patches' = patches + 1
  /\ UNCHANGED <<worldVars, config, exemptVars, appVars, tick, faults>>

PatchWrite ==
  /\ patch # None
  /\ \/ config' = patch /\ Works
     \/ Fault /\ UNCHANGED config
  /\ patch' = None
  /\ UNCHANGED <<worldVars, exemptVars, appVars, tick, patches>>

-----------------------------------------------------------------------------
(* The watcher *)

TickReturns == tick' = [tick EXCEPT !.pc = "idle", !.todo = {}, !.app = None]

(* GetPlatformConfig, BillingPeriodKey(now) *)
TickStart ==
  /\ tick.pc = "idle"
  /\ tick' = [tick EXCEPT !.now = period, !.cfg = config,
                          !.pc = CASE config.billing = period -> "cost"
                                   [] config.billing = 0 -> "roll"
                                   [] OTHER -> "expire"]
  /\ UNCHANGED <<worldVars, config, exemptVars, appVars, patch, patches, faults>>

(* Seeded fault: every exemption goes at the end of the period. *)
ExpireEveryExemption ==
  /\ tick.pc = "expire"
  /\ exemptions' = {e \in exemptions : e.expires > tick.now}
  /\ tick' = [tick EXCEPT !.pc = "roll", !.cfg.soft = FALSE, !.cfg.hard = FALSE]
  /\ UNCHANGED <<worldVars, config, appVars, patch, patches, faults, permanent, override>>

(* The period is over: delete its exemptions (an error is logged) and      *)
(* clear both limits in memory.                                            *)
ExpirePeriodExemptions ==
  /\ tick.pc = "expire"
  /\ \/ /\ exemptions' = {e \in exemptions :
                            ~(e.type = "period" /\ e.expires <= tick.now)}
        /\ Works
     \/ Fault /\ UNCHANGED exemptions
  /\ tick' = [tick EXCEPT !.pc = "roll", !.cfg.soft = FALSE, !.cfg.hard = FALSE]
  /\ UNCHANGED <<worldVars, config, appVars, patch, patches, permanent, override>>

(* UpdatePlatformConfig with the new period: on an error the tick is over. *)
UpdateBillingPeriod ==
  /\ tick.pc = "roll"
  /\ LET cfg == [tick.cfg EXCEPT !.billing = tick.now]
     IN  \/ /\ config' = cfg
            /\ tick' = [tick EXCEPT !.pc = "cost", !.cfg = cfg]
            /\ Works
         \/ Fault /\ TickReturns /\ UNCHANGED config
  /\ UNCHANGED <<worldVars, exemptVars, appVars, patch, patches>>

Reaches(total, cfg, pct) == total * 100 >= cfg.ceiling * pct

(* The switch on the two thresholds: the hard limit implies the soft one,  *)
(* whatever the percentages are.                                           *)
LimitsFor(total, cfg) ==
  [soft |-> Reaches(total, cfg, cfg.softPct) \/ Reaches(total, cfg, cfg.hardPct),
   hard |-> Reaches(total, cfg, cfg.hardPct)]

LimitsOf(cfg) == [soft |-> cfg.soft, hard |-> cfg.hard]

(* Seeded fault: only a change of the hard limit is stored. *)
EvaluateHardOnly(total) ==
  LET limits == LimitsFor(total, tick.cfg)
      cfg == [tick.cfg EXCEPT !.soft = limits.soft, !.hard = limits.hard]
  IN  IF limits.hard = tick.cfg.hard THEN TickReturns
      ELSE tick' = [tick EXCEPT !.cfg = cfg,
                                !.pc = IF limits.hard THEN "list" ELSE "persist"]

(* What a tick does with the estimate: the hard limit newly hit, a change  *)
(* to store, or nothing to do.                                             *)
Evaluate(total) ==
  LET limits == LimitsFor(total, tick.cfg)
      cfg == [tick.cfg EXCEPT !.soft = limits.soft, !.hard = limits.hard]
  IN  IF limits = LimitsOf(tick.cfg) THEN TickReturns
      ELSE tick' = [tick EXCEPT !.cfg = cfg,
                                !.pc = IF limits.hard /\ ~tick.cfg.hard
                                         THEN "list" ELSE "persist"]

(* totalCost of the period in which the tick began.  Whatever it cannot    *)
(* read - prices, repos, a tier, an app's events - counts as nothing.      *)
TotalCost ==
  /\ tick.pc = "cost"
  /\ \/ Evaluate(spend[tick.now]) /\ Works
     \/ \E total \in 0 .. spend[tick.now] : Evaluate(total) /\ Fault
  /\ UNCHANGED <<worldVars, config, exemptVars, appVars, patch, patches>>

(* forceHibernateAll: the list, as it is now *)
ListAllApps ==
  /\ tick.pc = "list"
  /\ \/ tick' = [tick EXCEPT !.pc = "force", !.todo = Apps \ hibernated] /\ Works
     \/ tick' = [tick EXCEPT !.pc = "persist"] /\ Fault
  /\ UNCHANGED <<worldVars, config, exemptVars, appVars, patch, patches>>

(* The next app of the list: an exempt one is left alone, and so is one    *)
(* whose exemption cannot be read.                                         *)
ForceNext(a) ==
  /\ tick.pc = "force" /\ a \in tick.todo
  /\ \/ /\ ~IsAppExempt(a) /\ Works
        /\ tick' = [tick EXCEPT !.todo = @ \ {a}, !.app = a, !.pc = "scale"]
     \/ /\ (IsAppExempt(a) /\ Works) \/ Fault
        /\ tick' = [tick EXCEPT !.todo = @ \ {a}]
  /\ UNCHANGED <<worldVars, config, exemptVars, appVars, patch, patches>>

(* Route, scale to zero, SetAppHibernated.  On an error the next app is    *)
(* taken; nobody comes back to this one.                                   *)
ForceScale ==
  /\ tick.pc = "scale"
  /\ \/ hibernated' = hibernated \cup {tick.app} /\ Works
     \/ Fault /\ UNCHANGED hibernated
  /\ tick' = [tick EXCEPT !.pc = "force", !.app = None]
  /\ UNCHANGED <<worldVars, config, exemptVars, wake, patch, patches>>

ForceDone ==
  /\ tick.pc = "force" /\ tick.todo = {}
  /\ tick' = [tick EXCEPT !.pc = "persist"]
  /\ UNCHANGED <<worldVars, config, exemptVars, appVars, patch, patches, faults>>

(* UpdatePlatformConfig with the new limits: the whole row, as it was when *)
(* the tick read it.                                                       *)
PersistLimits ==
  /\ tick.pc = "persist"
  /\ \/ config' = tick.cfg /\ Works
     \/ Fault /\ UNCHANGED config
  /\ TickReturns
  /\ UNCHANGED <<worldVars, exemptVars, appVars, patch, patches>>

WatcherStep ==
  \/ TickStart \/ ExpirePeriodExemptions \/ UpdateBillingPeriod \/ TotalCost
  \/ ListAllApps \/ (\E a \in Apps : ForceNext(a)) \/ ForceScale \/ ForceDone
  \/ PersistLimits

-----------------------------------------------------------------------------
(* Wakes *)

LimitActive == config.soft \/ config.hard

SetWake(a, pc) == wake' = [wake EXCEPT ![a] = pc]

(* WakeApp, or a request to the wake proxy, reads the limits.  The proxy's *)
(* handler lets a request pass when it cannot read them.                   *)
WakeGate(a, caller) ==
  /\ wake[a] = "none"
  /\ \/ SetWake(a, IF LimitActive THEN caller ELSE "waking") /\ Works
     \/ caller = "proxy" /\ SetWake(a, "waking") /\ Fault
  /\ UNCHANGED <<worldVars, config, exemptVars, hibernated, tick, patch, patches>>

(* A limit is active: an exempt app is woken, an operator overrides the    *)
(* limit and exempts the app until the next period, anyone else is told    *)
(* to come back then.  An error answers 500 or counts as not exempt.       *)
CheckExemption(a) ==
  /\ wake[a] \in Callers
  /\ \/ /\ IsAppExempt(a)
        /\ SetWake(a, "waking") /\ Works
        /\ UNCHANGED exemptVars
     \/ /\ ~IsAppExempt(a) /\ wake[a] = "operator"
        /\ UpsertExemption(AppExemption(a, "period", period + 1))
        /\ override' = [override EXCEPT ![a] = period]
        /\ SetWake(a, "waking") /\ Works
        /\ UNCHANGED permanent
     \/ /\ ~IsAppExempt(a) /\ wake[a] # "operator"
        /\ SetWake(a, "none") /\ Works
        /\ UNCHANGED exemptVars
     \/ /\ SetWake(a, "none") /\ Fault
        /\ UNCHANGED exemptVars
  /\ UNCHANGED <<worldVars, config, hibernated, tick, patch, patches>>

(* The goroutine of the wake: scaled up and SetAppAwake, or given up. *)
WakeEnds(a) ==
  /\ wake[a] = "waking"
  /\ SetWake(a, "none")
  /\ \/ hibernated' = hibernated \ {a} /\ Works
     \/ Fault /\ UNCHANGED hibernated
  /\ UNCHANGED <<worldVars, config, exemptVars, tick, patch, patches>>

-----------------------------------------------------------------------------
(* The rest of the platform, and the world *)

(* The hibernation watcher, or a hibernate request *)
Hibernate(a) ==
  /\ a \notin hibernated
  /\ hibernated' = hibernated \cup {a}
  /\ UNCHANGED <<worldVars, config, exemptVars, wake, tick, patch, patches, faults>>

(* Apps run up hours, prices are fetched anew, a deleted app takes its     *)
(* cost with it: the estimate moves either way.                            *)
SpendMoves(total) ==
  /\ total # spend[period]
  /\ spend' = [spend EXCEPT ![period] = total]
  /\ UNCHANGED <<period, config, exemptVars, appVars, tick, patch, patches, faults>>

NextPeriod ==
  /\ period < MaxPeriod
  /\ period' = period + 1
  /\ UNCHANGED <<spend, config, exemptVars, appVars, tick, patch, patches, faults>>

(* The API process dies: its requests and the tick are gone. *)
Crash ==
  /\ Fault /\ TickReturns
  /\ patch' = None
  /\ wake' = [a \in Apps |-> "none"]
  /\ UNCHANGED <<worldVars, config, exemptVars, hibernated, patches>>

Next ==
  \/ WatcherStep
  \/ \E c \in Ceilings \cup {0}, s \in SoftPcts \cup {0}, h \in HardPcts \cup {0} :
       PatchRead(c, s, h)
  \/ PatchWrite
  \/ \E a \in Apps :
       \/ AddAppExemption(a) \/ RemoveAppExemption(a)
       \/ \E caller \in Callers : WakeGate(a, caller)
       \/ CheckExemption(a) \/ WakeEnds(a) \/ Hibernate(a)
  \/ \E r \in Repos : AddRepoExemption(r) \/ RemoveRepoExemption(r)
  \/ \E total \in 0 .. MaxSpend : SpendMoves(total)
  \/ NextPeriod \/ Crash

Spec == Init /\ [][Next]_vars

(* The ticker fires and the watcher's goroutine runs.  Nobody else has to. *)
FairSpec == Spec /\ WF_vars(WatcherStep)

-----------------------------------------------------------------------------
(* Properties *)

(* cost-controls.md, exemptions.sql: an app is exempt exactly while the    *)
(* operator has it or its repo exempted, or has woken it against a limit   *)
(* in this very period: the override lasts to the end of the period, ends  *)
(* there even if no tick has yet cleaned up, and neither kind of exemption *)
(* takes the other with it.                                                *)
ExemptionsExact ==
  \A a \in Apps :
    IsAppExempt(a) <=> a \in permanent \/ RepoOf[a] \in permanent
                       \/ override[a] = period

(* The row's limits are those that the estimate of this period calls for. *)
LimitsRight == LimitsOf(config) = LimitsFor(spend[period], config)

(* budget.go, tick: once the estimate and the month no longer change, the  *)
(* stored limits become right and stay right - after a month's end, a      *)
(* PATCH that wrote back an older row, a failed estimate, a failed write   *)
(* or a restart.  Limits stored wrongly block every wake or none.          *)
LimitsConverge ==
  <>[][FALSE]_<<period, spend>> => <>[]LimitsRight

(* The hard limit is in force and no wake of the app is under way. *)
HardLimitHolds(a) == config.hard /\ LimitsRight /\ wake[a] = "none"

(* cost-controls.md: at the hard limit all running non-exempt apps are     *)
(* force-hibernated.  Not so: the list is read once, when the limit is     *)
(* newly hit.  A wake that passed the gate before the limit was stored and *)
(* ends after the list was read leaves its app running for the rest of the *)
(* period.                                                                 *)
HardLimitStopsApps ==
  \A a \in Apps :
    []~IsAppExempt(a) /\ <>[]HardLimitHolds(a) => []<>(a \in hibernated)
=============================================================================
