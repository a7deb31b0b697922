---------------------------- MODULE Budget_proofs ----------------------------
(***************************************************************************)
(* Proof that the exemptions table says exactly what the operator decided, *)
(* for any apps, repos, periods, faults and crashes.                       *)
(*                                                                         *)
(* ExemptionsExact is not inductive: it speaks only of the rows that count *)
(* now.  Table says which rows there are, and Clock that a tick never      *)
(* works with a later month than the current one - without it, the         *)
(* watcher's clean-up could delete an override that still counts.          *)
(*                                                                         *)
(* The last part proves type correctness, which the two whole-row writes   *)
(* of platform_config make worth saying.                                   *)
(***************************************************************************)
EXTENDS Budget, TLAPS

Clock ==
  /\ period \in Nat \ {0}
  /\ DOMAIN tick = {"pc", "now", "cfg", "todo", "app"}
  /\ tick.now \in Nat
  /\ tick.now <= period

History ==
  /\ permanent \subseteq Apps \cup Repos
  /\ override \in [Apps -> Nat]
  /\ \A a \in Apps : override[a] <= period

(* Every row stands for a decision of the operator. *)
Justified(e) ==
  \/ \E a \in Apps \cap permanent : e = AppExemption(a, "explicit", 0)
  \/ \E r \in Repos \cap permanent : e = RepoExemption(r)
  \/ \E a \in Apps : e = AppExemption(a, "period", override[a] + 1) /\ override[a] # 0

Table ==
  /\ \A e \in exemptions : Justified(e)
  /\ \A a \in Apps \cap permanent : AppExemption(a, "explicit", 0) \in exemptions
  /\ \A r \in Repos \cap permanent : RepoExemption(r) \in exemptions
  /\ \A a \in Apps : override[a] = period
       => AppExemption(a, "period", period + 1) \in exemptions

Inv == Clock /\ History /\ Table

(* The rows that the table may hold make an app exempt in the cases that   *)
(* IsAppExempt is meant to cover, and in no other.                         *)
LEMMA TableIsExact == Inv => ExemptionsExact
<1> SUFFICES ASSUME Inv, NEW a \in Apps
             PROVE  IsAppExempt(a) <=> a \in permanent \/ RepoOf[a] \in permanent
                                       \/ override[a] = period
  BY DEF ExemptionsExact
<1>0. RepoOf[a] \in Repos /\ a # None /\ Apps \cap Repos = {}
  BY BudgetConstants
<1>1. ASSUME IsAppExempt(a)
      PROVE  a \in permanent \/ RepoOf[a] \in permanent \/ override[a] = period
  <2>1. PICK e \in exemptions :
               /\ e.repo = RepoOf[a]
               /\ e.kind = "repo" \/ (e.kind = "app" /\ e.app = a)
               /\ e.expires = 0 \/ e.expires > period
    BY <1>1 DEF IsAppExempt
  <2>2. Justified(e)
    BY DEF Inv, Table
  <2>3. CASE \E b \in Apps \cap permanent : e = AppExemption(b, "explicit", 0)
    BY <2>1, <2>3 DEF AppExemption
  <2>4. CASE \E r \in Repos \cap permanent : e = RepoExemption(r)
    BY <2>1, <2>4 DEF RepoExemption
  <2>5. CASE \E b \in Apps : e = AppExemption(b, "period", override[b] + 1) /\ override[b] # 0
    <3>1. PICK b \in Apps : e = AppExemption(b, "period", override[b] + 1) /\ override[b] # 0
      BY <2>5
    <3>2. b = a /\ e.expires = override[a] + 1
      BY <2>1, <3>1 DEF AppExemption
    <3>3. override[a] \in Nat /\ override[a] <= period /\ period \in Nat
      BY DEF Inv, History, Clock
    <3>. QED BY <2>1, <3>2, <3>3
  <2>. QED BY <2>2, <2>3, <2>4, <2>5 DEF Justified
<1>2. ASSUME a \in permanent
      PROVE  IsAppExempt(a)
  <2>1. AppExemption(a, "explicit", 0) \in exemptions
    BY <1>2 DEF Inv, Table
  <2>. QED BY <2>1 DEF AppExemption, IsAppExempt
<1>3. ASSUME RepoOf[a] \in permanent
      PROVE  IsAppExempt(a)
  <2>1. RepoExemption(RepoOf[a]) \in exemptions
    BY <1>0, <1>3 DEF Inv, Table
  <2>. QED BY <2>1 DEF RepoExemption, IsAppExempt
<1>4. ASSUME override[a] = period
      PROVE  IsAppExempt(a)
  <2>1. AppExemption(a, "period", period + 1) \in exemptions
    BY <1>4 DEF Inv, Table
  <2>2. period \in Nat
    BY DEF Inv, Clock
  <2>. QED BY <2>1, <2>2 DEF AppExemption, IsAppExempt
<1>. QED BY <1>1, <1>2, <1>3, <1>4

(* Steps that leave the exemptions, the history and the month alone. *)
LEMMA OtherSteps ==
  ASSUME Inv, UNCHANGED <<exemptions, permanent, override, period>>, Clock'
  PROVE  Inv'
BY DEF Inv, History, Table, Justified, AppExemption, RepoExemption

(* Steps that also leave the tick's record of the month alone. *)
LEMMA SameTick ==
  ASSUME Inv, UNCHANGED <<exemptions, permanent, override, period>>,
         DOMAIN tick' = DOMAIN tick, tick'.now = tick.now
  PROVE  Inv'
<1>1. Clock'
  BY DEF Inv, Clock
<1>. QED BY <1>1, OtherSteps

(* Adding an explicit exemption of an app touches no other row. *)
LEMMA AddAppKeeps ==
  ASSUME Inv, NEW a \in Apps, AddAppExemption(a)
  PROVE  Inv'
<1>1. /\ exemptions' = {x \in exemptions : Key(x) # Key(AppExemption(a, "explicit", 0))}
                       \cup {AppExemption(a, "explicit", 0)}
      /\ permanent' = permanent \cup {a}
      /\ UNCHANGED <<override, period, tick>>
  BY DEF AddAppExemption, UpsertExemption, worldVars
<1>2. Clock' /\ History'
  BY <1>1 DEF Inv, Clock, History
<1>3. \A e \in exemptions' : Justified(e)'
  BY <1>1 DEF Inv, Table, Justified, AppExemption, RepoExemption
<1>4. \A b \in Apps \cap permanent' : AppExemption(b, "explicit", 0) \in exemptions'
  BY <1>1, BudgetConstants DEF Inv, Table, Key, AppExemption
<1>5. \A r \in Repos \cap permanent' : RepoExemption(r) \in exemptions'
  BY <1>1, BudgetConstants DEF Inv, Table, Key, AppExemption, RepoExemption
<1>6. \A b \in Apps : override'[b] = period'
                     => AppExemption(b, "period", period' + 1) \in exemptions'
  BY <1>1 DEF Inv, Table, Key, AppExemption
<1>. QED BY <1>2, <1>3, <1>4, <1>5, <1>6 DEF Inv, Table, AppExemption, RepoExemption

(* Removing it leaves an override of the same app in place. *)
LEMMA RemoveAppKeeps ==
  ASSUME Inv, NEW a \in Apps, RemoveAppExemption(a)
  PROVE  Inv'
<1>1. /\ exemptions' = {e \in exemptions : ~(e.kind = "app" /\ e.app = a /\ e.type = "explicit")}
      /\ permanent' = permanent \ {a}
      /\ UNCHANGED <<override, period, tick>>
  BY DEF RemoveAppExemption, worldVars
<1>2. Clock' /\ History'
  BY <1>1 DEF Inv, Clock, History
<1>3. \A e \in exemptions' : Justified(e)'
  BY <1>1, BudgetConstants DEF Inv, Table, Justified, AppExemption, RepoExemption
<1>4. \A b \in Apps \cap permanent' : AppExemption(b, "explicit", 0) \in exemptions'
  BY <1>1, BudgetConstants DEF Inv, Table, Key, AppExemption, RepoExemption
<1>5. \A r \in Repos \cap permanent' : RepoExemption(r) \in exemptions'
  BY <1>1, BudgetConstants DEF Inv, Table, Key, AppExemption, RepoExemption
<1>6. \A b \in Apps : override'[b] = period'
                     => AppExemption(b, "period", period' + 1) \in exemptions'
  BY <1>1 DEF Inv, Table, Key, AppExemption, RepoExemption
<1>. QED BY <1>2, <1>3, <1>4, <1>5, <1>6 DEF Inv, Table, AppExemption, RepoExemption

(* Adding the exemption of a repo touches no other row. *)
LEMMA AddRepoKeeps ==
  ASSUME Inv, NEW r \in Repos, AddRepoExemption(r)
  PROVE  Inv'
<1>1. /\ exemptions' = {x \in exemptions : Key(x) # Key(RepoExemption(r))} \cup {RepoExemption(r)}
      /\ permanent' = permanent \cup {r}
      /\ UNCHANGED <<override, period, tick>>
  BY DEF AddRepoExemption, UpsertExemption, worldVars
<1>2. Clock' /\ History'
  BY <1>1 DEF Inv, Clock, History
<1>3. \A e \in exemptions' : Justified(e)'
  BY <1>1, BudgetConstants DEF Inv, Table, Justified, AppExemption, RepoExemption
<1>4. \A b \in Apps \cap permanent' : AppExemption(b, "explicit", 0) \in exemptions'
  BY <1>1, BudgetConstants DEF Inv, Table, Key, AppExemption, RepoExemption
<1>5. \A q \in Repos \cap permanent' : RepoExemption(q) \in exemptions'
  BY <1>1, BudgetConstants DEF Inv, Table, Key, AppExemption, RepoExemption
<1>6. \A b \in Apps : override'[b] = period'
                     => AppExemption(b, "period", period' + 1) \in exemptions'
  BY <1>1 DEF Inv, Table, Key, AppExemption, RepoExemption
<1>. QED BY <1>2, <1>3, <1>4, <1>5, <1>6 DEF Inv, Table, AppExemption, RepoExemption

(* Removing the exemption of a repo leaves those of its apps in place. *)
LEMMA RemoveRepoKeeps ==
  ASSUME Inv, NEW r \in Repos, RemoveRepoExemption(r)
  PROVE  Inv'
<1>1. /\ exemptions' = {e \in exemptions : ~(e.kind = "repo" /\ e.repo = r /\ e.type = "explicit")}
      /\ permanent' = permanent \ {r}
      /\ UNCHANGED <<override, period, tick>>
  BY DEF RemoveRepoExemption, worldVars
<1>2. Clock' /\ History'
  BY <1>1 DEF Inv, Clock, History
<1>3. \A e \in exemptions' : Justified(e)'
  BY <1>1, BudgetConstants DEF Inv, Table, Justified, AppExemption, RepoExemption
<1>4. \A b \in Apps \cap permanent' : AppExemption(b, "explicit", 0) \in exemptions'
  BY <1>1, BudgetConstants DEF Inv, Table, Key, AppExemption, RepoExemption
<1>5. \A q \in Repos \cap permanent' : RepoExemption(q) \in exemptions'
  BY <1>1, BudgetConstants DEF Inv, Table, Key, AppExemption, RepoExemption
<1>6. \A b \in Apps : override'[b] = period'
                     => AppExemption(b, "period", period' + 1) \in exemptions'
  BY <1>1 DEF Inv, Table, Key, AppExemption, RepoExemption
<1>. QED BY <1>2, <1>3, <1>4, <1>5, <1>6 DEF Inv, Table, AppExemption, RepoExemption

(* The clean-up of a tick deletes no row that still counts: a tick's month *)
(* is never later than the current one.                                    *)
LEMMA ExpireKeeps ==
  ASSUME Inv, ExpirePeriodExemptions
  PROVE  Inv'
<1>1. /\ \/ exemptions' = {e \in exemptions : ~(e.type = "period" /\ e.expires <= tick.now)}
         \/ exemptions' = exemptions
      /\ UNCHANGED <<permanent, override, period>>
      /\ DOMAIN tick' = DOMAIN tick /\ tick'.now = tick.now
  BY DEF ExpirePeriodExemptions, worldVars, Inv, Clock
<1>2. Clock' /\ History'
  BY <1>1 DEF Inv, Clock, History
<1>3. \A e \in exemptions' : Justified(e)'
  BY <1>1 DEF Inv, Table, Justified, AppExemption, RepoExemption
<1>4. \A b \in Apps \cap permanent' : AppExemption(b, "explicit", 0) \in exemptions'
  BY <1>1 DEF Inv, Table, AppExemption
<1>5. \A r \in Repos \cap permanent' : RepoExemption(r) \in exemptions'
  BY <1>1 DEF Inv, Table, RepoExemption
<1>6. ASSUME NEW b \in Apps, override'[b] = period'
      PROVE  AppExemption(b, "period", period' + 1) \in exemptions'
  <2>1. AppExemption(b, "period", period + 1) \in exemptions
    BY <1>1, <1>6 DEF Inv, Table
  <2>2. ~(AppExemption(b, "period", period + 1).expires <= tick.now)
    BY DEF Inv, Clock, AppExemption
  <2>. QED BY <1>1, <2>1, <2>2
<1>. QED BY <1>2, <1>3, <1>4, <1>5, <1>6 DEF Inv, Table, AppExemption, RepoExemption

(* An operator's override puts its row in, in place of an older one. *)
LEMMA OverrideKeeps ==
  ASSUME Inv, NEW a \in Apps, CheckExemption(a)
  PROVE  Inv'
<1>0. UNCHANGED <<period, tick>>
  BY DEF CheckExemption, worldVars
<1>1. CASE UNCHANGED <<exemptions, permanent, override>>
  BY <1>0, <1>1, SameTick
<1>2. CASE /\ UpsertExemption(AppExemption(a, "period", period + 1))
           /\ override' = [override EXCEPT ![a] = period]
           /\ UNCHANGED permanent
  <2>0. exemptions' = {x \in exemptions : Key(x) # Key(AppExemption(a, "period", period + 1))}
                        \cup {AppExemption(a, "period", period + 1)}
    BY <1>2 DEF UpsertExemption
  <2>1. Clock' /\ History'
    BY <1>0, <1>2 DEF Inv, Clock, History
  <2>2. override'[a] = period /\ period # 0
    BY <1>2 DEF Inv, Clock, History
  <2>3. ASSUME NEW e \in exemptions'
        PROVE  Justified(e)'
    <3>1. CASE e = AppExemption(a, "period", period + 1)
      BY <1>0, <2>2, <3>1 DEF Justified, AppExemption
    <3>2. CASE e \in exemptions /\ Key(e) # Key(AppExemption(a, "period", period + 1))
      <4>1. Justified(e)
        BY <3>2 DEF Inv, Table
      <4>2. CASE \E b \in Apps : e = AppExemption(b, "period", override[b] + 1) /\ override[b] # 0
        <5>1. PICK b \in Apps : e = AppExemption(b, "period", override[b] + 1) /\ override[b] # 0
          BY <4>2
        <5>2. b # a
          BY <3>2, <5>1 DEF Key, AppExemption
        <5>3. override'[b] = override[b]
          BY <1>2, <5>2 DEF Inv, History
        <5>. QED BY <5>1, <5>3 DEF Justified, AppExemption
      <4>. QED BY <1>2, <4>1, <4>2 DEF Justified, AppExemption, RepoExemption
    <3>. QED BY <2>0, <3>1, <3>2
  <2>4. \A b \in Apps \cap permanent' : AppExemption(b, "explicit", 0) \in exemptions'
    BY <1>2, <2>0 DEF Inv, Table, Key, AppExemption
  <2>5. \A r \in Repos \cap permanent' : RepoExemption(r) \in exemptions'
    BY <1>2, <2>0 DEF Inv, Table, Key, AppExemption, RepoExemption
  <2>6. ASSUME NEW b \in Apps, override'[b] = period'
        PROVE  AppExemption(b, "period", period' + 1) \in exemptions'
    <3>1. CASE b = a
      BY <1>0, <2>0, <3>1
    <3>2. CASE b # a
      <4>1. override[b] = period
        BY <1>0, <1>2, <2>6, <3>2 DEF Inv, History
      <4>2. AppExemption(b, "period", period + 1) \in exemptions
        BY <4>1 DEF Inv, Table
      <4>. QED BY <1>0, <2>0, <3>2, <4>2 DEF Key, AppExemption
    <3>. QED BY <3>1, <3>2
  <2>. QED BY <2>1, <2>3, <2>4, <2>5, <2>6 DEF Inv, Table, AppExemption, RepoExemption
<1>. QED BY <1>1, <1>2 DEF CheckExemption, exemptVars

(* A new month: every override lies in an earlier one. *)
LEMMA NextPeriodKeeps ==
  ASSUME Inv, NextPeriod
  PROVE  Inv'
<1>1. period' = period + 1 /\ UNCHANGED <<exemptions, permanent, override, tick>>
  BY DEF NextPeriod, exemptVars
<1>2. Clock' /\ History'
  BY <1>1 DEF Inv, Clock, History
<1>3. \A a \in Apps : override[a] # period'
  BY <1>1 DEF Inv, Clock, History
<1>. QED BY <1>1, <1>2, <1>3 DEF Inv, Table, Justified, AppExemption, RepoExemption

(* The start of a tick notes the month; its other steps but the clean-up   *)
(* leave month and exemptions alone.                                       *)
LEMMA WatcherKeeps ==
  ASSUME Inv, WatcherStep
  PROVE  Inv'
<1>1. CASE TickStart
  <2>1. UNCHANGED <<exemptions, permanent, override, period>>
    BY <1>1 DEF TickStart, worldVars, exemptVars
  <2>2. DOMAIN tick' = DOMAIN tick /\ tick'.now = period
    BY <1>1 DEF TickStart, Inv, Clock
  <2>3. Clock'
    BY <2>1, <2>2 DEF Inv, Clock
  <2>. QED BY <2>1, <2>3, OtherSteps
<1>2. CASE ExpirePeriodExemptions
  BY <1>2, ExpireKeeps
<1>3. CASE UpdateBillingPeriod
  <2>. QED BY <1>3, SameTick DEF UpdateBillingPeriod, TickReturns, worldVars, exemptVars, Inv, Clock
<1>4. CASE TotalCost
  BY <1>4, SameTick DEF TotalCost, Evaluate, TickReturns, worldVars, exemptVars, Inv, Clock
<1>5. CASE ListAllApps
  BY <1>5, SameTick DEF ListAllApps, worldVars, exemptVars, Inv, Clock
<1>6. CASE \E a \in Apps : ForceNext(a)
  BY <1>6, SameTick DEF ForceNext, worldVars, exemptVars, Inv, Clock
<1>7. CASE ForceScale
  BY <1>7, SameTick DEF ForceScale, worldVars, exemptVars, Inv, Clock
<1>8. CASE ForceDone
  BY <1>8, SameTick DEF ForceDone, worldVars, exemptVars, Inv, Clock
<1>9. CASE PersistLimits
  BY <1>9, SameTick DEF PersistLimits, TickReturns, worldVars, exemptVars, Inv, Clock
<1>. QED
  BY <1>1, <1>2, <1>3, <1>4, <1>5, <1>6, <1>7, <1>8, <1>9 DEF WatcherStep

(* budget.go, exemptions.sql: whatever the operator, the watcher, callers  *)
(* and crashes do, an app is exempt exactly while it or its repo is        *)
(* exempted or its last override was made in the current period.           *)
THEOREM ExemptionsAreExact == Spec => []ExemptionsExact
<1>1. Init => Inv
  BY BudgetConstants DEF Init, Inv, Clock, History, Table
<1>2. Inv /\ [Next]_vars => Inv'
  <2> SUFFICES ASSUME Inv, [Next]_vars
               PROVE  Inv'
    OBVIOUS
  <2>1. CASE WatcherStep
    BY <2>1, WatcherKeeps
  <2>2. CASE \E c \in Ceilings \cup {0}, s \in SoftPcts \cup {0}, h \in HardPcts \cup {0} :
               PatchRead(c, s, h)
    BY <2>2, SameTick DEF PatchRead, worldVars, exemptVars
  <2>3. CASE PatchWrite
    BY <2>3, SameTick DEF PatchWrite, worldVars, exemptVars
  <2>4. ASSUME NEW a \in Apps, AddAppExemption(a)
        PROVE  Inv'
    BY <2>4, AddAppKeeps
  <2>5. ASSUME NEW a \in Apps, RemoveAppExemption(a)
        PROVE  Inv'
    BY <2>5, RemoveAppKeeps
  <2>6. ASSUME NEW a \in Apps,
               (\E caller \in Callers : WakeGate(a, caller)) \/ WakeEnds(a) \/ Hibernate(a)
        PROVE  Inv'
    BY <2>6, SameTick DEF WakeGate, WakeEnds, Hibernate, worldVars, exemptVars
  <2>7. ASSUME NEW a \in Apps, CheckExemption(a)
        PROVE  Inv'
    BY <2>7, OverrideKeeps
  <2>8. ASSUME NEW r \in Repos, AddRepoExemption(r) \/ RemoveRepoExemption(r)
        PROVE  Inv'
    BY <2>8, AddRepoKeeps, RemoveRepoKeeps
  <2>9. CASE \E total \in 0 .. MaxSpend : SpendMoves(total)
    BY <2>9, SameTick DEF SpendMoves, exemptVars
  <2>10. CASE NextPeriod
    BY <2>10, NextPeriodKeeps
  <2>11. CASE Crash
    BY <2>11, SameTick DEF Crash, TickReturns, worldVars, exemptVars, Inv, Clock
  <2>12. CASE UNCHANGED vars
    BY <2>12, SameTick DEF vars
  <2>. QED
    BY <2>1, <2>2, <2>3, <2>4, <2>5, <2>6, <2>7, <2>8, <2>9, <2>10, <2>11, <2>12 DEF Next
<1>. QED BY <1>1, <1>2, TableIsExact, PTL DEF Spec


-----------------------------------------------------------------------------
(* Type correctness.  The watcher and PATCH both write whole rows: what    *)
(* they put together in memory must again be a row.                        *)

TickType == [pc : TickPc, now : Periods, cfg : PlatformConfig,
             todo : SUBSET Apps, app : Apps \cup {None}]

(* The watcher takes only an app that it has listed. *)
Taken == tick.pc = "scale" => tick.app \in Apps

(* A row with both limits set is a row. *)
LEMMA LimitsType ==
  ASSUME NEW c \in PlatformConfig, NEW s \in BOOLEAN, NEW h \in BOOLEAN
  PROVE  [c EXCEPT !.soft = s, !.hard = h] \in PlatformConfig
BY DEF PlatformConfig

(* A fault is counted up to its bound. *)
LEMMA FaultType ==
  ASSUME faults \in 0 .. MaxFaults, Fault \/ Works
  PROVE  faults' \in 0 .. MaxFaults
BY BudgetConstants DEF Fault, Works

(* The end of a tick. *)
LEMMA ReturnType ==
  ASSUME tick \in TickType, TickReturns
  PROVE  tick' \in TickType /\ tick'.pc = "idle"
<1>1. tick' = [tick EXCEPT !.pc = "idle", !.todo = {}, !.app = None]
  BY DEF TickReturns
<1>. QED BY <1>1 DEF TickType, TickPc

(* The watcher's variables. *)
LEMMA WatcherType ==
  ASSUME TypeOK, Taken, WatcherStep
  PROVE  /\ tick' \in TickType /\ Taken'
         /\ config' \in PlatformConfig /\ exemptions' \subseteq Exemption
         /\ hibernated' \subseteq Apps /\ faults' \in 0 .. MaxFaults
         /\ UNCHANGED <<worldVars, patch, wake, patches, permanent, override>>
<1>0. /\ tick \in TickType /\ config \in PlatformConfig /\ period \in Periods
      /\ faults \in 0 .. MaxFaults /\ hibernated \subseteq Apps
      /\ exemptions \subseteq Exemption
  BY DEF TypeOK, TickType
<1>1. CASE TickStart
  <2> DEFINE pc == CASE config.billing = period -> "cost"
                     [] config.billing = 0 -> "roll"
                     [] OTHER -> "expire"
  <2>1. pc \in {"cost", "roll", "expire"}
    OBVIOUS
  <2>2. tick' = [tick EXCEPT !.now = period, !.cfg = config, !.pc = pc]
    BY <1>1 DEF TickStart
  <2> HIDE DEF pc
  <2>3. tick' \in TickType /\ tick'.pc = pc
    BY <1>0, <2>1, <2>2 DEF TickType, TickPc
  <2>. QED BY <1>0, <1>1, <2>1, <2>3 DEF TickStart, Taken, exemptVars, appVars
<1>2. CASE ExpirePeriodExemptions
  <2> DEFINE c == [tick.cfg EXCEPT !.soft = FALSE, !.hard = FALSE]
  <2>1. c \in PlatformConfig
    BY <1>0, LimitsType DEF TickType
  <2>2. tick' = [tick EXCEPT !.pc = "roll", !.cfg = c]
    BY <1>0, <1>2 DEF ExpirePeriodExemptions, TickType
  <2> HIDE DEF c
  <2>3. tick' \in TickType /\ tick'.pc = "roll"
    BY <1>0, <2>1, <2>2 DEF TickType, TickPc
  <2>4. exemptions' \subseteq Exemption /\ faults' \in 0 .. MaxFaults
    BY <1>0, <1>2, FaultType DEF ExpirePeriodExemptions
  <2>. QED BY <1>0, <1>2, <2>3, <2>4 DEF ExpirePeriodExemptions, Taken, appVars
<1>3. CASE UpdateBillingPeriod
  <2> DEFINE c == [tick.cfg EXCEPT !.billing = tick.now]
  <2>1. c \in PlatformConfig
    BY <1>0 DEF TickType, PlatformConfig
  <2>2. \/ config' = c /\ tick' = [tick EXCEPT !.pc = "cost", !.cfg = c]
        \/ TickReturns /\ UNCHANGED config
    BY <1>3 DEF UpdateBillingPeriod
  <2> HIDE DEF c
  <2>3. config' \in PlatformConfig
    BY <1>0, <2>1, <2>2
  <2>4. tick' \in TickType /\ tick'.pc \in {"cost", "idle"}
    <3>1. CASE tick' = [tick EXCEPT !.pc = "cost", !.cfg = c]
      BY <1>0, <2>1, <3>1 DEF TickType, TickPc
    <3>. QED BY <1>0, <2>2, <3>1, ReturnType
  <2>5. faults' \in 0 .. MaxFaults
    BY <1>0, <1>3, FaultType DEF UpdateBillingPeriod
  <2>. QED BY <1>0, <1>3, <2>3, <2>4, <2>5 DEF UpdateBillingPeriod, Taken, exemptVars, appVars
<1>4. CASE TotalCost
  <2>1. ASSUME NEW total, Evaluate(total)
        PROVE  tick' \in TickType /\ tick'.pc \in {"idle", "list", "persist"}
    <3> DEFINE l == LimitsFor(total, tick.cfg)
               c == [tick.cfg EXCEPT !.soft = l.soft, !.hard = l.hard]
               pc == IF l.hard /\ ~tick.cfg.hard THEN "list" ELSE "persist"
    <3>1. l.soft \in BOOLEAN /\ l.hard \in BOOLEAN
      BY DEF LimitsFor, Reaches
    <3>2. TickReturns \/ tick' = [tick EXCEPT !.cfg = c, !.pc = pc]
      BY <2>1 DEF Evaluate
    <3> HIDE DEF l
    <3>3. c \in PlatformConfig
      BY <1>0, <3>1, LimitsType DEF TickType
    <3>4. pc \in {"list", "persist"}
      OBVIOUS
    <3> HIDE DEF c, pc
    <3>5. CASE tick' = [tick EXCEPT !.cfg = c, !.pc = pc]
      BY <1>0, <3>3, <3>4, <3>5 DEF TickType, TickPc
    <3>. QED BY <1>0, <3>2, <3>5, ReturnType
  <2>2. tick' \in TickType /\ tick'.pc \in {"idle", "list", "persist"}
    BY <1>4, <2>1 DEF TotalCost
  <2>3. faults' \in 0 .. MaxFaults
    BY <1>0, <1>4, FaultType DEF TotalCost
  <2>. QED BY <1>0, <1>4, <2>2, <2>3 DEF TotalCost, Taken, exemptVars, appVars
<1>5. CASE ListAllApps
  <2> DEFINE d == Apps \ hibernated
  <2>1. \/ tick' = [tick EXCEPT !.pc = "force", !.todo = d]
        \/ tick' = [tick EXCEPT !.pc = "persist"]
    BY <1>5 DEF ListAllApps
  <2>2. d \in SUBSET Apps
    OBVIOUS
  <2> HIDE DEF d
  <2>3. tick' \in TickType /\ tick'.pc \in {"force", "persist"}
    BY <1>0, <2>1, <2>2 DEF TickType, TickPc
  <2>4. faults' \in 0 .. MaxFaults
    BY <1>0, <1>5, FaultType DEF ListAllApps
  <2>. QED BY <1>0, <1>5, <2>3, <2>4 DEF ListAllApps, Taken, exemptVars, appVars
<1>6. ASSUME NEW a \in Apps, ForceNext(a)
      PROVE  /\ tick' \in TickType /\ Taken' /\ faults' \in 0 .. MaxFaults
             /\ UNCHANGED <<worldVars, config, exemptVars, appVars, patch, patches>>
  <2> DEFINE d == tick.todo \ {a}
  <2>1. \/ tick' = [tick EXCEPT !.todo = d, !.app = a, !.pc = "scale"]
        \/ tick' = [tick EXCEPT !.todo = d] /\ tick.pc = "force"
    BY <1>6 DEF ForceNext
  <2>2. d \in SUBSET Apps
    BY <1>0 DEF TickType
  <2> HIDE DEF d
  <2>3. tick' \in TickType /\ (tick'.pc = "scale" => tick'.app = a)
    <3>1. CASE tick' = [tick EXCEPT !.todo = d, !.app = a, !.pc = "scale"]
      BY <1>0, <2>2, <3>1 DEF TickType, TickPc
    <3>2. CASE tick' = [tick EXCEPT !.todo = d] /\ tick.pc = "force"
      BY <1>0, <2>2, <3>2 DEF TickType
    <3>. QED BY <2>1, <3>1, <3>2
  <2>. QED BY <1>0, <1>6, <2>3, FaultType DEF ForceNext, Taken
<1>7. CASE ForceScale
  <2>1. tick' = [tick EXCEPT !.pc = "force", !.app = None] /\ tick.app \in Apps
    BY <1>7 DEF ForceScale, Taken
  <2>2. tick' \in TickType /\ tick'.pc = "force"
    BY <1>0, <2>1 DEF TickType, TickPc
  <2>. QED BY <1>0, <1>7, <2>1, <2>2, FaultType DEF ForceScale, Taken, exemptVars
<1>8. CASE ForceDone
  <2>1. tick' = [tick EXCEPT !.pc = "persist"]
    BY <1>8 DEF ForceDone
  <2>2. tick' \in TickType /\ tick'.pc = "persist"
    BY <1>0, <2>1 DEF TickType, TickPc
  <2>. QED BY <1>0, <1>8, <2>2 DEF ForceDone, Taken, exemptVars, appVars
<1>9. CASE PersistLimits
  <2>1. config' \in PlatformConfig /\ tick' \in TickType /\ tick'.pc = "idle"
    BY <1>0, <1>9, ReturnType DEF PersistLimits, TickType
  <2>. QED BY <1>0, <1>9, <2>1, FaultType DEF PersistLimits, Taken, exemptVars, appVars
<1>10. CASE \E a \in Apps : ForceNext(a)
  BY <1>0, <1>6, <1>10 DEF exemptVars, appVars
<1>. QED BY <1>1, <1>2, <1>3, <1>4, <1>5, <1>7, <1>8, <1>9, <1>10 DEF WatcherStep


(* The rows of exemptions that the code writes are rows. *)
LEMMA ExemptionType ==
  ASSUME NEW a \in Apps, NEW r \in Repos, NEW x \in 0 .. MaxPeriod + 1,
         NEW y \in {"explicit", "period"}
  PROVE  AppExemption(a, y, x) \in Exemption /\ RepoExemption(r) \in Exemption
<1>1. RepoOf[a] \in Repos /\ 0 \in 0 .. MaxPeriod + 1
  BY BudgetConstants
<1>. QED BY <1>1 DEF AppExemption, RepoExemption, Exemption

(* PATCH puts a row together from the one it read and what it was given. *)
LEMMA PatchType ==
  ASSUME TypeOK, NEW c \in Ceilings \cup {0}, NEW s \in SoftPcts \cup {0},
         NEW h \in HardPcts \cup {0}, PatchRead(c, s, h)
  PROVE  patch' \in PlatformConfig /\ patches' \in 0 .. MaxPatches
<1> DEFINE x == Given(c, config.ceiling)
           y == Given(s, config.softPct)
           z == Given(h, config.hardPct)
<1>1. config \in PlatformConfig
  BY DEF TypeOK
<1>2. x \in Ceilings /\ y \in SoftPcts /\ z \in HardPcts
  BY <1>1 DEF Given, PlatformConfig
<1>3. patch' = [config EXCEPT !.ceiling = x, !.softPct = y, !.hardPct = z]
  BY DEF PatchRead
<1> HIDE DEF x, y, z
<1>4. patch' \in PlatformConfig
  BY <1>1, <1>2, <1>3 DEF PlatformConfig
<1>5. patches' \in 0 .. MaxPatches
  BY BudgetConstants DEF PatchRead, TypeOK
<1>. QED BY <1>4, <1>5

(* Every step keeps the types. *)
LEMMA NextType ==
  ASSUME TypeOK, Taken, [Next]_vars
  PROVE  TypeOK' /\ Taken'
<1> USE DEF worldVars, exemptVars, appVars
<1>0. /\ config \in PlatformConfig /\ exemptions \subseteq Exemption
      /\ hibernated \subseteq Apps /\ tick \in TickType
      /\ wake \in [Apps -> {"none", "waking"} \cup Callers]
      /\ faults \in 0 .. MaxFaults /\ permanent \subseteq Apps \cup Repos
      /\ override \in [Apps -> {0} \cup Periods] /\ period \in Periods
      /\ spend \in [Periods -> 0 .. MaxSpend]
  BY DEF TypeOK, TickType
<1>1. CASE WatcherStep
  <2>1. /\ tick' \in TickType /\ Taken'
        /\ config' \in PlatformConfig /\ exemptions' \subseteq Exemption
        /\ hibernated' \subseteq Apps /\ faults' \in 0 .. MaxFaults
        /\ UNCHANGED <<period, spend, patch, wake, patches, permanent, override>>
    BY <1>1, WatcherType
  <2>. QED BY <2>1 DEF TypeOK, TickType
<1>2. ASSUME NEW c \in Ceilings \cup {0}, NEW s \in SoftPcts \cup {0},
             NEW h \in HardPcts \cup {0}, PatchRead(c, s, h)
      PROVE  TypeOK' /\ Taken'
  <2>1. patch' \in PlatformConfig /\ patches' \in 0 .. MaxPatches
    BY <1>2, PatchType
  <2>2. UNCHANGED <<period, spend, config, exemptions, permanent, override, hibernated, wake,
                    tick, faults>>
    BY <1>2 DEF PatchRead
  <2>. QED BY <2>1, <2>2 DEF TypeOK, Taken
<1>3. CASE PatchWrite
  <2>1. config' \in PlatformConfig /\ patch' = None
    BY <1>0, <1>3 DEF PatchWrite, TypeOK
  <2>2. faults' \in 0 .. MaxFaults
    BY <1>0, <1>3, FaultType DEF PatchWrite
  <2>3. UNCHANGED <<period, spend, exemptions, permanent, override, hibernated, wake, tick,
                    patches>>
    BY <1>3 DEF PatchWrite
  <2>. QED BY <2>1, <2>2, <2>3 DEF TypeOK, Taken
<1>4. ASSUME exemptions' \subseteq Exemption, permanent' \subseteq Apps \cup Repos,
             UNCHANGED <<period, spend, config, hibernated, wake, tick, patch, patches, faults,
                         override>>
      PROVE  TypeOK' /\ Taken'
  BY <1>4 DEF TypeOK, Taken
<1>5. ASSUME NEW e \in Exemption, UpsertExemption(e)
      PROVE  exemptions' \subseteq Exemption
  BY <1>0, <1>5 DEF UpsertExemption
<1>6. ASSUME NEW a \in Apps, AddAppExemption(a) \/ RemoveAppExemption(a)
      PROVE  TypeOK' /\ Taken'
  <2>1. PICK r \in Repos : r = RepoOf[a]
    BY BudgetConstants
  <2>2. 0 \in 0 .. MaxPeriod + 1
    BY BudgetConstants
  <2>3. AppExemption(a, "explicit", 0) \in Exemption
    BY <2>2, ExemptionType
  <2>4. CASE AddAppExemption(a)
    BY <1>0, <1>4, <1>5, <2>3, <2>4 DEF AddAppExemption
  <2>5. CASE RemoveAppExemption(a)
    BY <1>0, <1>4, <2>5 DEF RemoveAppExemption
  <2>. QED BY <1>6, <2>4, <2>5
<1>7. ASSUME NEW r \in Repos, AddRepoExemption(r) \/ RemoveRepoExemption(r)
      PROVE  TypeOK' /\ Taken'
  <2>1. RepoExemption(r) \in Exemption
    BY BudgetConstants DEF RepoExemption, Exemption
  <2>2. CASE AddRepoExemption(r)
    BY <1>0, <1>4, <1>5, <2>1, <2>2 DEF AddRepoExemption
  <2>3. CASE RemoveRepoExemption(r)
    BY <1>0, <1>4, <2>3 DEF RemoveRepoExemption
  <2>. QED BY <1>7, <2>2, <2>3
<1>8. ASSUME wake' \in [Apps -> {"none", "waking"} \cup Callers], hibernated' \subseteq Apps,
             exemptions' \subseteq Exemption, override' \in [Apps -> {0} \cup Periods],
             Fault \/ Works,
             UNCHANGED <<period, spend, config, permanent, tick, patch, patches>>
      PROVE  TypeOK' /\ Taken'
  BY <1>0, <1>8, FaultType DEF TypeOK, Taken
<1>9. ASSUME NEW a \in Apps, NEW caller \in Callers, WakeGate(a, caller)
      PROVE  TypeOK' /\ Taken'
  <2>1. wake' \in [Apps -> {"none", "waking"} \cup Callers]
    BY <1>0, <1>9 DEF WakeGate, SetWake
  <2>. QED BY <1>0, <1>8, <1>9, <2>1 DEF WakeGate
<1>10. ASSUME NEW a \in Apps, CheckExemption(a)
       PROVE  TypeOK' /\ Taken'
  <2>1. wake' \in [Apps -> {"none", "waking"} \cup Callers]
    BY <1>0, <1>10 DEF CheckExemption, SetWake
  <2>2. AppExemption(a, "period", period + 1) \in Exemption
    <3>1. period + 1 \in 0 .. MaxPeriod + 1 /\ RepoOf[a] \in Repos
      BY <1>0, BudgetConstants DEF Periods
    <3>. QED BY <3>1 DEF AppExemption, Exemption
  <2>3. exemptions' \subseteq Exemption /\ override' \in [Apps -> {0} \cup Periods]
    BY <1>0, <1>5, <1>10, <2>2 DEF CheckExemption
  <2>. QED BY <1>0, <1>8, <1>10, <2>1, <2>3 DEF CheckExemption
<1>11. ASSUME NEW a \in Apps, WakeEnds(a) \/ Hibernate(a)
       PROVE  TypeOK' /\ Taken'
  <2>1. wake' \in [Apps -> {"none", "waking"} \cup Callers]
    BY <1>0, <1>11 DEF WakeEnds, Hibernate, SetWake
  <2>2. hibernated' \subseteq Apps /\ (Fault \/ Works)
    BY <1>0, <1>11 DEF WakeEnds, Hibernate, Works
  <2>. QED BY <1>0, <1>8, <1>11, <2>1, <2>2 DEF WakeEnds, Hibernate
<1>12. CASE \E total \in 0 .. MaxSpend : SpendMoves(total)
  <2>1. spend' \in [Periods -> 0 .. MaxSpend]
    BY <1>0, <1>12 DEF SpendMoves
  <2>. QED BY <1>0, <1>12, <2>1 DEF SpendMoves, TypeOK, Taken
<1>13. CASE NextPeriod
  <2>1. period' \in Periods
    BY <1>0, <1>13, BudgetConstants DEF NextPeriod, Periods
  <2>. QED BY <1>0, <1>13, <2>1 DEF NextPeriod, TypeOK, Taken
<1>14. CASE Crash
  <2>1. tick' \in TickType /\ tick'.pc = "idle"
    BY <1>0, <1>14, ReturnType DEF Crash
  <2>2. wake' \in [Apps -> {"none", "waking"} \cup Callers] /\ faults' \in 0 .. MaxFaults
    BY <1>0, <1>14, FaultType DEF Crash
  <2>. QED BY <1>0, <1>14, <2>1, <2>2 DEF Crash, TypeOK, TickType, Taken
<1>15. CASE UNCHANGED vars
  BY <1>15 DEF vars, TypeOK, Taken
<1>. QED
  BY <1>1, <1>2, <1>3, <1>6, <1>7, <1>9, <1>10, <1>11, <1>12, <1>13, <1>14, <1>15 DEF Next

(* Whatever row the watcher and PATCH put together and write back, it is a *)
(* row: no field of platform_config is ever lost or out of its set.        *)
THEOREM TypeCorrect == Spec => []TypeOK
<1>1. Init => TypeOK /\ Taken
  <2> SUFFICES ASSUME Init PROVE TypeOK /\ Taken
    OBVIOUS
  <2>1. config \in PlatformConfig /\ 1 \in Periods
    BY BudgetConstants DEF Init, Periods
  <2>2. tick \in TickType /\ tick.pc = "idle"
    BY <2>1 DEF Init, TickType, TickPc
  <2>. QED BY <2>1, <2>2, BudgetConstants DEF Init, TypeOK, Taken, TickType
<1>2. TypeOK /\ Taken /\ [Next]_vars => (TypeOK /\ Taken)'
  BY NextType
<1>. QED BY <1>1, <1>2, PTL DEF Spec
=============================================================================
