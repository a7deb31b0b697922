---------------------------- MODULE Tiers_proofs ----------------------------
(***************************************************************************)
(* Proofs about the tiers, for any tiers, repos, apps and requests.        *)
(*                                                                         *)
(* OneDefault holds whatever overlaps and whatever fails.  The rest is     *)
(* about histories in which nothing did: CalmRequest says what a request   *)
(* still knows of the tables from the statements it has behind it, which   *)
(* is true as long as nobody else has been at work, and Alone that nobody  *)
(* has.                                                                    *)
(***************************************************************************)
EXTENDS Tiers, FiniteSetTheorems, TLAPS

ReadPc == {"cur_read", "rt_count", "rt_set", "rt_list"}

SpreadPc == {"prop_repos"} \cup PropPc

(* The fields that a handler uses at a step have been filled in. *)
RequestOK(q) ==
  LET r == req[q]
  IN  /\ r.pc \notin {"idle", "del_ns"} => r.tier \in TierNames
      /\ r.pc \in AssignPc \cup UpsertPc \cup SyncPc => r.repo \in Repos
      /\ r.pc \in UpsertPc \cup {"del_ns"} => r.app \in Apps
      /\ r.pc \in PatchPc \cup PropPc \cup ReadPc \cup {"up_count"} => r.row \in Tier
      /\ r.pc \in {"tier_read", "cur_read"} => r.old \in TierNames

Requests == \A q \in Reqs : RequestOK(q)

(* Requests that did not overlap are alone. *)
Alone == calm => \A q, r \in Reqs : Live(q) /\ Live(r) => q = r

(* The propagation of q is about the app a, and has it still to do. *)
Concerns(q, a) ==
  /\ app[a] = "active" /\ ns[a] # None
  /\ repoTier[RepoOf[a]] = req[q].tier /\ req[q].repo \in {None, RepoOf[a]}

Ahead(q, a) ==
  \/ req[q].pc = "prop_repos"
  \/ RepoOf[a] \in req[q].repos
  \/ req[q].pc = "prop_app" /\ a \in req[q].todo

CalmTier(q) ==
  LET r == req[q]
  IN  /\ r.pc \in DeletePc => ~Default(r.tier)
      /\ r.pc = "del_exec" => ReposOn(r.tier) = {}
      /\ r.pc \in {"def_write", "up_repo", "sy_repo"} \cup SpreadPc \cup ReadPc => Exists(r.tier)
      /\ r.pc \in SpreadPc \cup ReadPc => tiers[r.tier].limits = r.row.limits
      /\ r.pc \in SpreadPc => \A a \in Apps : Concerns(q, a) =>
           ns[a] = r.row.limits \/ Ahead(q, a)

CalmQuota(q) ==
  LET r == req[q]
  IN  /\ r.pc \in UpsertPc => r.repo = RepoOf[r.app]
      /\ r.pc \in UpsertPc \ {"up_repo"} => r.tier = repoTier[r.repo]
      /\ r.pc \in {"up_tier", "up_count"} => app[r.app] = "absent"
      /\ r.pc = "up_count" => r.row = tiers[r.tier]
      /\ r.pc = "up_insert" /\ app[r.app] = "absent" =>
           CountAppsByRepo(r.repo) < tiers[r.tier].max_apps

CalmRequests == calm => \A q \in Reqs : CalmTier(q) /\ CalmQuota(q)

Inv ==
  /\ TypeOK /\ Requests /\ OneDefault
  /\ TiersInUseExist /\ Alone /\ CalmRequests

USE TierConstants

-----------------------------------------------------------------------------
(* What every step has in common *)

Tables == <<tiers, repoTier, app, ns>>

TablesOK ==
  /\ tiers \in [TierNames -> Tier \cup {None}]
  /\ repoTier \in [Repos -> TierNames \cup {None}]
  /\ app \in [Apps -> {"absent", "active", "pending"}]
  /\ ns \in [Apps -> Limits \cup {None}]

InUse == /\ \E t \in TierNames : Default(t)
         /\ \A r \in Repos : repoTier[r] # None => Exists(repoTier[r])

(* A step changes one request; it counts, and it is calm only if that      *)
(* request is alone.                                                       *)
Changes(q) == /\ req' \in [Reqs -> Request]
              /\ \A r \in Reqs \ {q} : req'[r] = req[r]

Control(q) == /\ made' \in 0 .. MaxReqs /\ calm' \in BOOLEAN
              /\ calm' => calm /\ \A r \in Reqs \ {q} : ~Live(r)

(* The idle record is a request. *)
LEMMA IdleType == Idle \in Request /\ Idle.pc = "idle"
BY DEF Idle, Request, Pc

(* What a calm request may rely on. *)
LEMMA CalmFacts ==
  ASSUME Inv, NEW q \in Reqs, Control(q), calm'
  PROVE  calm /\ InUse /\ CalmTier(q) /\ CalmQuota(q)
<1>1. calm
  BY DEF Control
<1>. QED BY <1>1 DEF Inv, TiersInUseExist, InUse, CalmRequests

(* A request arrives. *)
LEMMA BeginStep ==
  ASSUME Inv, NEW q \in Reqs, NEW b \in Request, Begin(q, b)
  PROVE  Changes(q) /\ req'[q] = b /\ Control(q)
<1>0. req \in [Reqs -> Request] /\ made \in 0 .. MaxReqs /\ calm \in BOOLEAN
  BY DEF Inv, TypeOK
<1>1. Changes(q) /\ req'[q] = b
  BY <1>0 DEF Begin, Changes
<1>2. made' \in 0 .. MaxReqs
  BY <1>0 DEF Begin
<1> DEFINE Quiet == \A p \in Reqs : ~Live(p)
<1>3. calm' = (calm /\ Quiet)
  BY DEF Begin
<1>4. calm' \in BOOLEAN
  BY <1>3
<1>5. calm' => calm /\ \A r \in Reqs \ {q} : ~Live(r)
  <2>1. Quiet => \A r \in Reqs \ {q} : ~Live(r)
    OBVIOUS
  <2> HIDE DEF Quiet
  <2>2. calm' => calm /\ Quiet
    BY <1>0, <1>3
  <2>. QED BY <2>1, <2>2
<1>. QED BY <1>1, <1>2, <1>4, <1>5 DEF Control

(* A request goes on. *)
LEMMA MoveStep ==
  ASSUME Inv, NEW q \in Reqs, NEW r \in Request, Move(q, r), Works \/ Fails, Live(q)
  PROVE  Changes(q) /\ req'[q] = r /\ Control(q)
<1>0. req \in [Reqs -> Request] /\ made \in 0 .. MaxReqs /\ calm \in BOOLEAN
  BY DEF Inv, TypeOK
<1>1. Changes(q) /\ req'[q] = r
  BY <1>0 DEF Move, Changes
<1>2. made' \in 0 .. MaxReqs
  BY <1>0 DEF Move
<1>3. calm' \in BOOLEAN /\ (calm' => calm)
  <2>1. calm' = calm \/ calm' = FALSE
    BY DEF Works, Fails
  <2>2. calm' \in BOOLEAN
    BY <1>0, <2>1
  <2>3. calm' => calm
    BY <2>1
  <2>. QED BY <2>2, <2>3
<1>4. calm => \A p \in Reqs \ {q} : ~Live(p)
  BY DEF Inv, Alone
<1>. QED BY <1>1, <1>2, <1>3, <1>4 DEF Control

(* A request is over. *)
LEMMA ReturnStep ==
  ASSUME Inv, NEW q \in Reqs, Return(q), Works \/ Fails, Live(q)
  PROVE  Changes(q) /\ req'[q].pc = "idle" /\ Control(q) /\ RequestOK(q)'
                    /\ CalmTier(q)' /\ CalmQuota(q)'
<1>1. Changes(q) /\ req'[q] = Idle /\ Control(q)
  BY IdleType, MoveStep DEF Return
<1>2. req'[q].pc = "idle"
  BY <1>1, IdleType
<1>. QED
  BY <1>1, <1>2 DEF RequestOK, CalmTier, CalmQuota, PatchPc, PropPc, DeletePc, AssignPc,
     UpsertPc, SyncPc, ReadPc, SpreadPc

(* The fields of a request's record other than pc. *)
Same(q) == /\ req'[q].tier = req[q].tier /\ req'[q].old = req[q].old
           /\ req'[q].repo = req[q].repo /\ req'[q].app = req[q].app
           /\ req'[q].row = req[q].row /\ req'[q].repos = req[q].repos
           /\ req'[q].desired = req[q].desired /\ req'[q].todo = req[q].todo

(* A request goes on to another point of its handler. *)
LEMMA GotoStep ==
  ASSUME Inv, NEW q \in Reqs, NEW pc \in Pc, Goto(q, pc), Works \/ Fails, Live(q)
  PROVE  Changes(q) /\ req'[q].pc = pc /\ Same(q) /\ Control(q)
<1> DEFINE r == [req[q] EXCEPT !.pc = pc]
<1>0. req[q] \in Request
  BY DEF Inv, TypeOK
<1>1. /\ r \in Request /\ r.pc = pc /\ r.tier = req[q].tier /\ r.old = req[q].old
      /\ r.repo = req[q].repo /\ r.app = req[q].app /\ r.row = req[q].row
      /\ r.repos = req[q].repos /\ r.desired = req[q].desired /\ r.todo = req[q].todo
  BY <1>0 DEF Request
<1>2. Move(q, r)
  BY DEF Goto
<1> HIDE DEF r
<1>3. Changes(q) /\ req'[q] = r /\ Control(q)
  BY <1>1, <1>2, MoveStep
<1>. QED BY <1>1, <1>3 DEF Same

(* One request's part of the invariant is enough: a calm step has no other *)
(* request beside it.                                                      *)
LEMMA StepInv ==
  ASSUME Inv, NEW q \in Reqs, Changes(q), Control(q), RequestOK(q)', TablesOK', OneDefault',
         calm' => InUse' /\ CalmTier(q)' /\ CalmQuota(q)'
  PROVE  Inv'
<1>0. req' \in [Reqs -> Request] /\ \A r \in Reqs \ {q} : req'[r] = req[r]
  BY DEF Changes
<1>1. TypeOK'
  BY <1>0 DEF TypeOK, TablesOK, Control
<1>2. Requests'
  BY <1>0 DEF Inv, Requests, RequestOK
<1>3. TiersInUseExist'
  BY DEF TiersInUseExist, InUse
<1>4. ASSUME calm', NEW r \in Reqs, r # q
      PROVE  req'[r].pc = "idle"
  BY <1>0, <1>4 DEF Control, Live
<1>5. Alone'
  BY <1>4 DEF Alone, Live
<1>6. CalmRequests'
  <2>1. SUFFICES ASSUME calm', NEW r \in Reqs
                 PROVE  CalmTier(r)' /\ CalmQuota(r)'
    BY DEF CalmRequests
  <2>2. CASE r = q
    BY <2>1, <2>2
  <2>3. CASE r # q
    BY <1>4, <2>1, <2>3 DEF CalmTier, CalmQuota, DeletePc, PropPc, UpsertPc, ReadPc, SpreadPc
  <2>. QED BY <2>2, <2>3
<1>. QED BY <1>1, <1>2, <1>3, <1>5, <1>6 DEF Inv

(* A step that leaves the tables alone. *)
LEMMA ReadStep ==
  ASSUME Inv, NEW q \in Reqs, Changes(q), Control(q), RequestOK(q)', UNCHANGED Tables,
         calm' => CalmTier(q)' /\ CalmQuota(q)'
  PROVE  Inv'
<1>1. TablesOK' /\ OneDefault'
  BY DEF Inv, TypeOK, TablesOK, OneDefault, Default, Exists, Tables
<1>2. calm' => InUse'
  <2>1. SUFFICES ASSUME calm'
                 PROVE  InUse'
    OBVIOUS
  <2>2. InUse
    BY <2>1, CalmFacts
  <2>. QED BY <2>2 DEF InUse, Default, Exists, Tables
<1>. QED BY <1>1, <1>2, StepInv

-----------------------------------------------------------------------------
(* Requests that arrive and change no table *)

(* A record that a request may begin with. *)
LEMMA BeginRead ==
  ASSUME Inv, NEW q \in Reqs, NEW b \in Request, Begin(q, b), UNCHANGED Tables,
         b.pc \in {"patch_write", "del_count", "def_write", "tier_read", "up_repo", "sy_repo"},
         b.tier \in TierNames,
         b.pc \in {"tier_read", "up_repo", "sy_repo"} => b.repo \in Repos,
         b.pc = "up_repo" => b.app \in Apps /\ b.repo = RepoOf[b.app],
         b.pc = "patch_write" => b.row \in Tier,
         b.pc = "tier_read" => b.old \in TierNames,
         b.pc = "del_count" => ~Default(b.tier),
         b.pc = "def_write" => Exists(b.tier),
         InUse /\ b.pc \in {"up_repo", "sy_repo"} => Exists(b.tier)
  PROVE  Inv'
<1>1. Changes(q) /\ req'[q] = b /\ Control(q)
  BY BeginStep
<1>2. RequestOK(q)'
  BY <1>1 DEF RequestOK, PatchPc, PropPc, DeletePc, AssignPc, UpsertPc, SyncPc, ReadPc, SpreadPc
<1>3. calm' => CalmTier(q)' /\ CalmQuota(q)'
  <2>1. SUFFICES ASSUME calm'
                 PROVE  CalmTier(q)' /\ CalmQuota(q)'
    OBVIOUS
  <2>2. InUse
    BY <1>1, <2>1, CalmFacts
  <2>3. tiers' = tiers
    BY DEF Tables
  <2>4. CalmTier(q)'
    BY <1>1, <2>2, <2>3 DEF CalmTier, Default, Exists, PatchPc, PropPc, DeletePc, AssignPc, UpsertPc, SyncPc, ReadPc, SpreadPc
  <2>5. CalmQuota(q)'
    BY <1>1 DEF CalmQuota, PatchPc, PropPc, DeletePc, AssignPc, UpsertPc, SyncPc, ReadPc, SpreadPc
  <2>. QED BY <2>4, <2>5
<1>. QED BY <1>1, <1>2, <1>3, ReadStep

(* A patch gives a tier. *)
LEMMA PatchedType ==
  ASSUME NEW old \in Tier, NEW m \in MaxApps \cup {0}, NEW l \in Limits \cup {0}
  PROVE  Patched(old, m, l) \in Tier
BY DEF Patched, Tier

(* A PATCH of a tier begins with the row that it read. *)
LEMMA UpdateTierInv ==
  ASSUME Inv, NEW q \in Reqs, NEW t \in TierNames, NEW m \in MaxApps \cup {0},
         NEW l \in Limits \cup {0}, UpdateTier(q, t, m, l)
  PROVE  Inv'
<1> DEFINE w == Patched(tiers[t], m, l)
           b == [Idle EXCEPT !.pc = "patch_write", !.tier = t, !.row = w]
<1>1. tiers[t] \in Tier
  BY DEF UpdateTier, Exists, Inv, TypeOK
<1>2. w \in Tier
  BY <1>1, PatchedType
<1>3. Begin(q, b) /\ UNCHANGED Tables
  BY DEF UpdateTier, Tables
<1> HIDE DEF w
<1>4. b \in Request /\ b.pc = "patch_write" /\ b.tier = t /\ b.row = w
  BY <1>2, IdleType DEF Request, Pc, PatchPc
<1> HIDE DEF b
<1>. QED BY <1>2, <1>3, <1>4, BeginRead

(* A DELETE of a tier begins with nothing changed. *)
LEMMA DeleteTierInv ==
  ASSUME Inv, NEW q \in Reqs, NEW t \in TierNames, DeleteTier(q, t)
  PROVE  Inv'
<1> DEFINE b == [Idle EXCEPT !.pc = "del_count", !.tier = t]
<1>1. Begin(q, b) /\ UNCHANGED Tables /\ ~Default(t)
  BY DEF DeleteTier, Tables, Default
<1>2. b \in Request /\ b.pc = "del_count" /\ b.tier = t
  BY IdleType DEF Request, Pc, DeletePc
<1> HIDE DEF b
<1>. QED BY <1>1, <1>2, BeginRead

(* A change of the default begins with nothing changed. *)
LEMMA SetDefaultTierInv ==
  ASSUME Inv, NEW q \in Reqs, NEW t \in TierNames, SetDefaultTier(q, t)
  PROVE  Inv'
<1> DEFINE b == [Idle EXCEPT !.pc = "def_write", !.tier = t]
<1>1. Begin(q, b) /\ UNCHANGED Tables /\ Exists(t)
  BY DEF SetDefaultTier, Tables
<1>2. b \in Request /\ b.pc = "def_write" /\ b.tier = t
  BY IdleType DEF Request, Pc
<1> HIDE DEF b
<1>. QED BY <1>1, <1>2, BeginRead

(* A change of a repo's tier begins with the tier that the repo has. *)
LEMMA UpdateRepoTierInv ==
  ASSUME Inv, NEW q \in Reqs, NEW r \in Repos, NEW t \in TierNames, UpdateRepoTier(q, r, t)
  PROVE  Inv'
<1> DEFINE o == repoTier[r]
           b == [Idle EXCEPT !.pc = "tier_read", !.repo = r, !.tier = t, !.old = o]
<1>1. Begin(q, b) /\ UNCHANGED Tables /\ o \in TierNames
  BY DEF UpdateRepoTier, Tables, Inv, TypeOK
<1> HIDE DEF o
<1>2. b \in Request /\ b.pc = "tier_read" /\ b.repo = r /\ b.tier = t /\ b.old = o
  BY <1>1, IdleType DEF Request, Pc, AssignPc
<1> HIDE DEF b
<1>. QED BY <1>1, <1>2, BeginRead

(* A deploy begins with the default tier that it read. *)
LEMMA UpsertAppInv ==
  ASSUME Inv, NEW q \in Reqs, NEW a \in Apps, UpsertApp(q, a)
  PROVE  Inv'
<1> DEFINE r == RepoOf[a]
           d == [Idle EXCEPT !.pc = "up_repo", !.repo = r, !.app = a]
           b(name) == [d EXCEPT !.tier = name]
<1>1. UNCHANGED Tables /\ r \in Repos
  BY DEF UpsertApp, Tables
<1>2. PICK name \in TierNames : /\ Begin(q, b(name))
                                /\ Default(name) \/ \A t \in TierNames : ~Default(t)
  BY DEF UpsertApp, ReadDefault
<1> HIDE DEF r
<1>3. d \in Request /\ d.pc = "up_repo" /\ d.repo = r /\ d.app = a
  BY <1>1, IdleType DEF Request, Pc, UpsertPc
<1> HIDE DEF d
<1>4. /\ b(name) \in Request /\ b(name).pc = "up_repo" /\ b(name).repo = r /\ b(name).app = a
      /\ b(name).tier = name
  BY <1>3 DEF Request
<1>5. InUse => Exists(name)
  BY <1>2 DEF InUse, Default
<1> DEFINE c == b(name)
<1>6. Begin(q, c) /\ c \in Request /\ c.pc = "up_repo" /\ c.repo = r /\ c.app = a /\ c.tier = name
  BY <1>2, <1>4
<1>7. r = RepoOf[a]
  BY DEF r
<1> HIDE DEF c
<1>. QED BY <1>1, <1>5, <1>6, <1>7, BeginRead

(* A sync begins with the default tier that it read. *)
LEMMA SyncRepoInv ==
  ASSUME Inv, NEW q \in Reqs, NEW r \in Repos, NEW desired \in SUBSET Apps,
         SyncRepo(q, r, desired)
  PROVE  Inv'
<1> DEFINE d == [Idle EXCEPT !.pc = "sy_repo", !.repo = r, !.desired = desired, !.todo = desired]
           b(name) == [d EXCEPT !.tier = name]
<1>1. UNCHANGED Tables
  BY DEF SyncRepo, Tables
<1>2. PICK name \in TierNames : /\ Begin(q, b(name))
                                /\ Default(name) \/ \A t \in TierNames : ~Default(t)
  BY DEF SyncRepo, ReadDefault
<1>3. d \in Request /\ d.pc = "sy_repo" /\ d.repo = r
  BY IdleType DEF Request, Pc, SyncPc
<1> HIDE DEF d
<1>4. /\ b(name) \in Request /\ b(name).pc = "sy_repo" /\ b(name).repo = r
      /\ b(name).tier = name
  BY <1>3 DEF Request
<1>5. InUse => Exists(name)
  BY <1>2 DEF InUse, Default
<1> DEFINE c == b(name)
<1>6. Begin(q, c) /\ c \in Request /\ c.pc = "sy_repo" /\ c.repo = r /\ c.tier = name
  BY <1>2, <1>4
<1> HIDE DEF c
<1>. QED BY <1>1, <1>5, <1>6, BeginRead

-----------------------------------------------------------------------------
(* Requests that go on and change no table *)

(* A request that ends, or fails, without a change. *)
LEMMA ReturnRead ==
  ASSUME Inv, NEW q \in Reqs, Return(q), Works \/ Fails, Live(q), UNCHANGED Tables
  PROVE  Inv'
BY ReturnStep, ReadStep

(* A failure has nothing to keep of what calm requests know. *)
LEMMA FailedGoto ==
  ASSUME Inv, NEW q \in Reqs, NEW pc \in {"rt_count", "rt_set", "prop_app", "up_insert"},
         Goto(q, pc), Fails, UNCHANGED Tables,
         pc = "rt_count" => req[q].pc = "cur_read",
         pc = "rt_set" => req[q].pc = "rt_count",
         pc = "prop_app" => req[q].pc = "rt_list",
         pc = "up_insert" => req[q].pc \in {"up_app", "up_tier", "up_count"}
  PROVE  Inv'
<1>0. RequestOK(q) /\ Live(q) /\ pc \in Pc
  BY DEF Inv, Requests, Live, Pc, PatchPc, PropPc, DeletePc, AssignPc, UpsertPc,
    SyncPc, ReadPc, SpreadPc
<1>1. Changes(q) /\ req'[q].pc = pc /\ Same(q) /\ Control(q)
  BY <1>0, GotoStep
<1>2. RequestOK(q)'
  BY <1>0, <1>1 DEF RequestOK, Same, PatchPc, PropPc, DeletePc, AssignPc, UpsertPc,
    SyncPc, ReadPc, SpreadPc
<1>3. ~calm'
  BY DEF Fails
<1>. QED BY <1>1, <1>2, <1>3, ReadStep

(* Each repo of the tier is ahead of the propagation. *)
LEMMA PropagateReposInv ==
  ASSUME Inv, NEW q \in Reqs, PropagateRepos(q)
  PROVE  Inv'
<1>0. /\ req[q].pc = "prop_repos" /\ Live(q) /\ UNCHANGED Tables /\ req[q] \in Request
      /\ RequestOK(q) /\ repoTier \in [Repos -> TierNames \cup {None}]
  BY DEF PropagateRepos, At, Live, Tables, Inv, TypeOK, Requests
<1>1. CASE Return(q) /\ Fails
  BY <1>0, <1>1, ReturnRead
<1> DEFINE s == ReposOn(req[q].tier)
           r == [req[q] EXCEPT !.pc = "prop_repo", !.repos = s]
<1>2. CASE Move(q, r) /\ Works
  <2>1. s \in SUBSET Repos
    BY DEF ReposOn
  <2>s. \A x \in Repos : x \in s <=> repoTier[x] = req[q].tier
    BY DEF ReposOn
  <2> HIDE DEF s
  <2>2. /\ r \in Request /\ r.pc = "prop_repo" /\ r.tier = req[q].tier /\ r.row = req[q].row
        /\ r.repo = req[q].repo /\ r.repos = s
    BY <1>0, <2>1 DEF Request, Pc, PropPc
  <2> HIDE DEF r
  <2>3. Changes(q) /\ req'[q] = r /\ Control(q)
    BY <1>0, <1>2, <2>2, MoveStep
  <2>4. RequestOK(q)'
    BY <1>0, <2>2, <2>3 DEF RequestOK, PatchPc, PropPc, DeletePc, AssignPc, UpsertPc,
    SyncPc, ReadPc, SpreadPc
  <2>5. ASSUME calm'
        PROVE  CalmTier(q)' /\ CalmQuota(q)'
    <3>1. CalmTier(q)
      BY <2>3, <2>5, CalmFacts
    <3>2. /\ Exists(req[q].tier) /\ tiers[req[q].tier].limits = req[q].row.limits
      BY <1>0, <3>1 DEF CalmTier, SpreadPc
    <3>3. \A a \in Apps : Concerns(q, a)' => Ahead(q, a)'
      BY <1>0, <2>2, <2>3, <2>s DEF Concerns, Ahead, Tables
    <3>. QED BY <1>0, <2>2, <2>3, <3>2, <3>3 DEF CalmTier, CalmQuota, Exists, Tables, PatchPc, PropPc, DeletePc, AssignPc, UpsertPc,
    SyncPc, ReadPc, SpreadPc
  <2>. QED BY <1>0, <2>3, <2>4, <2>5, ReadStep
<1>. QED BY <1>1, <1>2 DEF PropagateRepos

(* A repo that is taken up has its apps ahead. *)
LEMMA PropagateRepoInv ==
  ASSUME Inv, NEW q \in Reqs, PropagateRepo(q)
  PROVE  Inv'
<1>0. /\ req[q].pc = "prop_repo" /\ Live(q) /\ UNCHANGED Tables /\ req[q] \in Request
      /\ RequestOK(q)
  BY DEF PropagateRepo, At, Live, Tables, Inv, TypeOK, Requests
<1>1. CASE Return(q) /\ Works
  BY <1>0, <1>1, ReturnRead
<1>2. ASSUME NEW p \in req[q].repos,
             Move(q, [req[q] EXCEPT !.pc = "prop_app", !.repos = @ \ {p}, !.todo = ActiveApps(p)]),
             Works
      PROVE  Inv'
  <2> DEFINE s == req[q].repos \ {p}
             u == ActiveApps(p)
             r == [req[q] EXCEPT !.pc = "prop_app", !.repos = s, !.todo = u]
  <2>1. s \in SUBSET Repos /\ u \in SUBSET Apps
    BY <1>0 DEF ActiveApps, Request
  <2>s. /\ \A x : x \in s <=> x \in req[q].repos /\ x # p
        /\ \A a \in Apps : a \in u <=> RepoOf[a] = p /\ app[a] = "active"
    BY DEF ActiveApps
  <2>m. Move(q, r)
    BY <1>2
  <2> HIDE DEF s, u
  <2>2. /\ r \in Request /\ r.pc = "prop_app" /\ r.tier = req[q].tier /\ r.row = req[q].row
        /\ r.repo = req[q].repo /\ r.repos = s /\ r.todo = u
    BY <1>0, <2>1 DEF Request, Pc, PropPc
  <2> HIDE DEF r
  <2>3. Changes(q) /\ req'[q] = r /\ Control(q)
    BY <1>0, <1>2, <2>m, <2>2, MoveStep
  <2>4. RequestOK(q)'
    BY <1>0, <2>2, <2>3 DEF RequestOK, PatchPc, PropPc, DeletePc, AssignPc, UpsertPc,
    SyncPc, ReadPc, SpreadPc
  <2>5. ASSUME calm'
        PROVE  CalmTier(q)' /\ CalmQuota(q)'
    <3>1. CalmTier(q)
      BY <2>3, <2>5, CalmFacts
    <3>2. /\ Exists(req[q].tier) /\ tiers[req[q].tier].limits = req[q].row.limits
          /\ \A a \in Apps : Concerns(q, a) => ns[a] = req[q].row.limits \/ Ahead(q, a)
      BY <1>0, <3>1 DEF CalmTier, SpreadPc, PropPc
    <3>3. \A a \in Apps : Concerns(q, a)' => ns'[a] = r.row.limits \/ Ahead(q, a)'
      BY <1>0, <2>2, <2>3, <2>s, <3>2 DEF Concerns, Ahead, Tables
    <3>. QED BY <1>0, <2>2, <2>3, <3>2, <3>3 DEF CalmTier, CalmQuota, Exists, Tables, PatchPc, PropPc, DeletePc, AssignPc, UpsertPc,
    SyncPc, ReadPc, SpreadPc
  <2>. QED BY <1>0, <2>3, <2>4, <2>5, ReadStep
<1>3. ASSUME NEW p \in req[q].repos, Move(q, [req[q] EXCEPT !.repos = @ \ {p}]), Fails
      PROVE  Inv'
  <2> DEFINE s == req[q].repos \ {p}
             r == [req[q] EXCEPT !.repos = s]
  <2>1. s \in SUBSET Repos
    BY <1>0 DEF Request
  <2>m. Move(q, r)
    BY <1>3
  <2> HIDE DEF s
  <2>2. r \in Request /\ r.pc = "prop_repo" /\ r.tier = req[q].tier /\ r.row = req[q].row
    BY <1>0, <2>1 DEF Request
  <2> HIDE DEF r
  <2>3. Changes(q) /\ req'[q] = r /\ Control(q)
    BY <1>0, <1>3, <2>m, <2>2, MoveStep
  <2>4. RequestOK(q)'
    BY <1>0, <2>2, <2>3 DEF RequestOK, PatchPc, PropPc, DeletePc, AssignPc, UpsertPc,
    SyncPc, ReadPc, SpreadPc
  <2>5. ~calm'
    BY <1>3 DEF Fails
  <2>. QED BY <1>0, <2>3, <2>4, <2>5, ReadStep
<1>. QED BY <1>1, <1>2, <1>3 DEF PropagateRepo

(* A tier is deleted only if no repo was counted on it. *)
LEMMA CountReposInv ==
  ASSUME Inv, NEW q \in Reqs, CountReposByTier(q)
  PROVE  Inv'
<1>0. /\ req[q].pc = "del_count" /\ Live(q) /\ UNCHANGED Tables /\ RequestOK(q)
  BY DEF CountReposByTier, At, Live, Tables, Inv, Requests
<1>1. CASE Return(q)
  BY <1>0, <1>1, ReturnRead DEF CountReposByTier
<1>2. CASE ReposOn(req[q].tier) = {} /\ Goto(q, "del_exec")
  <2>1. Changes(q) /\ req'[q].pc = "del_exec" /\ Same(q) /\ Control(q)
    BY <1>0, <1>2, GotoStep DEF CountReposByTier, Pc, DeletePc
  <2>2. RequestOK(q)'
    BY <1>0, <2>1 DEF RequestOK, Same, PatchPc, PropPc, DeletePc, AssignPc, UpsertPc,
    SyncPc, ReadPc, SpreadPc
  <2>3. ASSUME calm'
        PROVE  CalmTier(q)' /\ CalmQuota(q)'
    <3>1. CalmTier(q)
      BY <2>1, <2>3, CalmFacts
    <3>2. ~Default(req[q].tier)
      BY <1>0, <3>1 DEF CalmTier, DeletePc
    <3>3. CalmTier(q)'
      BY <1>0, <1>2, <2>1, <3>2 DEF CalmTier, Same, Default, Exists, ReposOn, Tables, PatchPc, PropPc, DeletePc, AssignPc, UpsertPc,
    SyncPc, ReadPc, SpreadPc
    <3>. QED BY <2>1, <3>3 DEF CalmQuota, UpsertPc
  <2>. QED BY <1>0, <2>1, <2>2, <2>3, ReadStep
<1>. QED BY <1>1, <1>2 DEF CountReposByTier

(* The new tier is as it was read. *)
LEMMA GetNewTierInv ==
  ASSUME Inv, NEW q \in Reqs, GetNewTier(q)
  PROVE  Inv'
<1>0. /\ req[q].pc = "tier_read" /\ Live(q) /\ UNCHANGED Tables /\ req[q] \in Request
      /\ RequestOK(q) /\ tiers \in [TierNames -> Tier \cup {None}] /\ Works
  BY DEF GetNewTier, At, Live, Tables, Inv, TypeOK, Requests
<1>1. CASE Return(q)
  BY <1>0, <1>1, ReturnRead
<1> DEFINE w == tiers[req[q].tier]
           r == [req[q] EXCEPT !.pc = "cur_read", !.row = w]
<1>2. CASE Exists(req[q].tier) /\ Move(q, r)
  <2>1. w \in Tier /\ w = tiers[req[q].tier]
    BY <1>0, <1>2 DEF Exists, RequestOK
  <2> HIDE DEF w
  <2>2. /\ r \in Request /\ r.pc = "cur_read" /\ r.tier = req[q].tier /\ r.row = w
        /\ r.repo = req[q].repo /\ r.old = req[q].old
    BY <1>0, <2>1 DEF Request, Pc, AssignPc
  <2> HIDE DEF r
  <2>3. Changes(q) /\ req'[q] = r /\ Control(q)
    BY <1>0, <1>2, <2>2, MoveStep
  <2>4. RequestOK(q)'
    BY <1>0, <2>1, <2>2, <2>3 DEF RequestOK, PatchPc, PropPc, DeletePc, AssignPc, UpsertPc,
    SyncPc, ReadPc, SpreadPc
  <2>5. CalmTier(q)' /\ CalmQuota(q)'
    BY <1>0, <1>2, <2>1, <2>2, <2>3 DEF CalmTier, CalmQuota, Exists, Tables, PatchPc, PropPc, DeletePc, AssignPc, UpsertPc,
    SyncPc, ReadPc, SpreadPc
  <2>. QED BY <1>0, <2>3, <2>4, <2>5, ReadStep
<1>. QED BY <1>1, <1>2 DEF GetNewTier

(* The request goes on with the tier that it read. *)
LEMMA AssignGoto ==
  ASSUME Inv, NEW q \in Reqs, NEW pc \in {"rt_count", "rt_set"}, Goto(q, pc), Works,
         req[q].pc \in {"cur_read", "rt_count"}, UNCHANGED Tables
  PROVE  Inv'
<1>0. RequestOK(q) /\ Live(q) /\ pc \in Pc
  BY DEF Inv, Requests, Live, Pc, AssignPc
<1>1. Changes(q) /\ req'[q].pc = pc /\ Same(q) /\ Control(q)
  BY <1>0, GotoStep
<1>2. RequestOK(q)'
  BY <1>0, <1>1 DEF RequestOK, Same, PatchPc, PropPc, DeletePc, AssignPc, UpsertPc,
    SyncPc, ReadPc, SpreadPc
<1>3. ASSUME calm'
      PROVE  CalmTier(q)' /\ CalmQuota(q)'
  <2>1. CalmTier(q)
    BY <1>1, <1>3, CalmFacts
  <2>2. Exists(req[q].tier) /\ tiers[req[q].tier].limits = req[q].row.limits
    BY <2>1 DEF CalmTier, ReadPc
  <2>. QED BY <1>1, <2>2 DEF CalmTier, CalmQuota, Same, Exists, Tables, PatchPc, PropPc, DeletePc, AssignPc, UpsertPc,
    SyncPc, ReadPc, SpreadPc
<1>. QED BY <1>1, <1>2, <1>3, ReadStep

(* The quota of the old tier is only read. *)
LEMMA CurrentMaxAppsInv ==
  ASSUME Inv, NEW q \in Reqs, CurrentMaxApps(q)
  PROVE  Inv'
<1>0. req[q].pc = "cur_read" /\ UNCHANGED Tables
  BY DEF CurrentMaxApps, At, Tables
<1>1. \/ Works /\ (Goto(q, "rt_set") \/ Goto(q, "rt_count"))
      \/ Fails /\ Goto(q, "rt_count")
  BY DEF CurrentMaxApps
<1>. QED BY <1>0, <1>1, AssignGoto, FailedGoto

(* The number of apps is only read. *)
LEMMA DemotionGuardInv ==
  ASSUME Inv, NEW q \in Reqs, DemotionGuard(q)
  PROVE  Inv'
<1>0. req[q].pc = "rt_count" /\ UNCHANGED Tables /\ Live(q)
  BY DEF DemotionGuard, At, Tables, Live
<1>1. \/ Works /\ (Goto(q, "rt_set") \/ Return(q))
      \/ Fails /\ Goto(q, "rt_set")
  BY DEF DemotionGuard
<1>. QED BY <1>0, <1>1, AssignGoto, FailedGoto, ReturnRead

(* Every app of the repo is ahead of the propagation. *)
LEMMA ListRepoAppsInv ==
  ASSUME Inv, NEW q \in Reqs, ListRepoApps(q)
  PROVE  Inv'
<1>0. /\ req[q].pc = "rt_list" /\ Live(q) /\ UNCHANGED Tables /\ req[q] \in Request
      /\ RequestOK(q)
  BY DEF ListRepoApps, At, Live, Tables, Inv, TypeOK, Requests
<1>1. CASE Goto(q, "prop_app") /\ Fails
  BY <1>0, <1>1, FailedGoto
<1> DEFINE u == ActiveApps(req[q].repo)
           r == [req[q] EXCEPT !.pc = "prop_app", !.todo = u]
<1>2. CASE Move(q, r) /\ Works
  <2>1. u \in SUBSET Apps
    BY DEF ActiveApps
  <2>s. \A a \in Apps : a \in u <=> RepoOf[a] = req[q].repo /\ app[a] = "active"
    BY DEF ActiveApps
  <2> HIDE DEF u
  <2>2. /\ r \in Request /\ r.pc = "prop_app" /\ r.tier = req[q].tier /\ r.row = req[q].row
        /\ r.repo = req[q].repo /\ r.todo = u
    BY <1>0, <2>1 DEF Request, Pc, PropPc
  <2> HIDE DEF r
  <2>3. Changes(q) /\ req'[q] = r /\ Control(q)
    BY <1>0, <1>2, <2>2, MoveStep
  <2>4. RequestOK(q)' /\ req[q].repo \in Repos
    BY <1>0, <2>2, <2>3 DEF RequestOK, PatchPc, PropPc, DeletePc, AssignPc, UpsertPc,
    SyncPc, ReadPc, SpreadPc
  <2>5. ASSUME calm'
        PROVE  CalmTier(q)' /\ CalmQuota(q)'
    <3>1. CalmTier(q)
      BY <2>3, <2>5, CalmFacts
    <3>2. /\ Exists(req[q].tier) /\ tiers[req[q].tier].limits = req[q].row.limits
      BY <1>0, <3>1 DEF CalmTier, ReadPc
    <3>3. \A a \in Apps : Concerns(q, a)' => Ahead(q, a)'
      BY <1>0, <2>2, <2>3, <2>4, <2>s DEF Concerns, Ahead, Tables
    <3>. QED BY <1>0, <2>2, <2>3, <3>2, <3>3 DEF CalmTier, CalmQuota, Exists, Tables, PatchPc, PropPc, DeletePc, AssignPc, UpsertPc,
    SyncPc, ReadPc, SpreadPc
  <2>. QED BY <1>0, <2>3, <2>4, <2>5, ReadStep
<1>. QED BY <1>1, <1>2 DEF ListRepoApps

(* The fallback is a tier's name, if nothing more. *)
LEMMA DefaultUnreadInv ==
  ASSUME Inv, NEW q \in Reqs, DefaultUnread(q)
  PROVE  Inv'
<1>0. /\ req[q].pc \in {"up_repo", "sy_repo"} /\ Live(q) /\ UNCHANGED Tables
      /\ req[q] \in Request /\ RequestOK(q)
  BY DEF DefaultUnread, Live, Tables, Inv, TypeOK, Requests
<1> DEFINE r == [req[q] EXCEPT !.tier = Fallback]
<1>1. Move(q, r) /\ Fails
  BY DEF DefaultUnread
<1>2. /\ r \in Request /\ r.pc = req[q].pc /\ r.tier = Fallback /\ r.repo = req[q].repo
      /\ r.app = req[q].app
  BY <1>0 DEF Request
<1> HIDE DEF r
<1>3. Changes(q) /\ req'[q] = r /\ Control(q)
  BY <1>0, <1>1, <1>2, MoveStep
<1>4. RequestOK(q)'
  BY <1>0, <1>2, <1>3 DEF RequestOK, PatchPc, PropPc, DeletePc, AssignPc, UpsertPc,
    SyncPc, ReadPc, SpreadPc
<1>5. ~calm'
  BY <1>1 DEF Fails
<1>. QED BY <1>0, <1>3, <1>4, <1>5, ReadStep

(* GetApp decides whether there is a quota to keep. *)
LEMMA GetAppRowInv ==
  ASSUME Inv, NEW q \in Reqs, GetAppRow(q)
  PROVE  Inv'
<1>0. /\ req[q].pc = "up_app" /\ Live(q) /\ UNCHANGED Tables /\ RequestOK(q)
  BY DEF GetAppRow, At, Live, Tables, Inv, Requests
<1>1. CASE Goto(q, "up_insert") /\ Fails
  BY <1>0, <1>1, FailedGoto
<1>2. ASSUME NEW pc \in {"up_tier", "up_insert"}, Goto(q, pc), Works,
             pc = "up_tier" <=> app[req[q].app] = "absent"
      PROVE  Inv'
  <2>1. Changes(q) /\ req'[q].pc = pc /\ Same(q) /\ Control(q)
    BY <1>0, <1>2, GotoStep DEF Pc, UpsertPc
  <2>2. RequestOK(q)'
    BY <1>0, <2>1 DEF RequestOK, Same, PatchPc, PropPc, DeletePc, AssignPc, UpsertPc,
    SyncPc, ReadPc, SpreadPc
  <2>3. ASSUME calm'
        PROVE  CalmTier(q)' /\ CalmQuota(q)'
    <3>1. CalmQuota(q)
      BY <2>1, <2>3, CalmFacts
    <3>2. req[q].repo = RepoOf[req[q].app] /\ req[q].tier = repoTier[req[q].repo]
      BY <1>0, <3>1 DEF CalmQuota, UpsertPc
    <3>. QED BY <1>0, <1>2, <2>1, <3>2 DEF CalmTier, CalmQuota, Same, Tables, PatchPc, PropPc, DeletePc, AssignPc, UpsertPc,
    SyncPc, ReadPc, SpreadPc
  <2>. QED BY <1>0, <2>1, <2>2, <2>3, ReadStep
<1>. QED BY <1>1, <1>2 DEF GetAppRow

(* The quota that is checked is the one of the repo's tier. *)
LEMMA GetQuotaTierInv ==
  ASSUME Inv, NEW q \in Reqs, GetQuotaTier(q)
  PROVE  Inv'
<1>0. /\ req[q].pc = "up_tier" /\ Live(q) /\ UNCHANGED Tables /\ req[q] \in Request
      /\ RequestOK(q) /\ tiers \in [TierNames -> Tier \cup {None}]
  BY DEF GetQuotaTier, At, Live, Tables, Inv, TypeOK, Requests
<1>1. CASE Goto(q, "up_insert") /\ Fails
  BY <1>0, <1>1, FailedGoto
<1> DEFINE w == tiers[req[q].tier]
           r == [req[q] EXCEPT !.pc = "up_count", !.row = w]
<1>2. CASE Exists(req[q].tier) /\ Move(q, r) /\ Works
  <2>1. w \in Tier /\ w = tiers[req[q].tier]
    BY <1>0, <1>2 DEF Exists, RequestOK
  <2> HIDE DEF w
  <2>2. /\ r \in Request /\ r.pc = "up_count" /\ r.tier = req[q].tier /\ r.row = w
        /\ r.repo = req[q].repo /\ r.app = req[q].app
    BY <1>0, <2>1 DEF Request, Pc, UpsertPc
  <2> HIDE DEF r
  <2>3. Changes(q) /\ req'[q] = r /\ Control(q)
    BY <1>0, <1>2, <2>2, MoveStep
  <2>4. RequestOK(q)'
    BY <1>0, <2>1, <2>2, <2>3 DEF RequestOK, PatchPc, PropPc, DeletePc, AssignPc, UpsertPc,
    SyncPc, ReadPc, SpreadPc
  <2>5. ASSUME calm'
        PROVE  CalmTier(q)' /\ CalmQuota(q)'
    <3>1. CalmQuota(q)
      BY <2>3, <2>5, CalmFacts
    <3>2. /\ req[q].repo = RepoOf[req[q].app] /\ req[q].tier = repoTier[req[q].repo]
          /\ app[req[q].app] = "absent"
      BY <1>0, <3>1 DEF CalmQuota, UpsertPc
    <3>. QED BY <1>0, <2>1, <2>2, <2>3, <3>2 DEF CalmTier, CalmQuota, Tables, PatchPc, PropPc, DeletePc, AssignPc, UpsertPc,
    SyncPc, ReadPc, SpreadPc
  <2>. QED BY <1>0, <2>3, <2>4, <2>5, ReadStep
<1>3. CASE ~Exists(req[q].tier) /\ Goto(q, "up_insert") /\ Works
  <2>1. Changes(q) /\ req'[q].pc = "up_insert" /\ Same(q) /\ Control(q)
    BY <1>0, <1>3, GotoStep DEF Pc, UpsertPc
  <2>2. RequestOK(q)' /\ req[q].repo \in Repos /\ req[q].tier \in TierNames
    BY <1>0, <2>1 DEF RequestOK, Same, PatchPc, PropPc, DeletePc, AssignPc, UpsertPc,
    SyncPc, ReadPc, SpreadPc
  <2>3. ~calm'
    <3>1. SUFFICES ASSUME calm'
                   PROVE  FALSE
      OBVIOUS
    <3>2. CalmQuota(q) /\ InUse
      BY <2>1, <3>1, CalmFacts
    <3>3. req[q].tier = repoTier[req[q].repo]
      BY <1>0, <3>2 DEF CalmQuota, UpsertPc
    <3>. QED BY <1>3, <2>2, <3>2, <3>3 DEF InUse
  <2>. QED BY <1>0, <2>1, <2>2, <2>3, ReadStep
<1>. QED BY <1>1, <1>2, <1>3 DEF GetQuotaTier

(* The count leaves room for the app. *)
LEMMA CheckQuotaInv ==
  ASSUME Inv, NEW q \in Reqs, CheckQuota(q)
  PROVE  Inv'
<1>0. /\ req[q].pc = "up_count" /\ Live(q) /\ UNCHANGED Tables /\ RequestOK(q)
  BY DEF CheckQuota, At, Live, Tables, Inv, Requests
<1>1. CASE Goto(q, "up_insert") /\ Fails
  BY <1>0, <1>1, FailedGoto
<1>2. CASE Return(q) /\ Works
  BY <1>0, <1>2, ReturnRead
<1>3. CASE ~AtQuota(CountAppsByRepo(req[q].repo), req[q].row) /\ Goto(q, "up_insert") /\ Works
  <2>1. Changes(q) /\ req'[q].pc = "up_insert" /\ Same(q) /\ Control(q)
    BY <1>0, <1>3, GotoStep DEF Pc, UpsertPc
  <2>2. RequestOK(q)' /\ req[q].row \in Tier
    BY <1>0, <2>1 DEF RequestOK, Same, PatchPc, PropPc, DeletePc, AssignPc, UpsertPc,
    SyncPc, ReadPc, SpreadPc
  <2>3. CountAppsByRepo(req[q].repo) < req[q].row.max_apps
    <3>1. CountAppsByRepo(req[q].repo) \in Nat
      <4>1. IsFiniteSet(ActiveApps(req[q].repo))
        BY FS_Subset DEF ActiveApps
      <4>. QED BY <4>1, FS_CardinalityType DEF CountAppsByRepo
    <3>2. req[q].row.max_apps \in Nat
      BY <2>2 DEF Tier
    <3>. QED BY <1>3, <3>1, <3>2 DEF AtQuota
  <2>4. ASSUME calm'
        PROVE  CalmTier(q)' /\ CalmQuota(q)'
    <3>1. CalmQuota(q)
      BY <2>1, <2>4, CalmFacts
    <3>2. /\ req[q].repo = RepoOf[req[q].app] /\ req[q].tier = repoTier[req[q].repo]
          /\ app[req[q].app] = "absent" /\ req[q].row = tiers[req[q].tier]
      BY <1>0, <3>1 DEF CalmQuota, UpsertPc
    <3>3. CountAppsByRepo(req[q].repo)' = CountAppsByRepo(req[q].repo)
      BY <1>0, <2>1 DEF CountAppsByRepo, ActiveApps, Tables, Same
    <3>4. CalmTier(q)'
      BY <2>1 DEF CalmTier, PatchPc, PropPc, DeletePc, AssignPc, UpsertPc,
    SyncPc, ReadPc, SpreadPc
    <3>5. CalmQuota(q)'
      BY <1>0, <2>1, <2>3, <3>2, <3>3 DEF CalmQuota, Same, Tables, PatchPc, PropPc, DeletePc, AssignPc, UpsertPc,
    SyncPc, ReadPc, SpreadPc
    <3>. QED BY <3>4, <3>5
  <2>. QED BY <1>0, <2>1, <2>2, <2>4, ReadStep
<1>. QED BY <1>1, <1>2, <1>3 DEF CheckQuota

(* A statement that fails changes nothing. *)
LEMMA RequestFailsInv ==
  ASSUME Inv, NEW q \in Reqs, RequestFails(q)
  PROVE  Inv'
BY ReturnRead DEF RequestFails, Live, Tables

-----------------------------------------------------------------------------
(* Requests that write tiers *)

(* A row of the tiers table is written; the others stay. *)
Writes(t, w) ==
  /\ tiers' \in [TierNames -> Tier \cup {None}] /\ tiers'[t] = w
  /\ \A u \in TierNames \ {t} : tiers'[u] = tiers[u]

(* A row that keeps is_default keeps the default. *)
LEMMA WritesDefault ==
  ASSUME Inv, NEW t \in TierNames, NEW w \in Tier, Writes(t, w), UNCHANGED <<repoTier, app, ns>>,
         IF Exists(t) THEN w.is_default = tiers[t].is_default ELSE w.is_default = FALSE
  PROVE  TablesOK' /\ OneDefault' /\ (InUse => InUse')
<1>0. tiers \in [TierNames -> Tier \cup {None}] /\ OneDefault /\ w # None
  BY DEF Inv, TypeOK
<1>1. TablesOK'
  BY DEF Inv, TypeOK, TablesOK, Writes
<1>2. \A u \in TierNames : Default(u)' => Default(u)
  BY <1>0 DEF Writes, Default, Exists
<1>3. \A u \in TierNames : Default(u) => Default(u)'
  BY <1>0 DEF Writes, Default, Exists
<1>4. \A u \in TierNames : Exists(u) => Exists(u)'
  BY <1>0 DEF Writes, Exists
<1>5. OneDefault'
  BY <1>0, <1>2 DEF OneDefault
<1>6. InUse => InUse'
  BY <1>3, <1>4 DEF InUse, Inv, TypeOK
<1>. QED BY <1>1, <1>5, <1>6

(* A new tier is not the default, and no repo has it yet. *)
LEMMA CreateTierInv ==
  ASSUME Inv, NEW q \in Reqs, NEW t \in TierNames, NEW m \in MaxApps, NEW l \in Limits,
         CreateTier(q, t, m, l)
  PROVE  Inv'
<1> DEFINE w == [max_apps |-> m, limits |-> l, is_default |-> FALSE]
<1>1. ~Exists(t) /\ tiers' = [tiers EXCEPT ![t] = w] /\ Begin(q, Idle)
      /\ UNCHANGED <<repoTier, app, ns>>
  BY DEF CreateTier
<1>2. w \in Tier /\ w.is_default = FALSE
  BY DEF Tier
<1> HIDE DEF w
<1>3. Writes(t, w)
  BY <1>1, <1>2 DEF Writes, Inv, TypeOK
<1>4. TablesOK' /\ OneDefault' /\ (InUse => InUse')
  BY <1>1, <1>2, <1>3, WritesDefault
<1>5. Changes(q) /\ req'[q] = Idle /\ Control(q)
  BY <1>1, IdleType, BeginStep
<1>6. req'[q].pc = "idle"
  BY <1>5, IdleType
<1>7. RequestOK(q)' /\ CalmTier(q)' /\ CalmQuota(q)'
  BY <1>6 DEF RequestOK, CalmTier, CalmQuota, PatchPc, PropPc, DeletePc, AssignPc, UpsertPc,
    SyncPc, ReadPc, SpreadPc
<1>8. calm' => InUse
  BY <1>5, CalmFacts
<1>. QED BY <1>4, <1>5, <1>7, <1>8, StepInv

(* The row has the limits that will be propagated. *)
LEMMA PatchTierWriteInv ==
  ASSUME Inv, NEW q \in Reqs, PatchTierWrite(q)
  PROVE  Inv'
<1>0. /\ req[q].pc = "patch_write" /\ Live(q) /\ Works /\ RequestOK(q)
      /\ UNCHANGED <<repoTier, app, ns>> /\ tiers \in [TierNames -> Tier \cup {None}]
  BY DEF PatchTierWrite, At, Live, Inv, TypeOK, Requests
<1>1. CASE Return(q) /\ UNCHANGED tiers
  BY <1>0, <1>1, ReturnRead DEF Tables
<1> DEFINE t == req[q].tier
           v == tiers[t]
           x == req[q].row.max_apps
           y == req[q].row.limits
           w == [v EXCEPT !.max_apps = x, !.limits = y]
<1>2. CASE Exists(t) /\ Goto(q, "prop_repos")
           /\ tiers' = [tiers EXCEPT ![t].max_apps = x, ![t].limits = y]
  <2>1. t \in TierNames /\ v \in Tier /\ x \in MaxApps /\ y \in Limits /\ t = req[q].tier
        /\ v = tiers[t] /\ y = req[q].row.limits
    BY <1>0, <1>2 DEF RequestOK, Exists, PatchPc, Tier
  <2>2. tiers' = [tiers EXCEPT ![t] = w]
    <3> HIDE DEF t, x, y
    <3>. QED BY <1>0, <1>2, <2>1
  <2> HIDE DEF t, v, x, y
  <2>3. w \in Tier /\ w.limits = y /\ w.is_default = v.is_default
    BY <2>1 DEF Tier
  <2> HIDE DEF w
  <2>4. Writes(t, w)
    BY <1>0, <2>1, <2>2, <2>3 DEF Writes
  <2>5. TablesOK' /\ OneDefault' /\ (InUse => InUse')
    BY <1>0, <1>2, <2>1, <2>3, <2>4, WritesDefault
  <2>6. Changes(q) /\ req'[q].pc = "prop_repos" /\ Same(q) /\ Control(q)
    BY <1>0, <1>2, GotoStep DEF Pc, PatchPc
  <2>7. RequestOK(q)'
    BY <1>0, <2>6 DEF RequestOK, Same, PatchPc, PropPc, DeletePc, AssignPc, UpsertPc,
    SyncPc, ReadPc, SpreadPc
  <2>8. tiers'[t] # None /\ tiers'[t].limits = req[q].row.limits
    BY <2>1, <2>3, <2>4 DEF Writes
  <2>9. CalmTier(q)' /\ CalmQuota(q)'
    BY <2>1, <2>6, <2>8 DEF CalmTier, CalmQuota, Ahead, Same, Exists, PatchPc, PropPc, DeletePc, AssignPc, UpsertPc,
    SyncPc, ReadPc, SpreadPc
  <2>10. calm' => InUse
    BY <2>6, CalmFacts
  <2>. QED BY <2>5, <2>6, <2>7, <2>9, <2>10, StepInv
<1>. QED BY <1>0, <1>1, <1>2 DEF PatchTierWrite

(* The tier that goes is neither the default nor any repo's. *)
LEMMA DeleteTierRowInv ==
  ASSUME Inv, NEW q \in Reqs, DeleteTierRow(q)
  PROVE  Inv'
<1>0. /\ req[q].pc = "del_exec" /\ Live(q) /\ Works /\ RequestOK(q) /\ Return(q)
      /\ UNCHANGED <<repoTier, app, ns>> /\ tiers \in [TierNames -> Tier \cup {None}]
      /\ tiers' = [tiers EXCEPT ![req[q].tier] = None] /\ OneDefault
  BY DEF DeleteTierRow, At, Live, Inv, TypeOK, Requests
<1>1. req[q].tier \in TierNames
  BY <1>0 DEF RequestOK
<1>2. /\ tiers' \in [TierNames -> Tier \cup {None}] /\ tiers'[req[q].tier] = None
      /\ \A u \in TierNames \ {req[q].tier} : tiers'[u] = tiers[u]
  BY <1>0, <1>1
<1>3. TablesOK'
  BY <1>0, <1>2 DEF Inv, TypeOK, TablesOK
<1>4. OneDefault'
  BY <1>0, <1>2 DEF OneDefault, Default, Exists
<1>5. /\ Changes(q) /\ Control(q) /\ RequestOK(q)' /\ CalmTier(q)' /\ CalmQuota(q)'
  BY <1>0, ReturnStep
<1>6. ASSUME calm'
      PROVE  InUse'
  <2>1. InUse /\ CalmTier(q)
    BY <1>5, <1>6, CalmFacts
  <2>2. ~Default(req[q].tier) /\ ReposOn(req[q].tier) = {}
    BY <1>0, <2>1 DEF CalmTier, DeletePc
  <2>3. \A r \in Repos : repoTier[r] # req[q].tier
    BY <2>2 DEF ReposOn
  <2>4. \A u \in TierNames : Default(u) => Default(u)'
    BY <1>2, <2>2 DEF Default, Exists
  <2>5. \A r \in Repos : repoTier'[r] # None => Exists(repoTier[r])'
    BY <1>0, <1>2, <2>1, <2>3 DEF InUse, Exists, Inv, TypeOK
  <2>. QED BY <2>1, <2>4, <2>5 DEF InUse
<1>. QED BY <1>3, <1>4, <1>5, <1>6, StepInv

(* One UPDATE makes the tier the default and no other. *)
LEMMA SetDefaultRowsInv ==
  ASSUME Inv, NEW q \in Reqs, SetDefaultTierRows(q)
  PROVE  Inv'
<1>0. /\ req[q].pc = "def_write" /\ Live(q) /\ Works /\ RequestOK(q) /\ Return(q)
      /\ UNCHANGED <<repoTier, app, ns>> /\ tiers \in [TierNames -> Tier \cup {None}]
      /\ tiers' = [t \in TierNames |->
                     IF Exists(t) THEN [tiers[t] EXCEPT !.is_default = (t = req[q].tier)]
                                  ELSE None]
  BY DEF SetDefaultTierRows, At, Live, Inv, TypeOK, Requests
<1>1. req[q].tier \in TierNames
  BY <1>0 DEF RequestOK
<1>2. ASSUME NEW t \in TierNames
      PROVE  /\ tiers'[t] \in Tier \cup {None} /\ (tiers'[t] = None <=> tiers[t] = None)
             /\ tiers'[t] # None => (tiers'[t].is_default <=> t = req[q].tier)
  <2>1. CASE Exists(t)
    <3> DEFINE v == tiers[t]
               d == (t = req[q].tier)
               w == [v EXCEPT !.is_default = d]
    <3>1. tiers'[t] = w /\ v \in Tier /\ d \in BOOLEAN /\ v = tiers[t]
      BY <1>0, <2>1 DEF Exists
    <3> HIDE DEF v
    <3>2. w \in Tier /\ w.is_default = d
      <4> HIDE DEF d
      <4>. QED BY <3>1 DEF Tier
    <3> HIDE DEF w
    <3>. QED BY <2>1, <3>1, <3>2 DEF Exists
  <2>2. CASE ~Exists(t)
    BY <1>0, <2>2 DEF Exists
  <2>. QED BY <2>1, <2>2
<1>3. tiers' \in [TierNames -> Tier \cup {None}]
  <2>1. DOMAIN tiers' = TierNames /\ tiers' = [t \in TierNames |-> tiers'[t]]
    BY <1>0
  <2>. QED BY <1>2, <2>1
<1>4. TablesOK'
  BY <1>0, <1>3 DEF Inv, TypeOK, TablesOK
<1>5. \A t \in TierNames : Default(t)' => t = req[q].tier
  BY <1>2 DEF Default, Exists
<1>6. OneDefault'
  BY <1>5 DEF OneDefault
<1>7. /\ Changes(q) /\ Control(q) /\ RequestOK(q)' /\ CalmTier(q)' /\ CalmQuota(q)'
  BY <1>0, ReturnStep
<1>8. ASSUME calm'
      PROVE  InUse'
  <2>1. InUse /\ CalmTier(q)
    BY <1>7, <1>8, CalmFacts
  <2>2. Exists(req[q].tier)
    BY <1>0, <2>1 DEF CalmTier
  <2>3. \E t \in TierNames : tiers'[t] # None /\ tiers'[t].is_default
    BY <1>1, <1>2, <2>2 DEF Exists
  <2>4. \A r \in Repos : repoTier'[r] # None => tiers'[repoTier'[r]] # None
    BY <1>0, <1>2, <2>1 DEF InUse, Exists, Inv, TypeOK
  <2>. QED BY <2>3, <2>4 DEF InUse, Default, Exists
<1>. QED BY <1>4, <1>6, <1>7, <1>8, StepInv

-----------------------------------------------------------------------------
(* Requests that write repos, apps and namespaces *)

(* A step that leaves tiers and repos alone. *)
LEMMA AppWriteStep ==
  ASSUME Inv, NEW q \in Reqs, Changes(q), Control(q), RequestOK(q)', UNCHANGED <<tiers, repoTier>>,
         app' \in [Apps -> {"absent", "active", "pending"}], ns' \in [Apps -> Limits \cup {None}],
         calm' => CalmTier(q)' /\ CalmQuota(q)'
  PROVE  Inv'
<1>1. TablesOK' /\ OneDefault'
  BY DEF Inv, TypeOK, TablesOK, OneDefault, Default, Exists
<1>2. calm' => InUse'
  <2>1. SUFFICES ASSUME calm'
                 PROVE  InUse'
    OBVIOUS
  <2>2. InUse
    BY <2>1, CalmFacts
  <2>. QED BY <2>2 DEF InUse, Default, Exists
<1>. QED BY <1>1, <1>2, StepInv

(* A repo moves to a tier that exists. *)
LEMMA SetRepoTierInv ==
  ASSUME Inv, NEW q \in Reqs, SetRepoTier(q)
  PROVE  Inv'
<1>0. /\ req[q].pc = "rt_set" /\ Live(q) /\ Works /\ RequestOK(q) /\ Goto(q, "rt_list")
      /\ UNCHANGED <<tiers, app, ns>> /\ repoTier \in [Repos -> TierNames \cup {None}]
      /\ repoTier' = [repoTier EXCEPT ![req[q].repo] = req[q].tier]
  BY DEF SetRepoTier, At, Live, Inv, TypeOK, Requests
<1>1. req[q].tier \in TierNames /\ req[q].repo \in Repos
  BY <1>0 DEF RequestOK, AssignPc
<1>2. /\ repoTier' \in [Repos -> TierNames \cup {None}] /\ repoTier'[req[q].repo] = req[q].tier
      /\ \A r \in Repos \ {req[q].repo} : repoTier'[r] = repoTier[r]
  BY <1>0, <1>1
<1>3. TablesOK' /\ OneDefault'
  BY <1>0, <1>2 DEF Inv, TypeOK, TablesOK, OneDefault, Default, Exists
<1>4. Changes(q) /\ req'[q].pc = "rt_list" /\ Same(q) /\ Control(q)
  BY <1>0, GotoStep DEF Pc, AssignPc
<1>5. RequestOK(q)'
  BY <1>0, <1>4 DEF RequestOK, Same, PatchPc, PropPc, DeletePc, AssignPc, UpsertPc,
    SyncPc, ReadPc, SpreadPc
<1>6. ASSUME calm'
      PROVE  InUse' /\ CalmTier(q)' /\ CalmQuota(q)'
  <2>1. InUse /\ CalmTier(q)
    BY <1>4, <1>6, CalmFacts
  <2>2. Exists(req[q].tier) /\ tiers[req[q].tier].limits = req[q].row.limits
    BY <1>0, <2>1 DEF CalmTier, ReadPc
  <2>3. InUse'
    BY <1>0, <1>2, <2>1, <2>2 DEF InUse, Exists, Default
  <2>4. CalmTier(q)' /\ CalmQuota(q)'
    BY <1>0, <1>4, <2>2 DEF CalmTier, CalmQuota, Same, Exists, PatchPc, PropPc, DeletePc, AssignPc, UpsertPc,
    SyncPc, ReadPc, SpreadPc
  <2>. QED BY <2>3, <2>4
<1>. QED BY <1>3, <1>4, <1>5, <1>6, StepInv

(* A repo that is new gets the default tier. *)
LEMMA GetOrCreateRepoInv ==
  ASSUME Inv, NEW q \in Reqs, GetOrCreateRepo(q)
  PROVE  Inv'
<1> DEFINE t == TierAfterUpsert(q)
           pc == IF req[q].pc = "up_repo" THEN "up_app" ELSE "sy_apps"
           r == [req[q] EXCEPT !.tier = t, !.pc = pc]
<1>0. /\ req[q].pc \in {"up_repo", "sy_repo"} /\ Live(q) /\ Works /\ RequestOK(q)
      /\ UNCHANGED <<tiers, app, ns>> /\ repoTier \in [Repos -> TierNames \cup {None}]
      /\ req[q] \in Request
  BY DEF GetOrCreateRepo, Live, Inv, TypeOK, Requests
<1>1. repoTier' = [repoTier EXCEPT ![req[q].repo] = t] /\ Move(q, r)
  BY DEF GetOrCreateRepo
<1>2. req[q].tier \in TierNames /\ req[q].repo \in Repos
  BY <1>0 DEF RequestOK, UpsertPc, SyncPc
<1>3. /\ t \in TierNames
      /\ t = req[q].tier \/ t = repoTier[req[q].repo]
  BY <1>0, <1>2 DEF TierAfterUpsert
<1>4. /\ pc \in Pc /\ pc \in {"up_app", "sy_apps"}
      /\ pc = "up_app" <=> req[q].pc = "up_repo"
  BY DEF Pc, UpsertPc, SyncPc
<1> HIDE DEF t, pc
<1>5. /\ r \in Request /\ r.pc = pc /\ r.tier = t /\ r.repo = req[q].repo /\ r.app = req[q].app
  BY <1>0, <1>3, <1>4 DEF Request
<1> HIDE DEF r
<1>6. Changes(q) /\ req'[q] = r /\ Control(q)
  BY <1>0, <1>1, <1>5, MoveStep
<1>7. RequestOK(q)'
  BY <1>0, <1>2, <1>3, <1>4, <1>5, <1>6 DEF RequestOK, PatchPc, PropPc, DeletePc, AssignPc, UpsertPc,
    SyncPc, ReadPc, SpreadPc
<1>8. /\ repoTier' \in [Repos -> TierNames \cup {None}] /\ repoTier'[req[q].repo] = t
      /\ \A p \in Repos \ {req[q].repo} : repoTier'[p] = repoTier[p]
  BY <1>0, <1>1, <1>2, <1>3
<1>9. TablesOK' /\ OneDefault'
  BY <1>0, <1>8 DEF Inv, TypeOK, TablesOK, OneDefault, Default, Exists
<1>10. ASSUME calm'
       PROVE  InUse' /\ CalmTier(q)' /\ CalmQuota(q)'
  <2>1. InUse /\ CalmTier(q) /\ CalmQuota(q)
    BY <1>6, <1>10, CalmFacts
  <2>2. tiers[t] # None
    <3>1. Exists(req[q].tier)
      BY <1>0, <2>1 DEF CalmTier
    <3>2. t = repoTier[req[q].repo] => Exists(repoTier[req[q].repo])
      BY <1>2, <1>3, <2>1 DEF InUse
    <3>. QED BY <1>3, <3>1, <3>2 DEF Exists
  <2>3. InUse'
    BY <1>0, <1>8, <2>1, <2>2 DEF InUse, Exists, Default
  <2>4. req[q].pc = "up_repo" => req[q].repo = RepoOf[req[q].app]
    BY <2>1 DEF CalmQuota, UpsertPc
  <2>5. CalmTier(q)' /\ CalmQuota(q)'
    BY <1>4, <1>5, <1>6, <1>8, <2>4 DEF CalmTier, CalmQuota, PatchPc, PropPc, DeletePc, AssignPc, UpsertPc,
    SyncPc, ReadPc, SpreadPc
  <2>. QED BY <2>3, <2>5
<1>. QED BY <1>6, <1>7, <1>9, <1>10, StepInv

(* A deploy writes the row of its app. *)
LEMMA UpsertAppRowInv ==
  ASSUME Inv, NEW q \in Reqs, UpsertAppRow(q)
  PROVE  Inv'
<1>0. /\ req[q].pc = "up_insert" /\ Live(q) /\ Works /\ RequestOK(q) /\ Goto(q, "up_apply")
      /\ UNCHANGED <<tiers, repoTier, ns>> /\ ns \in [Apps -> Limits \cup {None}]
      /\ app \in [Apps -> {"absent", "active", "pending"}]
      /\ app' = [app EXCEPT ![req[q].app] = "active"]
  BY DEF UpsertAppRow, At, Live, Inv, TypeOK, Requests
<1>1. Changes(q) /\ req'[q].pc = "up_apply" /\ Same(q) /\ Control(q)
  BY <1>0, GotoStep DEF Pc, UpsertPc
<1>2. RequestOK(q)'
  BY <1>0, <1>1 DEF RequestOK, Same, PatchPc, PropPc, DeletePc, AssignPc, UpsertPc,
    SyncPc, ReadPc, SpreadPc
<1>3. ASSUME calm'
      PROVE  CalmTier(q)' /\ CalmQuota(q)'
  <2>1. CalmQuota(q)
    BY <1>1, <1>3, CalmFacts
  <2>2. req[q].repo = RepoOf[req[q].app] /\ req[q].tier = repoTier[req[q].repo]
    BY <1>0, <2>1 DEF CalmQuota, UpsertPc
  <2>. QED BY <1>0, <1>1, <2>2 DEF CalmTier, CalmQuota, Same, PatchPc, PropPc, DeletePc, AssignPc, UpsertPc,
    SyncPc, ReadPc, SpreadPc
<1>4. app' \in [Apps -> {"absent", "active", "pending"}]
  BY <1>0
<1>. QED BY <1>0, <1>1, <1>2, <1>3, <1>4, AppWriteStep

(* A step of a sync, which knows nothing that others could change. *)
LEMMA SyncStep ==
  ASSUME Inv, NEW q \in Reqs, NEW r \in Request, Move(q, r), Works,
         req[q].pc \in {"sy_apps", "sy_mark"}, r.pc \in {"sy_apps", "sy_mark"},
         r.tier = req[q].tier, r.repo = req[q].repo,
         UNCHANGED <<tiers, repoTier, ns>>,
         app' \in [Apps -> {"absent", "active", "pending"}]
  PROVE  Inv'
<1>0. RequestOK(q) /\ Live(q) /\ ns \in [Apps -> Limits \cup {None}]
  BY DEF Inv, Requests, Live, TypeOK
<1>1. Changes(q) /\ req'[q] = r /\ Control(q)
  BY <1>0, MoveStep
<1>2. RequestOK(q)'
  BY <1>0, <1>1 DEF RequestOK, PatchPc, PropPc, DeletePc, AssignPc, UpsertPc,
    SyncPc, ReadPc, SpreadPc
<1>3. CalmTier(q)' /\ CalmQuota(q)'
  BY <1>1 DEF CalmTier, CalmQuota, PatchPc, PropPc, DeletePc, AssignPc, UpsertPc,
    SyncPc, ReadPc, SpreadPc
<1>. QED BY <1>0, <1>1, <1>2, <1>3, AppWriteStep

(* The apps that a sync still has to do are apps. *)
LEMMA TodoMove ==
  ASSUME Inv, NEW q \in Reqs, NEW a \in req[q].todo, Move(q, [req[q] EXCEPT !.todo = @ \ {a}])
  PROVE  \E r \in Request :
           /\ Move(q, r) /\ r.pc = req[q].pc /\ r.tier = req[q].tier /\ r.repo = req[q].repo
           /\ r.row = req[q].row /\ r.repos = req[q].repos /\ r.todo = req[q].todo \ {a}
           /\ a \in Apps
<1> DEFINE u == req[q].todo \ {a}
           r == [req[q] EXCEPT !.todo = u]
<1>0. req[q] \in Request
  BY DEF Inv, TypeOK
<1>1. u \in SUBSET Apps /\ a \in Apps /\ u = req[q].todo \ {a}
  BY <1>0 DEF Request
<1>2. Move(q, r)
  OBVIOUS
<1> HIDE DEF u
<1>3. /\ r \in Request /\ r.pc = req[q].pc /\ r.tier = req[q].tier /\ r.repo = req[q].repo
      /\ r.row = req[q].row /\ r.repos = req[q].repos /\ r.todo = u
  BY <1>0, <1>1 DEF Request
<1> HIDE DEF r
<1>. QED BY <1>1, <1>2, <1>3

(* A sync writes the rows of the desired apps, one by one. *)
LEMMA SyncUpsertInv ==
  ASSUME Inv, NEW q \in Reqs, SyncUpsert(q)
  PROVE  Inv'
<1>0. /\ req[q].pc = "sy_apps" /\ Works /\ UNCHANGED <<tiers, repoTier, ns>>
      /\ app \in [Apps -> {"absent", "active", "pending"}] /\ req[q] \in Request
  BY DEF SyncUpsert, At, Inv, TypeOK
<1>1. ASSUME NEW a \in req[q].todo, app' = [app EXCEPT ![a] = "active"],
             Move(q, [req[q] EXCEPT !.todo = @ \ {a}])
      PROVE  Inv'
  <2>1. PICK r \in Request : /\ Move(q, r) /\ r.pc = req[q].pc /\ r.tier = req[q].tier
                             /\ r.repo = req[q].repo
    BY <1>1, TodoMove
  <2>2. app' \in [Apps -> {"absent", "active", "pending"}]
    BY <1>0, <1>1
  <2>. QED BY <1>0, <2>1, <2>2, SyncStep
<1> DEFINE u == ActiveApps(req[q].repo) \ req[q].desired
           r == [req[q] EXCEPT !.pc = "sy_mark", !.todo = u]
<1>2. CASE Move(q, r) /\ UNCHANGED app
  <2>1. u \in SUBSET Apps
    BY DEF ActiveApps
  <2> HIDE DEF u
  <2>2. r \in Request /\ r.pc = "sy_mark" /\ r.tier = req[q].tier /\ r.repo = req[q].repo
    BY <1>0, <2>1 DEF Request, Pc, SyncPc
  <2> HIDE DEF r
  <2>. QED BY <1>0, <1>2, <2>2, SyncStep
<1>. QED BY <1>1, <1>2 DEF SyncUpsert

(* A sync marks the other apps of its repo, one by one. *)
LEMMA SyncMarkInv ==
  ASSUME Inv, NEW q \in Reqs, SyncMark(q)
  PROVE  Inv'
<1>0. /\ req[q].pc = "sy_mark" /\ Works /\ UNCHANGED <<tiers, repoTier, ns>> /\ Live(q)
      /\ app \in [Apps -> {"absent", "active", "pending"}] /\ req[q] \in Request
  BY DEF SyncMark, At, Inv, TypeOK, Live
<1>1. ASSUME NEW a \in req[q].todo, app' = [app EXCEPT ![a] = "pending"],
             Move(q, [req[q] EXCEPT !.todo = @ \ {a}])
      PROVE  Inv'
  <2>1. PICK r \in Request : /\ Move(q, r) /\ r.pc = req[q].pc /\ r.tier = req[q].tier
                             /\ r.repo = req[q].repo
    BY <1>1, TodoMove
  <2>2. app' \in [Apps -> {"absent", "active", "pending"}]
    BY <1>0, <1>1
  <2>. QED BY <1>0, <2>1, <2>2, SyncStep
<1>2. CASE Return(q) /\ UNCHANGED app
  BY <1>0, <1>2, ReturnRead DEF Tables
<1>. QED BY <1>1, <1>2 DEF SyncMark

(* A DELETE of an app marks its row. *)
LEMMA DeleteAppInv ==
  ASSUME Inv, NEW q \in Reqs, NEW a \in Apps, DeleteApp(q, a)
  PROVE  Inv'
<1> DEFINE b == [Idle EXCEPT !.pc = "del_ns", !.app = a]
<1>0. Begin(q, b) /\ UNCHANGED <<tiers, repoTier, ns>> /\ app' = [app EXCEPT ![a] = "pending"]
  BY DEF DeleteApp
<1>1. b \in Request /\ b.pc = "del_ns" /\ b.app = a
  BY IdleType DEF Request, Pc
<1> HIDE DEF b
<1>2. Changes(q) /\ req'[q] = b /\ Control(q)
  BY <1>0, <1>1, BeginStep
<1>3. RequestOK(q)' /\ CalmTier(q)' /\ CalmQuota(q)'
  BY <1>1, <1>2 DEF RequestOK, CalmTier, CalmQuota, PatchPc, PropPc, DeletePc, AssignPc, UpsertPc,
    SyncPc, ReadPc, SpreadPc
<1>4. /\ app' \in [Apps -> {"absent", "active", "pending"}]
      /\ ns' \in [Apps -> Limits \cup {None}]
  BY <1>0 DEF Inv, TypeOK
<1>. QED BY <1>0, <1>2, <1>3, <1>4, AppWriteStep

(* The end of a deploy and of a deletion: one namespace changes. *)
LEMMA NamespaceInv ==
  ASSUME Inv, NEW q \in Reqs, ApplyManifest(q) \/ DeleteNamespace(q)
  PROVE  Inv'
<1>0. /\ req[q].pc \in {"up_apply", "del_ns"} /\ Live(q) /\ (Works \/ Fails)
      /\ Return(q) /\ UNCHANGED <<tiers, repoTier, app>>
      /\ app \in [Apps -> {"absent", "active", "pending"}] /\ ns \in [Apps -> Limits \cup {None}]
  BY DEF ApplyManifest, DeleteNamespace, At, Live, Inv, TypeOK
<1>1. Changes(q) /\ Control(q) /\ RequestOK(q)' /\ CalmTier(q)' /\ CalmQuota(q)'
  BY <1>0, ReturnStep
<1>2. ns' \in [Apps -> Limits \cup {None}]
  BY <1>0 DEF ApplyManifest, DeleteNamespace
<1>. QED BY <1>0, <1>1, <1>2, AppWriteStep

(* A namespace gets the tier's limits, or there is none. *)
LEMMA ApplyNamespaceTierInv ==
  ASSUME Inv, NEW q \in Reqs, ApplyNamespaceTier(q)
  PROVE  Inv'
<1>0. /\ req[q].pc = "prop_app" /\ Live(q) /\ UNCHANGED <<tiers, repoTier, app>>
      /\ app \in [Apps -> {"absent", "active", "pending"}] /\ ns \in [Apps -> Limits \cup {None}]
      /\ RequestOK(q) /\ req[q].row \in Tier /\ req[q] \in Request
  BY DEF ApplyNamespaceTier, At, Live, Inv, TypeOK, Requests, RequestOK, PropPc
<1>1. ASSUME Changes(q), Control(q), calm'
      PROVE  /\ Exists(req[q].tier) /\ tiers[req[q].tier].limits = req[q].row.limits
             /\ \A a \in Apps : Concerns(q, a) => ns[a] = req[q].row.limits \/ Ahead(q, a)
  <2>1. CalmTier(q)
    BY <1>1, CalmFacts
  <2>. QED BY <1>0, <2>1 DEF CalmTier, SpreadPc, PropPc
<1>2. CASE req[q].todo = {} /\ Goto(q, "prop_repo") /\ Works /\ UNCHANGED ns
  <2>1. Changes(q) /\ req'[q].pc = "prop_repo" /\ Same(q) /\ Control(q)
    BY <1>0, <1>2, GotoStep DEF Pc, PropPc
  <2>2. RequestOK(q)'
    BY <1>0, <2>1 DEF RequestOK, Same, PatchPc, PropPc, DeletePc, AssignPc, UpsertPc,
    SyncPc, ReadPc, SpreadPc
  <2>3. ASSUME calm'
        PROVE  CalmTier(q)' /\ CalmQuota(q)'
    <3>1. \A a \in Apps : Concerns(q, a)' => ns'[a] = req'[q].row.limits \/ Ahead(q, a)'
      BY <1>0, <1>1, <1>2, <2>1, <2>3 DEF Concerns, Ahead, Same
    <3>. QED BY <1>0, <1>1, <2>1, <2>3, <3>1 DEF CalmTier, CalmQuota, Same, Exists, PatchPc, PropPc, DeletePc, AssignPc, UpsertPc,
    SyncPc, ReadPc, SpreadPc
  <2>. QED BY <1>0, <1>2, <2>1, <2>2, <2>3, AppWriteStep
<1>3. ASSUME NEW a \in req[q].todo, Move(q, [req[q] EXCEPT !.todo = @ \ {a}]),
             \/ ns' = [ns EXCEPT ![a] = IF @ = None THEN None ELSE req[q].row.limits] /\ Works
             \/ Fails /\ UNCHANGED ns
      PROVE  Inv'
  <2>1. PICK r \in Request :
           /\ Move(q, r) /\ r.pc = req[q].pc /\ r.tier = req[q].tier /\ r.repo = req[q].repo
           /\ r.row = req[q].row /\ r.repos = req[q].repos /\ r.todo = req[q].todo \ {a}
           /\ a \in Apps
    BY <1>3, TodoMove
  <2>2. Changes(q) /\ req'[q] = r /\ Control(q)
    BY <1>0, <1>3, <2>1, MoveStep
  <2>3. RequestOK(q)'
    BY <1>0, <2>1, <2>2 DEF RequestOK, PatchPc, PropPc, DeletePc, AssignPc, UpsertPc,
    SyncPc, ReadPc, SpreadPc
  <2>4. /\ ns' \in [Apps -> Limits \cup {None}]
        /\ \A d \in Apps \ {a} : ns'[d] = ns[d]
    BY <1>0, <1>3, <2>1 DEF Tier
  <2>5. ASSUME calm'
        PROVE  CalmTier(q)' /\ CalmQuota(q)'
    <3>1. ns' = [ns EXCEPT ![a] = IF @ = None THEN None ELSE req[q].row.limits]
      BY <1>3, <2>5 DEF Fails
    <3>2. ns'[a] = None \/ ns'[a] = req[q].row.limits
      BY <1>0, <2>1, <3>1
    <3>3. ASSUME NEW d \in Apps, Concerns(q, d)'
          PROVE  ns'[d] = req[q].row.limits \/ Ahead(q, d)'
      <4>1. CASE d = a
        BY <3>2, <3>3, <4>1 DEF Concerns
      <4>2. CASE d # a
        <5>1. Concerns(q, d) /\ ns'[d] = ns[d]
          BY <1>0, <2>1, <2>2, <2>4, <3>3, <4>2 DEF Concerns
        <5>2. ns[d] = req[q].row.limits \/ Ahead(q, d)
          BY <1>1, <2>2, <2>5, <5>1
        <5>3. Ahead(q, d) => Ahead(q, d)'
          BY <2>1, <2>2, <4>2 DEF Ahead
        <5>. QED BY <5>1, <5>2, <5>3
      <4>. QED BY <4>1, <4>2
    <3>. QED BY <1>0, <1>1, <2>1, <2>2, <2>5, <3>3 DEF CalmTier, CalmQuota, Exists, PatchPc, PropPc, DeletePc, AssignPc, UpsertPc,
    SyncPc, ReadPc, SpreadPc
  <2>. QED BY <1>0, <2>2, <2>3, <2>4, <2>5, AppWriteStep
<1>. QED BY <1>2, <1>3 DEF ApplyNamespaceTier

-----------------------------------------------------------------------------
(* The theorems *)

(* The migration's rows, and nobody at work. *)
LEMMA InitInv == Init => Inv
<1> SUFFICES ASSUME Init
             PROVE  Inv
  OBVIOUS
<1>1. \A q \in Reqs : req[q] = Idle /\ req[q].pc = "idle"
  BY IdleType DEF Init
<1>2. TypeOK
  <2>1. req \in [Reqs -> Request]
    BY IdleType DEF Init
  <2>2. calm \in BOOLEAN
    BY DEF Init
  <2>3. TablesOK
    BY DEF Init, TablesOK
  <2>4. made \in 0 .. MaxReqs
    BY DEF Init
  <2>. QED BY <2>1, <2>2, <2>3, <2>4 DEF TypeOK, TablesOK
<1>3. Requests
  BY <1>1 DEF Requests, RequestOK, PatchPc, PropPc, DeletePc, AssignPc, UpsertPc,
    SyncPc, ReadPc, SpreadPc
<1>4. OneDefault
  BY DEF OneDefault, Default, Exists, Init
<1>5. TiersInUseExist
  <2>1. Default(Fallback)
    BY DEF Default, Exists, Init
  <2>2. \A r \in Repos : repoTier[r] = None
    BY DEF Init
  <2>. QED BY <2>1, <2>2 DEF TiersInUseExist
<1>6. Alone
  BY <1>1 DEF Alone, Live
<1>7. CalmRequests
  BY <1>1 DEF CalmRequests, CalmTier, CalmQuota, PatchPc, PropPc, DeletePc, AssignPc, UpsertPc,
    SyncPc, ReadPc, SpreadPc
<1>. QED BY <1>2, <1>3, <1>4, <1>5, <1>6, <1>7 DEF Inv

(* Stuttering keeps the invariant. *)
LEMMA StutterInv ==
  ASSUME Inv, UNCHANGED vars
  PROVE  Inv'
<1>1. TypeOK' /\ OneDefault' /\ TiersInUseExist'
  BY DEF Inv, vars, TypeOK, OneDefault, TiersInUseExist, Default, Exists
<1>2. Requests' /\ Alone'
  BY DEF Inv, vars, Requests, RequestOK, Alone, Live
<1>3. ASSUME NEW q \in Reqs
      PROVE  (CalmTier(q) => CalmTier(q)') /\ (CalmQuota(q) => CalmQuota(q)')
  BY DEF vars, CalmTier, CalmQuota, Default, Exists, ReposOn, Concerns, Ahead,
     CountAppsByRepo, ActiveApps
<1>4. CalmRequests'
  BY <1>3 DEF Inv, vars, CalmRequests
<1>. QED BY <1>1, <1>2, <1>4 DEF Inv

(* Every step keeps the invariant. *)
LEMMA NextInv == Inv /\ [Next]_vars => Inv'
<1> SUFFICES ASSUME Inv, [Next]_vars
             PROVE  Inv'
  OBVIOUS
<1>1. CASE UNCHANGED vars
  BY <1>1, StutterInv
<1>2. ASSUME NEW q \in Reqs, Arrive(q)
      PROVE  Inv'
  BY <1>2, CreateTierInv, UpdateTierInv, DeleteTierInv, SetDefaultTierInv, UpdateRepoTierInv,
     UpsertAppInv, DeleteAppInv, SyncRepoInv DEF Arrive
<1>3. ASSUME NEW q \in Reqs, TierStep(q)
      PROVE  Inv'
  BY <1>3, PatchTierWriteInv, PropagateReposInv, PropagateRepoInv, ApplyNamespaceTierInv,
     CountReposInv, DeleteTierRowInv, SetDefaultRowsInv DEF TierStep
<1>4. ASSUME NEW q \in Reqs, AssignStep(q)
      PROVE  Inv'
  BY <1>4, GetNewTierInv, CurrentMaxAppsInv, DemotionGuardInv, SetRepoTierInv, ListRepoAppsInv
     DEF AssignStep
<1>5. ASSUME NEW q \in Reqs, AppStep(q)
      PROVE  Inv'
  BY <1>5, DefaultUnreadInv, GetOrCreateRepoInv, GetAppRowInv, GetQuotaTierInv, CheckQuotaInv,
     UpsertAppRowInv, NamespaceInv, SyncUpsertInv, SyncMarkInv DEF AppStep
<1>6. ASSUME NEW q \in Reqs, RequestFails(q)
      PROVE  Inv'
  BY <1>6, RequestFailsInv
<1>. QED BY <1>1, <1>2, <1>3, <1>4, <1>5, <1>6 DEF Next

(* The invariant holds throughout. *)
THEOREM Invariance == Spec => []Inv
BY InitInv, NextInv, PTL DEF Spec

(* Every variable keeps its type. *)
THEOREM TypeCorrect == Spec => []TypeOK
<1>1. Inv => TypeOK
  BY DEF Inv
<1>. QED BY <1>1, Invariance, PTL

(* tiers.sql, SetDefaultTier: no two tiers are ever the default, whatever  *)
(* overlaps and whatever fails.                                            *)
THEOREM DefaultIsUnique == Spec => []OneDefault
<1>1. Inv => OneDefault
  BY DEF Inv
<1>. QED BY <1>1, Invariance, PTL

(* handler/tiers.go, DeleteTier and UpdateRepoTier: while requests do not  *)
(* overlap and nothing fails, there is a default and every repo's tier     *)
(* exists, although no foreign key says so.                                *)
THEOREM UsedTiersExist == Spec => []TiersInUseExist
<1>1. Inv => TiersInUseExist
  BY DEF Inv
<1>. QED BY <1>1, Invariance, PTL

(* A step of one request leaves the records of the others alone. *)
LEMMA OneMoves ==
  ASSUME Inv, NEW p \in Reqs, NEW q \in Reqs, p # q,
         Arrive(p) \/ TierStep(p) \/ AssignStep(p) \/ AppStep(p) \/ RequestFails(p)
  PROVE  req'[q] = req[q]
<1>0. req \in [Reqs -> Request]
  BY DEF Inv, TypeOK
<1>1. ASSUME NEW b, Begin(p, b)
      PROVE  req'[q] = req[q]
  BY <1>0, <1>1 DEF Begin
<1>2. ASSUME NEW b, Move(p, b)
      PROVE  req'[q] = req[q]
  BY <1>0, <1>2 DEF Move
<1>3. ASSUME NEW pc, Goto(p, pc)
      PROVE  req'[q] = req[q]
  BY <1>2, <1>3 DEF Goto
<1>4. ASSUME Return(p)
      PROVE  req'[q] = req[q]
  BY <1>2, <1>4 DEF Return
<1>5. ASSUME NEW b, ReadDefault(p, b)
      PROVE  req'[q] = req[q]
  BY <1>1, <1>5 DEF ReadDefault
<1>6. CASE Arrive(p)
  BY <1>1, <1>5, <1>6, Zenon DEF Arrive, CreateTier, UpdateTier, DeleteTier, SetDefaultTier,
     UpdateRepoTier, UpsertApp, DeleteApp, SyncRepo
<1>7. CASE TierStep(p)
  BY <1>2, <1>3, <1>4, <1>7, Zenon DEF TierStep, PatchTierWrite, PropagateRepos, PropagateRepo,
     ApplyNamespaceTier, CountReposByTier, DeleteTierRow, SetDefaultTierRows
<1>8. CASE AssignStep(p)
  BY <1>2, <1>3, <1>4, <1>8, Zenon DEF AssignStep, GetNewTier, CurrentMaxApps, DemotionGuard,
     SetRepoTier, ListRepoApps
<1>9. CASE AppStep(p)
  BY <1>2, <1>3, <1>4, <1>9, Zenon DEF AppStep, DefaultUnread, GetOrCreateRepo, GetAppRow,
     GetQuotaTier, CheckQuota, UpsertAppRow, ApplyManifest, SyncUpsert, SyncMark, DeleteNamespace
<1>10. CASE RequestFails(p)
  BY <1>4, <1>10 DEF RequestFails
<1>. QED BY <1>6, <1>7, <1>8, <1>9, <1>10

(* Only the request itself, at the step where it is, changes its record. *)
LEMMA WhoMoves ==
  ASSUME Inv, Next, NEW q \in Reqs, req'[q].pc # req[q].pc
  PROVE  /\ req[q].pc = "up_insert" => UpsertAppRow(q) \/ RequestFails(q)
         /\ req[q].pc = "prop_repo" => PropagateRepo(q)
<1>1. Arrive(q) \/ TierStep(q) \/ AssignStep(q) \/ AppStep(q) \/ RequestFails(q)
  BY OneMoves DEF Next
<1>2. CASE Arrive(q)
  <2>1. req[q].pc = "idle"
    BY <1>2 DEF Arrive, CreateTier, UpdateTier, DeleteTier, SetDefaultTier, UpdateRepoTier,
       UpsertApp, DeleteApp, SyncRepo, ReadDefault, Begin, Live
  <2>. QED BY <2>1
<1>3. CASE TierStep(q)
  BY <1>3 DEF TierStep, PatchTierWrite, PropagateRepos, ApplyNamespaceTier, CountReposByTier,
     DeleteTierRow, SetDefaultTierRows, PropagateRepo, At
<1>4. CASE AssignStep(q)
  BY <1>4 DEF AssignStep, GetNewTier, CurrentMaxApps, DemotionGuard, SetRepoTier, ListRepoApps, At
<1>5. CASE AppStep(q)
  <2>1. CASE UpsertAppRow(q)
    BY <2>1 DEF UpsertAppRow, At
  <2>2. CASE DefaultUnread(q) \/ GetOrCreateRepo(q)
    BY <2>2 DEF DefaultUnread, GetOrCreateRepo, At
  <2>3. CASE GetAppRow(q) \/ GetQuotaTier(q) \/ CheckQuota(q)
    BY <2>3 DEF GetAppRow, GetQuotaTier, CheckQuota, At
  <2>4. CASE ApplyManifest(q)
    BY <2>4 DEF ApplyManifest, At
  <2>5. CASE SyncUpsert(q)
    BY <2>5 DEF SyncUpsert, At
  <2>6. CASE SyncMark(q)
    BY <2>6 DEF SyncMark, At
  <2>7. CASE DeleteNamespace(q)
    BY <2>7 DEF DeleteNamespace, At
  <2>. QED BY <1>5, <2>1, <2>2, <2>3, <2>4, <2>5, <2>6, <2>7 DEF AppStep
<1>6. CASE RequestFails(q)
  BY <1>6 DEF RequestFails
<1>. QED BY <1>1, <1>2, <1>3, <1>4, <1>5, <1>6

(* The app that a deploy adds is one more, and there was room for it. *)
LEMMA QuotaStep ==
  ASSUME Inv, Next, NEW q \in Reqs, req[q].pc = "up_insert", req'[q].pc = "up_apply", calm',
         app[req[q].app] = "absent"
  PROVE  CountAppsByRepo(req[q].repo)' <= tiers[repoTier[req[q].repo]].max_apps
<1>1. UpsertAppRow(q)
  <2>1. CASE RequestFails(q)
    <3>1. calm' = FALSE
      BY <2>1 DEF RequestFails, Fails
    <3>. QED BY <3>1
  <2>. QED BY <2>1, WhoMoves
<1>2. /\ RequestOK(q) /\ Live(q) /\ Works /\ Goto(q, "up_apply")
      /\ app \in [Apps -> {"absent", "active", "pending"}]
      /\ app' = [app EXCEPT ![req[q].app] = "active"]
      /\ tiers \in [TierNames -> Tier \cup {None}]
      /\ repoTier \in [Repos -> TierNames \cup {None}]
  BY <1>1 DEF UpsertAppRow, At, Live, Inv, TypeOK, Requests
<1>3. Changes(q) /\ Same(q) /\ Control(q)
  BY <1>2, GotoStep DEF Pc, UpsertPc
<1>4. InUse /\ CalmQuota(q)
  BY <1>3, CalmFacts
<1> DEFINE a == req[q].app
           r == req[q].repo
           m == tiers[req[q].tier].max_apps
<1>5. a \in Apps /\ r \in Repos /\ req[q].tier \in TierNames
  BY <1>2 DEF RequestOK, UpsertPc
<1>6. /\ r = RepoOf[a] /\ req[q].tier = repoTier[r] /\ CountAppsByRepo(r) < m
  BY <1>4 DEF CalmQuota, UpsertPc
<1>7. m \in Nat
  <2>1. tiers[req[q].tier] \in Tier
    BY <1>2, <1>4, <1>5, <1>6 DEF InUse, Exists
  <2>. QED BY <2>1 DEF Tier
<1>8. IsFiniteSet(ActiveApps(r))
  BY FS_Subset DEF ActiveApps
<1>9. a \notin ActiveApps(r)
  BY DEF ActiveApps
<1>10. Cardinality(ActiveApps(r) \cup {a}) = Cardinality(ActiveApps(r)) + 1
  BY <1>8, <1>9, FS_AddElement
<1>11. CountAppsByRepo(r) \in Nat
  BY <1>8, FS_CardinalityType DEF CountAppsByRepo
<1>12. {b \in Apps : RepoOf[b] = r /\ app'[b] = "active"} = ActiveApps(r) \cup {a}
  BY <1>2, <1>5, <1>6 DEF ActiveApps
<1>13. CountAppsByRepo(req[q].repo)' = Cardinality(ActiveApps(r) \cup {a})
  <2>1. req'[q].repo = req[q].repo
    BY <1>3 DEF Same
  <2>2. CountAppsByRepo(req[q].repo)'
          = Cardinality({b \in Apps : RepoOf[b] = req'[q].repo /\ app'[b] = "active"})
    BY DEF CountAppsByRepo, ActiveApps
  <2>3. {b \in Apps : RepoOf[b] = req'[q].repo /\ app'[b] = "active"}
          = ActiveApps(r) \cup {a}
    BY <1>12, <2>1
  <2> HIDE DEF a, r
  <2>. QED BY <2>2, <2>3
<1>14. CountAppsByRepo(r) + 1 <= m
  BY <1>6, <1>7, <1>11
<1>. QED BY <1>6, <1>10, <1>13, <1>14 DEF CountAppsByRepo

(* A propagation that is over has nothing ahead. *)
LEMMA ReachedStep ==
  ASSUME Inv, Next, NEW q \in Reqs, req[q].pc = "prop_repo", req'[q].pc = "idle", calm',
         NEW a \in Apps, Concerns(q, a)
  PROVE  ns[a] = tiers[req[q].tier].limits
<1>1. PropagateRepo(q)
  BY WhoMoves
<1>2. req[q] \in Request /\ Live(q) /\ req \in [Reqs -> Request]
  BY DEF Inv, TypeOK, Live
<1>3. req[q].repos = {} /\ Return(q) /\ Works
  <2>1. ASSUME NEW p \in req[q].repos,
               Move(q, [req[q] EXCEPT !.pc = "prop_app", !.repos = @ \ {p}, !.todo = ActiveApps(p)])
        PROVE  FALSE
    <3> DEFINE s == req[q].repos \ {p}
               u == ActiveApps(p)
               r == [req[q] EXCEPT !.pc = "prop_app", !.repos = s, !.todo = u]
    <3>1. req' = [req EXCEPT ![q] = r]
      BY <2>1 DEF Move
    <3> HIDE DEF s, u
    <3>2. r.pc = "prop_app"
      BY <1>2 DEF Request
    <3> HIDE DEF r
    <3>. QED BY <1>2, <3>1, <3>2
  <2>2. ASSUME Fails
        PROVE  FALSE
    BY <2>2 DEF Fails
  <2>. QED BY <1>1, <2>1, <2>2 DEF PropagateRepo
<1>4. Control(q)
  BY <1>2, <1>3, ReturnStep
<1>5. CalmTier(q)
  BY <1>4, CalmFacts
<1>6. /\ tiers[req[q].tier].limits = req[q].row.limits
      /\ ns[a] = req[q].row.limits \/ Ahead(q, a)
  BY <1>5 DEF CalmTier, SpreadPc, PropPc
<1>. QED BY <1>3, <1>6 DEF Ahead

(* apps.go, UpsertApp: while requests do not overlap and nothing fails, a  *)
(* new app leaves its repo within the quota of the tier that it has.       *)
THEOREM QuotaIsKept == Spec => NewAppWithinQuota
<1>1. ASSUME Inv, [Next]_vars
      PROVE  [\A q \in Reqs :
               /\ req[q].pc = "up_insert" /\ req'[q].pc = "up_apply" /\ calm'
               /\ app[req[q].app] = "absent"
               => CountAppsByRepo(req[q].repo)'
                    <= tiers[repoTier[req[q].repo]].max_apps]_vars
  BY <1>1, QuotaStep
<1>. QED BY <1>1, Invariance, PTL DEF Spec, NewAppWithinQuota

(* propagateTierToNamespaces and UpdateRepoTier: when the propagation is   *)
(* over, every namespace that it concerns has the tier's limits.           *)
THEOREM EditsArrive == Spec => EditsReachNamespaces
<1>1. ASSUME Inv, [Next]_vars
      PROVE  [\A q \in Reqs :
               /\ req[q].pc = "prop_repo" /\ req'[q].pc = "idle" /\ calm'
               => \A a \in Apps :
                    /\ app[a] = "active" /\ ns[a] # None
                    /\ repoTier[RepoOf[a]] = req[q].tier
                    /\ req[q].repo \in {None, RepoOf[a]}
                    => ns[a] = tiers[req[q].tier].limits]_vars
  BY <1>1, ReachedStep DEF Concerns
<1>. QED BY <1>1, Invariance, PTL DEF Spec, EditsReachNamespaces
=============================================================================
