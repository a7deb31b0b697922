---------------------------- MODULE Tokens_proofs ----------------------------
(***************************************************************************)
(* Proofs about sessions and roles, for any people, clients, requests and  *)
(* tokens, with failed statements and lost answers.                        *)
(*                                                                         *)
(* None of the properties is inductive.  Requests says what a request has  *)
(* in hand at each of its steps; Hashes that a row once found by a token   *)
(* stays the only one that can have it; Private that what one client holds *)
(* no other does, neither as a token nor through a row that a request of   *)
(* the other is about to rotate; Roles and Admins are what a role says of  *)
(* the past.                                                               *)
(***************************************************************************)
EXTENDS Tokens, TLAPS

Elevated == {"admin", "operator"}

(* A request has its client and its person, a row that it found is there   *)
(* and is the person's, and a role that it looked up is an elevated one.   *)
RequestOK(q) ==
  LET r == req[q]
  IN  /\ r.pc = "idle" => r = Idle
      /\ r.pc # "idle" => r.who \in People
      /\ r.pc \in PrincipalPc => r.client = None /\ r.token = None
      /\ r.pc \notin {"idle"} \cup PrincipalPc => r.client \in Clients
      /\ r.pc \in BootstrapPc => r.gen # 0
      /\ r.pc \in RefreshPc => r.keep
      /\ r.pc \in {"rf_role", "rf_rotate"} =>
           /\ r.token \in Token /\ r.row \in Token
           /\ rows[r.row] # None /\ rows[r.row].subject = r.who
      /\ r.pc \in {"insert", "rf_rotate"} => r.role \in Elevated
      /\ r.pc = "answer" => \/ r.role = "bootstrap_id" /\ r.token = None
                            \/ r.role \in Elevated /\ r.token \in Token

Requests == \A q \in Reqs : RequestOK(q)

(* No token, wherever it is, is newer than the last one issued. *)
Issued ==
  /\ \A i \in Token : rows[i] # None => i <= issued /\ rows[i].hash <= issued
  /\ \A t \in retired : t <= issued
  /\ \A q \in Reqs : req[q].token # None => req[q].token <= issued
  /\ \A c \in Clients : session[c] # None /\ session[c].refresh # None =>
       session[c].refresh <= issued

Found(q) == req[q].pc \in {"rf_role", "rf_rotate"}

(* A token that found a row is in no other one. *)
Hashes ==
  \A q \in Reqs : Found(q) =>
    \A i \in Token : rows[i] # None /\ rows[i].hash = req[q].token => i = req[q].row

(* The client keeps t, or presents it or is being answered with it. *)
Holds(c, t) ==
  /\ t # None
  /\ \/ session[c] # None /\ session[c].refresh = t
     \/ \E q \in Reqs : req[q].client = c /\ req[q].token = t

Private ==
  /\ \A c, d \in Clients, t \in Token : Holds(c, t) /\ Holds(d, t) => c = d
  /\ \A q \in Reqs, c \in Clients :
       Found(q) /\ Holds(c, rows[req[q].row].hash) => c = req[q].client
  /\ \A q, r \in Reqs : Found(q) /\ Found(r) /\ req[q].row = req[r].row =>
       req[q].client = req[r].client

Good(t, p) == \E i \in Token : /\ rows[i] # None /\ rows[i].hash = t
                               /\ rows[i].subject = p

Answered(q) == At(q, "answer") /\ req[q].keep

(* A client that was never disturbed has one request at most, and the      *)
(* token that it will go on with is in a row of its person's.              *)
Undisturbed ==
  \A c \in Clients \ disturbed :
    /\ \A q, r \in Reqs : req[q].client = c /\ req[r].client = c => q = r
    /\ \A q \in Reqs : req[q].client = c /\ Answered(q) /\ req[q].token # None =>
         Good(req[q].token, req[q].who)
    /\ /\ session[c] # None /\ session[c].refresh # None
       /\ \A q \in Reqs : req[q].client = c => ~Answered(q)
       => Good(session[c].refresh, session[c].who)

(* A role that a request carries was the principal's while it ran. *)
Roles ==
  \A q \in Reqs :
    /\ req[q].pc \in {"insert", "rf_rotate", "answer"}
    /\ req[q].gen = 0 /\ req[q].role # "bootstrap_id"
    => req[q].role \in seen[q]

(* Whoever acts as an admin, or changes principals, shows that there has   *)
(* been one; until then a bootstrap finds the principal that it recorded.  *)
Admins ==
  /\ \A p \in People : RoleOf(principal[p]) = "admin" => hadAdmin = TRUE
  /\ \A c \in Clients : session[c] # None /\ session[c].role = "admin" => hadAdmin = TRUE
  /\ \A q \in Reqs :
       /\ req[q].role = "admin" => hadAdmin = TRUE
       /\ req[q].pc \in PrincipalPc \cup {"bs_operator", "bs_delete"} => hadAdmin = TRUE
       /\ req[q].pc = "bs_admin" /\ principal[req[q].who] = None => hadAdmin = TRUE

Inv ==
  /\ TypeOK /\ Requests /\ Issued /\ Hashes /\ ExchangedOnce /\ Private
  /\ Undisturbed /\ Roles /\ Admins /\ NeverLockedOut

USE TokenConstants, NoneApart

-----------------------------------------------------------------------------
(* What the steps do to requests *)

(* The steps that leave rows, issued and retired alone and answer nothing. *)
QuietStep(q) ==
  \/ Arrive(q) \/ GitHubPrincipal(q) \/ BootstrapStep(q)
  \/ FindRefreshToken(q) \/ RefreshRole(q) \/ RefreshRefused(q)
  \/ PrincipalStep(q) \/ RequestFails(q)

(* The idle record is a request. *)
LEMMA IdleType == Idle \in Request
BY DEF Idle, Request, Flag

(* The fields of the idle record. *)
LEMMA IdleFields ==
  /\ Idle.pc = "idle" /\ Idle.client = None /\ Idle.who = None /\ Idle.gen = 0
  /\ Idle.token = None /\ Idle.row = None /\ Idle.role = None /\ Idle.keep = TRUE
BY DEF Idle

(* A step changes one request. *)
Changes(q) == /\ req' \in [Reqs -> Request]
              /\ \A r \in Reqs \ {q} : req'[r] = req[r]

(* Writing a record changes that request and no other. *)
LEMMA MoveEffect ==
  ASSUME req \in [Reqs -> Request], NEW q \in Reqs, NEW r \in Request,
         req' = [req EXCEPT ![q] = r]
  PROVE  Changes(q) /\ req'[q] = r
BY DEF Changes

(* The fields of a request's record that the invariant speaks of. *)
Same(q) == /\ req'[q].client = req[q].client /\ req'[q].who = req[q].who
           /\ req'[q].gen = req[q].gen /\ req'[q].token = req[q].token
           /\ req'[q].row = req[q].row /\ req'[q].role = req[q].role
           /\ req'[q].keep = req[q].keep

Pc == {"idle", "answer"} \cup LoginPc \cup BootstrapPc \cup RefreshPc \cup PrincipalPc

(* A step to another point of the handler changes nothing else. *)
LEMMA GotoEffect ==
  ASSUME req \in [Reqs -> Request], NEW q \in Reqs, NEW pc \in Pc, Goto(q, pc)
  PROVE  Changes(q) /\ req'[q].pc = pc /\ Same(q) /\ UNCHANGED disturbed
<1> DEFINE r == [req[q] EXCEPT !.pc = pc]
<1>1. r \in Request /\ r.pc = pc /\ r.client = req[q].client /\ r.who = req[q].who
      /\ r.gen = req[q].gen /\ r.token = req[q].token /\ r.row = req[q].row
      /\ r.role = req[q].role /\ r.keep = req[q].keep
  BY DEF Request, Pc
<1>2. req' = [req EXCEPT ![q] = r] /\ UNCHANGED disturbed
  BY DEF Goto, Move
<1> HIDE DEF r
<1>3. Changes(q) /\ req'[q] = r
  BY <1>1, <1>2, MoveEffect
<1>. QED BY <1>1, <1>2, <1>3 DEF Same

(* A request that is over is idle. *)
LEMMA ReturnEffect ==
  ASSUME req \in [Reqs -> Request], NEW q \in Reqs, Return(q)
  PROVE  Changes(q) /\ req'[q] = Idle /\ UNCHANGED disturbed
BY IdleType, MoveEffect DEF Return, Move

(* Whose request it is may be seen in disturbed only. *)
Arrived(q) ==
  /\ disturbed \subseteq disturbed' /\ disturbed' \subseteq Clients
  /\ \A c \in Clients \ disturbed' :
       req'[q].client = c => req[q].client = c \/ \A r \in Reqs : req[r].client # c

(* A request that arrives while its client has another disturbs it. *)
LEMMA BeginEffect ==
  ASSUME Inv, NEW q \in Reqs, NEW b \in Request, Begin(q, b)
  PROVE  Changes(q) /\ req'[q] = b /\ req[q] = Idle /\ Arrived(q)
<1>0. req \in [Reqs -> Request] /\ disturbed \subseteq Clients
  BY DEF Inv, TypeOK
<1>1. Changes(q) /\ req'[q] = b
  BY <1>0, MoveEffect DEF Begin
<1>2. \A r \in Reqs : ~Live(r) => req[r].client = None /\ req[r] = Idle
  BY IdleFields DEF Inv, Requests, RequestOK, Live
<1>3. b.client \in Clients \cup {None}
  BY DEF Request
<1>4. disturbed' = disturbed \/ disturbed' = disturbed \cup ({b.client} \ {None})
  BY DEF Begin
<1>5. disturbed \subseteq disturbed' /\ disturbed' \subseteq Clients
  BY <1>0, <1>3, <1>4
<1>6. ASSUME NEW c \in Clients \ disturbed', b.client = c
      PROVE  \A r \in Reqs : req[r].client # c
  <2>1. c # None
    OBVIOUS
  <2>2. c \notin disturbed \cup ({b.client} \ {None}) \/ ~\E r \in Reqs : Live(r) /\ req[r].client = b.client
    BY <1>6 DEF Begin
  <2>3. ~\E r \in Reqs : Live(r) /\ req[r].client = b.client
    BY <2>1, <2>2, <1>6
  <2>. QED BY <1>2, <1>6, <2>1, <2>3
<1>. QED BY <1>1, <1>2, <1>5, <1>6 DEF Arrived, Begin

(* What a quiet step leaves in its request's record. *)
Record(q) ==
  /\ Changes(q) /\ RequestOK(q)' /\ Arrived(q)
  /\ req'[q].token # None => Holds(req'[q].client, req'[q].token)
  /\ Found(q)' => /\ req'[q].client = req[q].client /\ req'[q].token = req[q].token
                  /\ \/ Found(q) /\ req'[q].row = req[q].row
                     \/ rows[req'[q].row].hash = req'[q].token
  /\ Answered(q)' => req'[q].token = None
  /\ ~Answered(q)
  /\ req'[q].pc \in {"insert", "rf_rotate", "answer"} =>
       \/ req'[q].gen # 0 \/ req'[q].role = "bootstrap_id"
       \/ req'[q].role = RoleOf(principal'[req'[q].who])
  /\ req'[q].role = "admin" =>
       hadAdmin = TRUE \/ RoleOf(principal'[req'[q].who]) = "admin"

(* A request that ends without an answer. *)
LEMMA IdleRecord ==
  ASSUME Inv, NEW q \in Reqs, Return(q), ~Answered(q)
  PROVE  Record(q)
<1>0. req \in [Reqs -> Request] /\ disturbed \subseteq Clients
  BY DEF Inv, TypeOK
<1>1. Changes(q) /\ req'[q] = Idle /\ UNCHANGED disturbed
  BY <1>0, ReturnEffect
<1>2. RequestOK(q)'
  BY <1>1, IdleFields DEF RequestOK, PrincipalPc, BootstrapPc, RefreshPc
<1>3. Arrived(q)
  BY <1>0, <1>1, IdleFields DEF Arrived
<1>. QED BY <1>1, <1>2, <1>3, IdleFields DEF Record, Found, Answered, At, Role

(* A request that arrives presents what its client holds, or nothing. *)
LEMMA ArriveRecord ==
  ASSUME Inv, NEW q \in Reqs, Arrive(q)
  PROVE  Record(q)
<1>1. ASSUME NEW b \in Request, Begin(q, b), b.who \in People, b.keep,
             b.pc \in {"answer", "gh_upsert", "gh_mode", "rf_find", "pp_operator", "pp_delete"},
             b.pc \in {"pp_operator", "pp_delete"} => b.client = None /\ b.token = None,
             b.pc \notin {"pp_operator", "pp_delete"} => b.client \in Clients,
             b.pc = "gh_mode" => b.gen # 0,
             b.pc = "answer" => b.role = "bootstrap_id",
             b.role \in {None, "bootstrap_id"},
             b.token # None => b.pc # "answer" /\ Holds(b.client, b.token)
      PROVE  Record(q)
  <2>1. Changes(q) /\ req'[q] = b /\ req[q] = Idle /\ Arrived(q)
    BY <1>1, BeginEffect
  <2>2. RequestOK(q)'
    BY <1>1, <2>1 DEF RequestOK, PrincipalPc, BootstrapPc, RefreshPc
  <2>. QED BY <1>1, <2>1, <2>2, IdleFields DEF Record, Found, Answered, At, Role
<1>2. ASSUME NEW c \in Clients, NEW p \in People, Login(q, c, p)
      PROVE  Record(q)
  <2> DEFINE a == [Idle EXCEPT !.pc = "answer", !.client = c, !.who = p, !.role = "bootstrap_id"]
             g == [Idle EXCEPT !.pc = "gh_upsert", !.client = c, !.who = p]
  <2>1. /\ a \in Request /\ a.pc = "answer" /\ a.client = c /\ a.who = p
        /\ a.role = "bootstrap_id" /\ a.token = None /\ a.keep
    BY IdleType, IdleFields DEF Request, Role
  <2>2. g \in Request /\ g.pc = "gh_upsert" /\ g.client = c /\ g.who = p /\ g.token = None
        /\ g.keep /\ g.role = None
    BY IdleType, IdleFields DEF Request, LoginPc
  <2>3. Begin(q, a) \/ Begin(q, g)
    BY <1>2 DEF Login
  <2> HIDE DEF a, g
  <2>. QED BY <1>1, <2>1, <2>2, <2>3
<1>3. ASSUME NEW c \in Profiles, NEW p \in People, ServiceDeploy(q, c, p)
      PROVE  Record(q)
  <2> DEFINE g == [Idle EXCEPT !.pc = "gh_mode", !.client = c, !.who = p, !.gen = deploys']
  <2>1. deploys' \in 0 .. MaxDeploys /\ deploys' # 0 /\ c \in Clients
    BY <1>3 DEF ServiceDeploy, Inv, TypeOK, Clients
  <2>2. g \in Request /\ g.pc = "gh_mode" /\ g.client = c /\ g.who = p /\ g.token = None
        /\ g.keep /\ g.role = None
        /\ g.gen # 0
    BY <2>1, IdleType, IdleFields DEF Request, BootstrapPc
  <2>3. Begin(q, g)
    BY <1>3 DEF ServiceDeploy
  <2> HIDE DEF g
  <2>. QED BY <1>1, <2>1, <2>2, <2>3
<1>4. ASSUME NEW c \in Clients, Refresh(q, c)
      PROVE  Record(q)
  <2> DEFINE g == [Idle EXCEPT !.pc = "rf_find", !.client = c, !.who = session[c].who,
                               !.token = session[c].refresh]
  <2>1. session[c] # None /\ session[c].who \in People /\ session[c].refresh \in Token \cup {None}
    BY <1>4 DEF Refresh, Inv, TypeOK, Session
  <2>2. g \in Request /\ g.pc = "rf_find" /\ g.client = c /\ g.who \in People
        /\ g.token = session[c].refresh /\ g.keep /\ g.role = None
    BY <2>1, IdleType, IdleFields DEF Request, RefreshPc
  <2>3. Begin(q, g)
    BY <1>4 DEF Refresh
  <2> HIDE DEF g
  <2>4. g.token # None => Holds(c, g.token)
    BY <2>1, <2>2 DEF Holds
  <2>. QED BY <1>1, <2>2, <2>3, <2>4
<1>5. ASSUME NEW p \in People, NEW patch \in Patches, PatchPrincipal(q, p, patch)
      PROVE  Record(q)
  <2> DEFINE g == [Idle EXCEPT !.pc = "pp_operator", !.who = p,
                               !.is_operator = patch[1], !.is_admin = patch[2]]
  <2>1. patch[1] \in Flag /\ patch[2] \in Flag
    BY DEF Flag
  <2>2. g \in Request /\ g.pc = "pp_operator" /\ g.client = None /\ g.who = p /\ g.token = None
        /\ g.keep /\ g.role = None
    BY <2>1, IdleType, IdleFields DEF Request, PrincipalPc
  <2>3. Begin(q, g)
    BY <1>5 DEF PatchPrincipal
  <2> HIDE DEF g
  <2>. QED BY <1>1, <2>2, <2>3
<1>6. ASSUME NEW p \in People, RemovePrincipal(q, p)
      PROVE  Record(q)
  <2> DEFINE g == [Idle EXCEPT !.pc = "pp_delete", !.who = p]
  <2>2. g \in Request /\ g.pc = "pp_delete" /\ g.client = None /\ g.who = p /\ g.token = None
        /\ g.keep /\ g.role = None
    BY IdleType, IdleFields DEF Request, PrincipalPc
  <2>3. Begin(q, g)
    BY <1>6 DEF RemovePrincipal
  <2> HIDE DEF g
  <2>. QED BY <1>1, <2>2, <2>3
<1>. QED BY <1>2, <1>3, <1>4, <1>5, <1>6 DEF Arrive

(* A step that goes on with the same record. *)
LEMMA GotoRecord ==
  ASSUME Inv, NEW q \in Reqs, NEW pc \in Pc, Goto(q, pc), req[q].pc \notin {"idle", "answer"},
         \/ req[q].pc \in BootstrapPc /\ pc \in BootstrapPc
         \/ req[q].pc \in PrincipalPc /\ pc \in PrincipalPc
         \/ req[q].pc \in RefreshPc /\ pc = "rf_refused"
  PROVE  Record(q)
<1>0. req \in [Reqs -> Request] /\ disturbed \subseteq Clients
  BY DEF Inv, TypeOK
<1>1. Changes(q) /\ req'[q].pc = pc /\ Same(q) /\ UNCHANGED disturbed
  BY <1>0, GotoEffect
<1>2. RequestOK(q)
  BY DEF Inv, Requests
<1>3. RequestOK(q)'
  BY <1>1, <1>2 DEF RequestOK, PrincipalPc, BootstrapPc, RefreshPc, Same
<1>4. Arrived(q)
  BY <1>0, <1>1 DEF Arrived, Same
<1>5. req[q].token # None => Holds(req[q].client, req[q].token)
  BY DEF Holds
<1>6. req[q].role = "admin" => hadAdmin = TRUE
  BY DEF Inv, Admins
<1>. QED
  BY <1>1, <1>3, <1>4, <1>5, <1>6 DEF Record, Found, Answered, At, Same,
     BootstrapPc, PrincipalPc, RefreshPc

(* A step that has found a role. *)
LEMMA RoleRecord ==
  ASSUME Inv, NEW q \in Reqs, NEW role \in Elevated, NEW pc \in {"insert", "rf_rotate"},
         Move(q, [req[q] EXCEPT !.pc = pc, !.role = role]), UNCHANGED rows,
         pc = "insert" => req[q].pc \in {"gh_upsert", "bs_delete"},
         pc = "rf_rotate" => req[q].pc = "rf_role",
         req[q].pc = "bs_delete" \/ role = RoleOf(principal'[req[q].who])
  PROVE  Record(q)
<1>0. req \in [Reqs -> Request] /\ disturbed \subseteq Clients
  BY DEF Inv, TypeOK
<1>r. pc \in Pc /\ role \in Role
  BY DEF Pc, LoginPc, RefreshPc, Role, Elevated
<1> DEFINE r == [req[q] EXCEPT !.pc = pc, !.role = role]
<1>f. req[q] \in Request
  BY <1>0
<1>1. r \in Request /\ r.pc = pc /\ r.client = req[q].client /\ r.who = req[q].who
      /\ r.gen = req[q].gen /\ r.token = req[q].token /\ r.row = req[q].row
      /\ r.role = role /\ r.keep = req[q].keep
  <2>1. r \in Request
    BY <1>f, <1>r DEF Request, Pc
  <2>2. r.pc = pc /\ r.role = role
    BY <1>f DEF Request
  <2>3. /\ r.client = req[q].client /\ r.who = req[q].who /\ r.gen = req[q].gen
        /\ r.token = req[q].token /\ r.row = req[q].row /\ r.keep = req[q].keep
    BY <1>f DEF Request
  <2>. QED BY <2>1, <2>2, <2>3
<1>2. req' = [req EXCEPT ![q] = r] /\ UNCHANGED disturbed
  BY DEF Move
<1> HIDE DEF r
<1>3. Changes(q) /\ req'[q] = r
  BY <1>0, <1>1, <1>2, MoveEffect
<1>4. RequestOK(q)
  BY DEF Inv, Requests
<1>5. RequestOK(q)'
  BY <1>1, <1>3, <1>4 DEF RequestOK, PrincipalPc, BootstrapPc, RefreshPc
<1>6. Arrived(q)
  BY <1>0, <1>1, <1>2, <1>3 DEF Arrived
<1>7. req[q].token # None => Holds(req[q].client, req[q].token)
  BY DEF Holds
<1>8. req[q].pc = "bs_delete" => req[q].gen # 0 /\ hadAdmin = TRUE
  BY <1>4 DEF RequestOK, BootstrapPc, Inv, Admins
<1>. QED
  BY <1>1, <1>3, <1>5, <1>6, <1>7, <1>8 DEF Record, Found, Answered, At

(* A deploy that finds no bootstrap token goes on as a login whose answer  *)
(* it drops.                                                               *)
LEMMA DeployLoginRecord ==
  ASSUME Inv, NEW q \in Reqs, DeployLogin(q)
  PROVE  Record(q)
<1>0. req \in [Reqs -> Request] /\ disturbed \subseteq Clients /\ req[q].pc = "gh_mode"
  BY DEF Inv, TypeOK, DeployLogin, At
<1>1. CASE Goto(q, "bs_check")
  BY <1>0, <1>1, GotoRecord DEF Pc, BootstrapPc
<1>2. CASE Move(q, [req[q] EXCEPT !.pc = "gh_upsert", !.keep = FALSE])
  <2> DEFINE r == [req[q] EXCEPT !.pc = "gh_upsert", !.keep = FALSE]
  <2>f. req[q] \in Request
    BY <1>0
  <2>1. r \in Request /\ r.pc = "gh_upsert" /\ r.client = req[q].client /\ r.who = req[q].who
        /\ r.gen = req[q].gen /\ r.token = req[q].token /\ r.row = req[q].row
        /\ r.role = req[q].role
    <3>1. r \in Request /\ r.pc = "gh_upsert"
      BY <2>f DEF Request, LoginPc
    <3>2. /\ r.client = req[q].client /\ r.who = req[q].who /\ r.gen = req[q].gen
          /\ r.token = req[q].token /\ r.row = req[q].row /\ r.role = req[q].role
      BY <2>f DEF Request
    <3>. QED BY <3>1, <3>2
  <2>2. req' = [req EXCEPT ![q] = r] /\ UNCHANGED disturbed
    BY <1>2 DEF Move
  <2> HIDE DEF r
  <2>3. Changes(q) /\ req'[q] = r
    BY <1>0, <2>1, <2>2, MoveEffect
  <2>4. RequestOK(q) /\ (req[q].role = "admin" => hadAdmin = TRUE)
    BY DEF Inv, Requests, Admins
  <2>5. RequestOK(q)'
    BY <1>0, <2>1, <2>3, <2>4 DEF RequestOK, PrincipalPc, BootstrapPc, RefreshPc
  <2>6. Arrived(q)
    BY <1>0, <2>1, <2>2, <2>3 DEF Arrived
  <2>7. req[q].token # None => Holds(req[q].client, req[q].token)
    BY DEF Holds
  <2>. QED
    BY <1>0, <2>1, <2>3, <2>4, <2>5, <2>6, <2>7 DEF Record, Found, Answered, At
<1>. QED BY <1>1, <1>2 DEF DeployLogin

(* A refresh that finds its token's row takes the person from it. *)
LEMMA FindRecord ==
  ASSUME Inv, NEW q \in Reqs, FindRefreshToken(q)
  PROVE  Record(q)
<1>0. /\ req \in [Reqs -> Request] /\ disturbed \subseteq Clients /\ req[q].pc = "rf_find"
      /\ rows \in [Token -> Row \cup {None}] /\ UNCHANGED rows
  BY DEF Inv, TypeOK, FindRefreshToken, At, store
<1>1. CASE Goto(q, "rf_refused")
  BY <1>0, <1>1, GotoRecord DEF Pc, RefreshPc
<1>2. ASSUME NEW i \in Token, rows[i] # None, rows[i].hash = req[q].token,
             Move(q, [req[q] EXCEPT !.pc = "rf_role", !.row = i, !.who = rows[i].subject])
      PROVE  Record(q)
  <2> DEFINE p == rows[i].subject
  <2> DEFINE r == [req[q] EXCEPT !.pc = "rf_role", !.row = i, !.who = p]
  <2>0. p \in People /\ req[q].token \in Token /\ p = rows[i].subject
    BY <1>0, <1>2 DEF Row
  <2>2. req' = [req EXCEPT ![q] = r] /\ UNCHANGED disturbed
    BY <1>2 DEF Move
  <2> HIDE DEF p
  <2>1. r \in Request /\ r.pc = "rf_role" /\ r.client = req[q].client /\ r.who = p
        /\ r.token = req[q].token /\ r.row = i
        /\ r.role = req[q].role /\ r.keep = req[q].keep
    <3>1. req[q] \in Request /\ p \in People /\ "rf_role" \in Pc
      BY <1>0, <2>0 DEF Pc, RefreshPc
    <3>2. r \in Request
      BY <3>1 DEF Request, Pc
    <3>3. r.pc = "rf_role" /\ r.row = i /\ r.who = p
      BY <3>1 DEF Request
    <3>4. /\ r.client = req[q].client /\ r.token = req[q].token
          /\ r.role = req[q].role /\ r.keep = req[q].keep
      BY <3>1 DEF Request
    <3>. QED BY <3>2, <3>3, <3>4
  <2> HIDE DEF r
  <2>3. Changes(q) /\ req'[q] = r
    BY <1>0, <2>1, <2>2, MoveEffect
  <2>4. RequestOK(q) /\ (req[q].role = "admin" => hadAdmin = TRUE)
    BY DEF Inv, Requests, Admins
  <2>5. RequestOK(q)'
    BY <1>0, <1>2, <2>0, <2>1, <2>3, <2>4 DEF RequestOK, PrincipalPc, BootstrapPc, RefreshPc
  <2>6. Arrived(q)
    BY <1>0, <2>1, <2>2, <2>3 DEF Arrived
  <2>7. req[q].token # None => Holds(req[q].client, req[q].token)
    BY DEF Holds
  <2>. QED
    BY <1>0, <1>2, <2>1, <2>3, <2>4, <2>5, <2>6, <2>7 DEF Record, Found, Answered, At
<1>. QED BY <1>1, <1>2 DEF FindRefreshToken

(* A quiet step adds no session; it may forget one. *)
Forgets == /\ session' \in [Clients -> Session \cup {None}]
           /\ \A c \in Clients : session'[c] \in {None, session[c]}

(* Every quiet step in the terms of Record. *)
LEMMA QuietRecord ==
  ASSUME Inv, NEW q \in Reqs, QuietStep(q)
  PROVE  Record(q) /\ Forgets /\ Observe /\ UNCHANGED <<rows, issued, retired>>
<1>0. /\ req[q].pc \in Pc /\ principal \in [People -> Principal \cup {None}]
      /\ session \in [Clients -> Session \cup {None}] /\ RequestOK(q)
  BY DEF Inv, TypeOK, Requests, Request, Pc
<1>1. UNCHANGED <<rows, issued, retired>> /\ Observe
  BY DEF QuietStep, Arrive, Login, ServiceDeploy, Refresh, PatchPrincipal, RemovePrincipal,
     GitHubPrincipal, BootstrapStep, DeployLogin, BootstrapCheck, BootstrapPrincipal,
     BootstrapAdmin, BootstrapOperator, DeleteBootstrapToken, FindRefreshToken, RefreshRole,
     RefreshRefused, PrincipalStep, PatchOperator, PatchAdmin, DeletePrincipal, RequestFails,
     store
<1>2. Forgets
  <2>1. CASE RefreshRefused(q)
    BY <1>0, <2>1 DEF RefreshRefused, Forgets
  <2>2. CASE ~RefreshRefused(q)
    <3>1. UNCHANGED session
      BY <2>2 DEF QuietStep, Arrive, Login, ServiceDeploy, Refresh, PatchPrincipal,
         RemovePrincipal, GitHubPrincipal, BootstrapStep, DeployLogin, BootstrapCheck,
         BootstrapPrincipal, BootstrapAdmin, BootstrapOperator, DeleteBootstrapToken,
         FindRefreshToken, RefreshRole, PrincipalStep, PatchOperator, PatchAdmin,
         DeletePrincipal, RequestFails
    <3>. QED BY <1>0, <3>1 DEF Forgets
  <2>. QED BY <2>1, <2>2
<1>3. CASE Arrive(q)
  BY <1>1, <1>2, <1>3, ArriveRecord
<1>4. CASE GitHubPrincipal(q)
  <2> DEFINE role == RoleOf(principal[req[q].who])
  <2>1. At(q, "gh_upsert") /\ ~Answered(q) /\ req[q].who \in People
    BY <1>0, <1>4 DEF GitHubPrincipal, Answered, At, RequestOK
  <2>2. CASE role = "none"
    BY <1>1, <1>2, <1>4, <2>1, <2>2, IdleRecord DEF GitHubPrincipal
  <2>3. CASE role # "none"
    <3>1. role \in Elevated /\ principal[req[q].who] # None
      BY <2>3 DEF RoleOf, Elevated
    <3>2. principal'[req[q].who] = principal[req[q].who]
      BY <1>0, <1>4, <2>1, <3>1 DEF GitHubPrincipal, UpsertPrincipal
    <3>3. Move(q, [req[q] EXCEPT !.pc = "insert", !.role = role])
      BY <1>4, <2>3 DEF GitHubPrincipal
    <3>4. role = RoleOf(principal'[req[q].who])
      BY <3>2
    <3> HIDE DEF role
    <3>. QED BY <1>1, <1>2, <2>1, <3>1, <3>3, <3>4, RoleRecord DEF At
  <2>. QED BY <2>2, <2>3
<1>5. CASE DeployLogin(q)
  BY <1>1, <1>2, <1>5, DeployLoginRecord
<1>6. CASE BootstrapCheck(q) \/ BootstrapPrincipal(q) \/ BootstrapAdmin(q) \/ BootstrapOperator(q)
  <2>1. /\ req[q].pc \in {"bs_check", "bs_upsert", "bs_admin", "bs_operator"} /\ ~Answered(q)
        /\ \/ Return(q) \/ Goto(q, "bs_upsert") \/ Goto(q, "bs_admin") \/ Goto(q, "bs_operator")
           \/ Goto(q, "bs_delete")
    BY <1>6 DEF BootstrapCheck, BootstrapPrincipal, BootstrapAdmin, BootstrapOperator, At, Answered
  <2>2. req[q].pc \notin {"idle", "answer"} /\ req[q].pc \in BootstrapPc
    BY <2>1 DEF BootstrapPc
  <2>3. /\ "bs_upsert" \in Pc \cap BootstrapPc /\ "bs_admin" \in Pc \cap BootstrapPc
        /\ "bs_operator" \in Pc \cap BootstrapPc /\ "bs_delete" \in Pc \cap BootstrapPc
    BY DEF Pc, BootstrapPc
  <2>4. Record(q)
    BY <2>1, <2>2, <2>3, IdleRecord, GotoRecord
  <2>. QED BY <1>1, <1>2, <2>4
<1>7. CASE DeleteBootstrapToken(q)
  <2>1. "admin" \in Elevated
    BY DEF Elevated
  <2>. QED BY <1>1, <1>2, <1>7, <2>1, RoleRecord DEF DeleteBootstrapToken, At
<1>8. CASE FindRefreshToken(q)
  BY <1>1, <1>2, <1>8, FindRecord
<1>9. CASE RefreshRole(q)
  <2> DEFINE role == RoleOf(principal[req[q].who])
  <2>1. req[q].pc = "rf_role" /\ UNCHANGED principal
    BY <1>9 DEF RefreshRole, At, store
  <2>2. CASE role = "none"
    BY <1>1, <1>2, <1>9, <2>1, <2>2, GotoRecord DEF RefreshRole, RefreshPc, Pc
  <2>3. CASE role # "none"
    <3>1. role \in Elevated /\ role = RoleOf(principal'[req[q].who])
      BY <2>1, <2>3 DEF RoleOf, Elevated
    <3>3. Move(q, [req[q] EXCEPT !.pc = "rf_rotate", !.role = role])
      BY <1>9, <2>3 DEF RefreshRole
    <3> HIDE DEF role
    <3>. QED BY <1>1, <1>2, <2>1, <3>1, <3>3, RoleRecord
  <2>. QED BY <2>2, <2>3
<1>10. CASE RefreshRefused(q)
  BY <1>1, <1>2, <1>10, IdleRecord DEF RefreshRefused, At, Answered
<1>11. CASE PrincipalStep(q)
  <2>1. /\ req[q].pc \in PrincipalPc /\ ~Answered(q)
        /\ Return(q) \/ Goto(q, "pp_admin")
    BY <1>11 DEF PrincipalStep, PatchOperator, PatchAdmin, DeletePrincipal, At, Answered, PrincipalPc
  <2>2. req[q].pc \notin {"idle", "answer"} /\ "pp_admin" \in Pc \cap PrincipalPc
    BY <2>1 DEF PrincipalPc, Pc
  <2>. QED BY <1>1, <1>2, <2>1, <2>2, IdleRecord, GotoRecord
<1>12. CASE RequestFails(q)
  <2>1. /\ req[q].pc \notin {"idle", "answer"} /\ ~Answered(q)
        /\ Return(q) \/ (req[q].pc \in RefreshPc /\ Goto(q, "rf_refused"))
    BY <1>12 DEF RequestFails, Live, Answered, At
  <2>2. "rf_refused" \in Pc
    BY DEF RefreshPc, Pc
  <2>. QED BY <1>1, <1>2, <2>1, <2>2, IdleRecord, GotoRecord
<1>. QED
  BY <1>3, <1>4, <1>5, <1>6, <1>7, <1>8, <1>9, <1>10, <1>11, <1>12 DEF QuietStep, BootstrapStep

-----------------------------------------------------------------------------
(* What the invariant says of tokens, after a quiet step *)

(* Nobody comes to hold a token. *)
LEMMA QuietHolds ==
  ASSUME Inv, NEW q \in Reqs, QuietStep(q)
  PROVE  \A c \in Clients, t \in Token : Holds(c, t)' => Holds(c, t)
<1>1. Record(q) /\ Forgets
  BY QuietRecord
<1>2. SUFFICES ASSUME NEW c \in Clients, NEW t \in Token, Holds(c, t)'
               PROVE  Holds(c, t)
  OBVIOUS
<1>3. t # None
  BY DEF Token
<1>4. CASE session'[c] # None /\ session'[c].refresh = t
  <2>1. session'[c] = session[c]
    BY <1>1, <1>4 DEF Forgets
  <2>. QED BY <1>3, <1>4, <2>1 DEF Holds
<1>5. ASSUME NEW r \in Reqs, req'[r].client = c, req'[r].token = t
      PROVE  Holds(c, t)
  <2>1. CASE r = q
    BY <1>1, <1>3, <1>5, <2>1 DEF Record
  <2>2. CASE r # q
    <3>1. req'[r] = req[r]
      BY <1>1, <2>2 DEF Record, Changes
    <3>. QED BY <1>3, <1>5, <3>1 DEF Holds
  <2>. QED BY <2>1, <2>2
<1>. QED BY <1>2, <1>4, <1>5 DEF Holds

(* A quiet step keeps the requests' records and the bound on tokens. *)
LEMMA QuietTokens ==
  ASSUME Inv, NEW q \in Reqs, QuietStep(q)
  PROVE  Requests' /\ Issued' /\ Hashes' /\ ExchangedOnce'
<1>1. Record(q) /\ Forgets /\ UNCHANGED <<rows, issued, retired>>
  BY QuietRecord
<1>2. \A r \in Reqs \ {q} : req'[r] = req[r]
  BY <1>1 DEF Record, Changes
<1>3. Requests'
  BY <1>1, <1>2 DEF Record, Requests, RequestOK, Inv
<1>4. Issued'
  <2>1. req'[q].token # None => req'[q].token <= issued
    <3>1. SUFFICES ASSUME req'[q].token # None
                   PROVE  req'[q].token <= issued
      OBVIOUS
    <3>2. Holds(req'[q].client, req'[q].token)
      BY <1>1, <3>1 DEF Record
    <3>3. req'[q].client \in Clients
      BY <1>3, <3>1, IdleFields DEF Requests, RequestOK
    <3>. QED BY <3>1, <3>2, <3>3 DEF Holds, Inv, Issued
  <2>2. \A c \in Clients : session'[c] # None => session'[c] = session[c]
    BY <1>1 DEF Forgets
  <2>. QED BY <1>1, <1>2, <2>1, <2>2 DEF Inv, Issued
<1>5. Hashes'
  <2>1. SUFFICES ASSUME NEW r \in Reqs, Found(r)', NEW i \in Token,
                        rows[i] # None, rows[i].hash = req'[r].token
                 PROVE  i = req'[r].row
    BY <1>1 DEF Hashes
  <2>2. CASE r # q
    BY <1>2, <2>1, <2>2 DEF Inv, Hashes, Found
  <2>3. CASE r = q
    <3>1. req'[q].row \in Token /\ rows[req'[q].row] # None
      BY <1>1, <2>1, <2>3 DEF Record, RequestOK, Found
    <3>2. CASE Found(q) /\ req'[q].row = req[q].row
      BY <1>1, <2>1, <2>3, <3>2 DEF Record, Inv, Hashes
    <3>3. CASE rows[req'[q].row].hash = req'[q].token
      BY <2>1, <2>3, <3>1, <3>3 DEF Inv, ExchangedOnce
    <3>. QED BY <1>1, <2>1, <2>3, <3>2, <3>3 DEF Record
  <2>. QED BY <2>2, <2>3
<1>6. ExchangedOnce'
  BY <1>1 DEF ExchangedOnce, Inv
<1>. QED BY <1>3, <1>4, <1>5, <1>6

(* A row that a quiet step finds belongs to the client that presents its   *)
(* token.                                                                  *)
LEMMA QuietPrivate ==
  ASSUME Inv, NEW q \in Reqs, QuietStep(q)
  PROVE  Private'
<1>1. Record(q) /\ UNCHANGED rows
  BY QuietRecord
<1>2. \A r \in Reqs \ {q} : req'[r] = req[r]
  BY <1>1 DEF Record, Changes
<1>3. \A c \in Clients, t \in Token : Holds(c, t)' => Holds(c, t)
  BY QuietHolds
<1>4. Private
  BY DEF Inv
<1>r. rows \in [Token -> Row \cup {None}]
  BY DEF Inv, TypeOK
<1>5. ASSUME Found(q)'
      PROVE  /\ req'[q].client \in Clients /\ req'[q].token # None
             /\ Holds(req'[q].client, req'[q].token)
             /\ req'[q].client = req[q].client
             /\ \/ Found(q) /\ req'[q].row = req[q].row
                \/ rows[req'[q].row].hash = req'[q].token
  BY <1>1, <1>5 DEF Record, RequestOK, Found, PrincipalPc, Token
<1>6. ASSUME NEW r \in Reqs, Found(r)'
      PROVE  rows[req'[r].row].hash \in Token
  <2>1. req'[r].row \in Token /\ rows[req'[r].row] # None
    BY <1>6, QuietTokens, <1>1 DEF Requests, RequestOK, Found
  <2>. QED BY <1>r, <2>1 DEF Row
<1>7. \A c, d \in Clients, t \in Token : Holds(c, t)' /\ Holds(d, t)' => c = d
  BY <1>3, <1>4 DEF Private
<1>8. ASSUME NEW r \in Reqs, NEW c \in Clients, NEW h \in Token,
             Found(r)', Holds(c, h)', h = rows[req'[r].row].hash
      PROVE  c = req'[r].client
  <2>2. Holds(c, h)
    BY <1>3, <1>8
  <2>3. CASE r # q
    BY <1>2, <1>4, <1>8, <2>2, <2>3 DEF Private, Found
  <2>4. CASE r = q /\ Found(q) /\ req'[q].row = req[q].row
    BY <1>4, <1>5, <1>8, <2>2, <2>4 DEF Private
  <2>5. CASE r = q /\ h = req'[q].token
    BY <1>4, <1>5, <1>8, <2>2, <2>5 DEF Private
  <2>. QED BY <1>5, <1>8, <2>3, <2>4, <2>5
<1>9. ASSUME NEW r \in Reqs \ {q}, Found(q)', Found(r)', req'[q].row = req'[r].row
      PROVE  req'[q].client = req'[r].client
  <2>1. req'[r] = req[r] /\ Found(r)
    BY <1>2, <1>9 DEF Found
  <2>2. CASE Found(q) /\ req'[q].row = req[q].row
    BY <1>4, <1>5, <1>9, <2>1, <2>2 DEF Private
  <2>3. CASE rows[req'[q].row].hash = req'[q].token
    <3>1. Holds(req'[q].client, rows[req[r].row].hash)
      BY <1>5, <1>9, <2>1, <2>3
    <3>. QED BY <1>4, <1>5, <1>9, <2>1, <3>1 DEF Private
  <2>. QED BY <1>5, <1>9, <2>2, <2>3
<1>10. ASSUME NEW r \in Reqs, NEW s \in Reqs, Found(r)', Found(s)', req'[r].row = req'[s].row
       PROVE  req'[r].client = req'[s].client
  <2>1. CASE r = q \/ s = q
    BY <1>9, <1>10, <2>1
  <2>2. CASE r # q /\ s # q
    BY <1>2, <1>4, <1>10, <2>2 DEF Private, Found
  <2>. QED BY <2>1, <2>2
<1>. QED
  <2>1. ASSUME NEW r \in Reqs, NEW c \in Clients, (Found(r) /\ Holds(c, rows[req[r].row].hash))'
        PROVE  c = req'[r].client
    BY <1>1, <1>6, <1>8, <2>1
  <2>. QED BY <1>7, <1>10, <2>1 DEF Private

(* A quiet step leaves every undisturbed client its token. *)
LEMMA QuietUndisturbed ==
  ASSUME Inv, NEW q \in Reqs, QuietStep(q)
  PROVE  Undisturbed'
<1>1. Record(q) /\ Forgets /\ UNCHANGED rows
  BY QuietRecord
<1>2. \A r \in Reqs \ {q} : req'[r] = req[r]
  BY <1>1 DEF Record, Changes
<1>3. \A t, p : Good(t, p)' <=> Good(t, p)
  BY <1>1 DEF Good
<1>4. SUFFICES ASSUME NEW c \in Clients \ disturbed'
      PROVE  /\ \A r, s \in Reqs : req'[r].client = c /\ req'[s].client = c => r = s
             /\ \A r \in Reqs : req'[r].client = c /\ Answered(r)' /\ req'[r].token # None =>
                  Good(req'[r].token, req'[r].who)
             /\ /\ session'[c] # None /\ session'[c].refresh # None
                /\ \A r \in Reqs : req'[r].client = c => ~Answered(r)'
                => Good(session'[c].refresh, session'[c].who)
  BY <1>3 DEF Undisturbed
<1>5. c \in Clients \ disturbed /\ Undisturbed
  BY <1>1, <1>4 DEF Record, Arrived, Inv
<1>6. \A r, s \in Reqs : req[r].client = c /\ req[s].client = c => r = s
  BY <1>5 DEF Undisturbed
<1>7. req'[q].client = c => req[q].client = c \/ \A r \in Reqs : req[r].client # c
  BY <1>1, <1>4 DEF Record, Arrived
<1>8. \A r, s \in Reqs : req'[r].client = c /\ req'[s].client = c => r = s
  BY <1>2, <1>6, <1>7
<1>9. ASSUME NEW r \in Reqs, req'[r].client = c, Answered(r)', req'[r].token # None
      PROVE  Good(req'[r].token, req'[r].who)
  <2>1. r # q
    BY <1>1, <1>9 DEF Record
  <2>. QED BY <1>2, <1>5, <1>9, <2>1 DEF Undisturbed, Answered, At
<1>10. ASSUME session'[c] # None, session'[c].refresh # None,
              \A r \in Reqs : req'[r].client = c => ~Answered(r)'
       PROVE  Good(session'[c].refresh, session'[c].who)
  <2>1. session'[c] = session[c]
    BY <1>1, <1>10 DEF Forgets
  <2>2. \A r \in Reqs : req[r].client = c => ~Answered(r)
    BY <1>1, <1>2, <1>10 DEF Record, Answered, At
  <2>. QED BY <1>5, <1>10, <2>1, <2>2 DEF Undisturbed
<1>. QED BY <1>8, <1>9, <1>10

-----------------------------------------------------------------------------
(* A step that issues a token *)

(* Request q puts a new token in row i, which is new or the one it found.  *)
Issues(q, i) ==
  /\ i \in Token /\ issued \in Nat /\ issued' = issued + 1 /\ issued' \in Token
  /\ rows' \in [Token -> Row \cup {None}]
  /\ rows'[i] # None /\ rows'[i].hash = issued' /\ rows'[i].subject = req[q].who
  /\ \A j \in Token \ {i} : rows'[j] = rows[j]
  /\ \/ req[q].pc = "insert" /\ i = issued' /\ rows[i] = None /\ retired' = retired
     \/ /\ req[q].pc = "rf_rotate" /\ i = req[q].row /\ rows[i] # None
        /\ rows[i].subject = req[q].who /\ retired' = retired \cup {req[q].token}
  /\ Changes(q) /\ UNCHANGED <<session, disturbed, principal, secret, deploys, made>> /\ Observe
  /\ req'[q].pc = "answer" /\ req'[q].token = issued'
  /\ req'[q].client = req[q].client /\ req'[q].who = req[q].who /\ req'[q].gen = req[q].gen
  /\ req'[q].role = req[q].role /\ req'[q].keep = req[q].keep
  /\ req[q].client \in Clients /\ req[q].who \in People /\ req[q].role \in Elevated
  /\ req[q].pc = "rf_rotate" => req[q].token \in Token /\ req[q].keep

(* The answer that a request goes on to. *)
LEMMA AnswerMove ==
  ASSUME Inv, NEW q \in Reqs, NEW n \in Token,
         Move(q, [req[q] EXCEPT !.pc = "answer", !.token = n])
  PROVE  /\ Changes(q) /\ UNCHANGED <<disturbed, made>>
         /\ req'[q].pc = "answer" /\ req'[q].token = n
         /\ req'[q].client = req[q].client /\ req'[q].who = req[q].who
         /\ req'[q].gen = req[q].gen /\ req'[q].role = req[q].role
         /\ req'[q].keep = req[q].keep
<1>0. req \in [Reqs -> Request]
  BY DEF Inv, TypeOK
<1> DEFINE r == [req[q] EXCEPT !.pc = "answer", !.token = n]
<1>1. r \in Request /\ r.pc = "answer" /\ r.client = req[q].client /\ r.who = req[q].who
      /\ r.gen = req[q].gen /\ r.token = n /\ r.role = req[q].role /\ r.keep = req[q].keep
  <2>1. req[q] \in Request /\ "answer" \in Pc
    BY <1>0 DEF Pc
  <2>. QED BY <2>1 DEF Request, Pc
<1>2. req' = [req EXCEPT ![q] = r] /\ UNCHANGED <<disturbed, made>>
  BY DEF Move
<1> HIDE DEF r
<1>3. Changes(q) /\ req'[q] = r
  BY <1>0, <1>1, <1>2, MoveEffect
<1>. QED BY <1>1, <1>2, <1>3

(* A login's row is a new one. *)
LEMMA InsertIssues ==
  ASSUME Inv, NEW q \in Reqs, InsertRefreshToken(q)
  PROVE  Issues(q, issued')
<1>0. /\ rows \in [Token -> Row \cup {None}] /\ req[q].pc = "insert"
      /\ issued \in Nat /\ issued' = issued + 1 /\ issued' \in Token
  BY DEF Inv, TypeOK, InsertRefreshToken, At, Token
<1>1. req[q].client \in Clients /\ req[q].who \in People /\ req[q].role \in Elevated
  BY <1>0 DEF Inv, Requests, RequestOK, PrincipalPc
<1> DEFINE n == issued'
           w == [hash |-> n, subject |-> req[q].who, role |-> req[q].role, expired |-> FALSE]
<1>2. w \in Row /\ w.hash = issued' /\ w.subject = req[q].who
  BY <1>0, <1>1 DEF Row, Elevated
<1>3. rows' = [rows EXCEPT ![issued'] = w]
  BY DEF InsertRefreshToken
<1> HIDE DEF w
<1>4. /\ rows' \in [Token -> Row \cup {None}] /\ rows'[issued'] = w /\ w # None
      /\ \A j \in Token \ {issued'} : rows'[j] = rows[j]
  BY <1>0, <1>2, <1>3
<1>5. rows[issued'] = None
  <2>1. ~(issued' <= issued)
    BY <1>0
  <2>. QED BY <1>0, <2>1 DEF Inv, Issued
<1>6. /\ Changes(q) /\ UNCHANGED <<disturbed, made>>
      /\ req'[q].pc = "answer" /\ req'[q].token = n
      /\ req'[q].client = req[q].client /\ req'[q].who = req[q].who
      /\ req'[q].gen = req[q].gen /\ req'[q].role = req[q].role
      /\ req'[q].keep = req[q].keep
  <2>1. Move(q, [req[q] EXCEPT !.pc = "answer", !.token = n]) /\ n \in Token
    BY <1>0 DEF InsertRefreshToken
  <2> HIDE DEF n
  <2>. QED BY <2>1, AnswerMove
<1>7. Observe /\ UNCHANGED <<session, principal, secret, deploys, retired>>
  BY DEF InsertRefreshToken
<1>. QED BY <1>0, <1>1, <1>2, <1>4, <1>5, <1>6, <1>7 DEF Issues

(* An exchange keeps the row that it found, whoever rotated it meanwhile. *)
LEMMA RotateIssues ==
  ASSUME Inv, NEW q \in Reqs, RotateRefreshToken(q)
  PROVE  Issues(q, req[q].row)
<1>0. /\ rows \in [Token -> Row \cup {None}] /\ req[q].pc = "rf_rotate"
      /\ issued \in Nat /\ issued' = issued + 1 /\ issued' \in Token
  BY DEF Inv, TypeOK, RotateRefreshToken, At, Token
<1>1. /\ req[q].client \in Clients /\ req[q].who \in People /\ req[q].role \in Elevated
      /\ req[q].row \in Token /\ rows[req[q].row] # None /\ req[q].token \in Token
      /\ rows[req[q].row].subject = req[q].who /\ req[q].keep
  BY <1>0 DEF Inv, Requests, RequestOK, PrincipalPc, RefreshPc
<1> DEFINE n == issued'
           i == req[q].row
           v == rows[i]
           w == [v EXCEPT !.hash = n, !.expired = FALSE]
<1>v. v \in Row /\ v.subject = req[q].who
  BY <1>0, <1>1
<1>3. rows' = [rows EXCEPT ![i] = w]
  BY DEF RotateRefreshToken, Rotated
<1>2. w \in Row /\ w.hash = n /\ w.subject = v.subject
  <2>1. n \in Token
    BY <1>0
  <2> HIDE DEF v, n
  <2>. QED BY <1>v, <2>1 DEF Row
<1> HIDE DEF w
<1>4. /\ rows' \in [Token -> Row \cup {None}] /\ rows'[i] = w /\ w # None
      /\ \A j \in Token \ {i} : rows'[j] = rows[j]
  <2>1. i \in Token
    BY <1>1
  <2> HIDE DEF i
  <2>. QED BY <1>0, <1>2, <1>3, <2>1
<1>6. /\ Changes(q) /\ UNCHANGED <<disturbed, made>>
      /\ req'[q].pc = "answer" /\ req'[q].token = n
      /\ req'[q].client = req[q].client /\ req'[q].who = req[q].who
      /\ req'[q].gen = req[q].gen /\ req'[q].role = req[q].role
      /\ req'[q].keep = req[q].keep
  <2>1. Move(q, [req[q] EXCEPT !.pc = "answer", !.token = n]) /\ n \in Token
    BY <1>0 DEF RotateRefreshToken
  <2> HIDE DEF n
  <2>. QED BY <2>1, AnswerMove
<1>7. Observe /\ UNCHANGED <<session, principal, secret, deploys>>
      /\ retired' = retired \cup {req[q].token}
  BY DEF RotateRefreshToken
<1>8. rows'[i].hash = n /\ rows'[i].subject = req[q].who /\ rows'[i] # None
  BY <1>2, <1>4, <1>v
<1>. QED BY <1>0, <1>1, <1>4, <1>6, <1>7, <1>8 DEF Issues

(* The new token is nobody else's: it is in no other row and in no other   *)
(* hand.                                                                   *)
LEMMA IssuesFresh ==
  ASSUME Inv, NEW q \in Reqs, NEW i, Issues(q, i)
  PROVE  /\ \A r \in Reqs \ {q} : req'[r] = req[r] /\ req[r].token # issued'
         /\ \A c \in Clients : session[c] # None => session[c].refresh # issued'
         /\ \A j \in Token : rows[j] # None => rows[j].hash # issued'
         /\ issued' \notin retired /\ req[q].token # issued'
         /\ issued' # None
<1>1. issued \in Nat /\ issued' = issued + 1 /\ issued' # None /\ ~(issued' <= issued)
      /\ \A r \in Reqs \ {q} : req'[r] = req[r]
  BY DEF Issues, Token, Changes
<1>. QED BY <1>1 DEF Inv, Issued

(* Only the client that is being answered comes to hold the new token. *)
LEMMA IssuesHolds ==
  ASSUME Inv, NEW q \in Reqs, NEW i, Issues(q, i), NEW c \in Clients, NEW t \in Token,
         Holds(c, t)'
  PROVE  (t = issued' /\ c = req[q].client) \/ (t # issued' /\ Holds(c, t))
<1>1. /\ \A r \in Reqs \ {q} : req'[r] = req[r] /\ req[r].token # issued'
      /\ \A d \in Clients : session[d] # None => session[d].refresh # issued'
      /\ session' = session /\ req'[q].token = issued' /\ req'[q].client = req[q].client
  BY IssuesFresh DEF Issues
<1>. QED BY <1>1 DEF Holds

(* What a request has in hand survives the rotation of its row. *)
LEMMA IssuesTokens ==
  ASSUME Inv, NEW q \in Reqs, NEW i, Issues(q, i)
  PROVE  Requests' /\ Issued' /\ Hashes' /\ ExchangedOnce'
<1>1. /\ \A r \in Reqs \ {q} : req'[r] = req[r] /\ req[r].token # issued'
      /\ \A j \in Token : rows[j] # None => rows[j].hash # issued'
      /\ issued' \notin retired /\ req[q].token # issued'
  BY IssuesFresh
<1>2. /\ i \in Token /\ rows'[i] # None /\ rows'[i].hash = issued'
      /\ rows'[i].subject = req[q].who
      /\ \A j \in Token \ {i} : rows'[j] = rows[j]
      /\ req'[q].pc = "answer" /\ req'[q].token = issued' /\ issued' \in Token
      /\ rows[i] # None => rows[i].subject = req[q].who
  BY DEF Issues
<1>3. ASSUME NEW r \in Reqs
      PROVE  RequestOK(r)'
  <2>1. CASE r = q
    BY <1>2, <2>1 DEF Issues, RequestOK, PrincipalPc, BootstrapPc, RefreshPc
  <2>2. CASE r # q
    <3>1. RequestOK(r) /\ req'[r] = req[r]
      BY <1>1, <2>2 DEF Inv, Requests
    <3>2. Found(r) => rows'[req[r].row] # None /\ rows'[req[r].row].subject = req[r].who
      BY <1>2, <3>1 DEF RequestOK, Found
    <3>. QED BY <3>1, <3>2 DEF RequestOK, Found
  <2>. QED BY <2>1, <2>2
<1>4. Issued'
  <2>1. /\ issued \in Nat /\ issued' = issued + 1 /\ session' = session
        /\ \A t \in retired' : t \in retired \/ (t = req[q].token /\ t \in Token)
        /\ i = issued' \/ rows[i] # None
    BY DEF Issues
  <2>2. /\ rows \in [Token -> Row \cup {None}] /\ retired \subseteq Token
        /\ session \in [Clients -> Session \cup {None}] /\ req \in [Reqs -> Request]
    BY DEF Inv, TypeOK
  <2>3. \A j \in Token : rows'[j] # None => j <= issued' /\ rows'[j].hash <= issued'
    <3>1. \A j \in Token : rows[j] # None => j <= issued' /\ rows[j].hash <= issued'
      BY <2>1, <2>2 DEF Inv, Issued, Row, Token
    <3>3. issued' <= issued'
      BY <2>1
    <3>2. issued' <= issued' /\ i <= issued'
      BY <1>2, <2>1, <3>1, <3>3
    <3>. QED BY <1>2, <3>1, <3>2
  <2>4. \A t \in retired' : t <= issued'
    <3>1. \A t \in Token : t <= issued => t <= issued'
      BY <2>1 DEF Token
    <3>2. req[q].token \in Token => req[q].token <= issued
      BY DEF Inv, Issued, Token
    <3>. QED BY <2>1, <2>2, <3>1, <3>2 DEF Inv, Issued
  <2>5. \A r \in Reqs : req'[r].token # None => req'[r].token <= issued'
    <3>1. \A r \in Reqs : req[r].token # None => req[r].token <= issued'
      BY <2>1, <2>2 DEF Inv, Issued, Request, Token
    <3>2. issued' <= issued'
      BY <2>1
    <3>. QED BY <1>1, <1>2, <3>1, <3>2
  <2>6. \A c \in Clients : session'[c] # None /\ session'[c].refresh # None =>
          session'[c].refresh <= issued'
    BY <2>1, <2>2 DEF Inv, Issued, Session, Token
  <2>. QED BY <2>3, <2>4, <2>5, <2>6 DEF Issued
<1>5. Hashes'
  <2>1. SUFFICES ASSUME NEW r \in Reqs, Found(r)', NEW j \in Token,
                        rows'[j] # None, rows'[j].hash = req'[r].token
                 PROVE  j = req'[r].row
    BY DEF Hashes
  <2>2. r # q /\ req'[r] = req[r] /\ Found(r)
    BY <1>1, <1>2, <2>1 DEF Found
  <2>3. j # i
    BY <1>1, <1>2, <2>1, <2>2
  <2>. QED BY <1>2, <2>1, <2>2, <2>3 DEF Inv, Hashes
<1>6. ExchangedOnce'
  <2>1. SUFFICES ASSUME NEW j \in Token, rows'[j] # None
        PROVE  /\ rows'[j].hash \notin retired'
               /\ \A k \in Token : rows'[k] # None /\ rows'[k].hash = rows'[j].hash => j = k
    BY DEF ExchangedOnce
  <2>2. CASE j = i
    BY <1>1, <1>2, <2>2 DEF Issues
  <2>3. CASE j # i
    <3>1. rows'[j] = rows[j] /\ rows[j].hash \notin retired /\ rows[j].hash # issued'
      BY <1>1, <1>2, <2>1, <2>3 DEF Inv, ExchangedOnce
    <3>2. rows[j].hash = req[q].token => req[q].pc # "rf_rotate"
      BY <2>1, <2>3, <3>1 DEF Inv, Hashes, Found, Issues
    <3>3. rows'[j].hash \notin retired'
      BY <3>1, <3>2 DEF Issues
    <3>4. ASSUME NEW k \in Token, rows'[k] # None, rows'[k].hash = rows'[j].hash
          PROVE  j = k
      <4>1. k # i
        BY <1>2, <3>1, <3>4
      <4>. QED BY <1>2, <2>1, <3>1, <3>4, <4>1 DEF Inv, ExchangedOnce
    <3>. QED BY <3>3, <3>4
  <2>. QED BY <2>2, <2>3
<1>. QED BY <1>3, <1>4, <1>5, <1>6 DEF Requests

(* The new token replaces one that only the same client had. *)
LEMMA IssuesPrivate ==
  ASSUME Inv, NEW q \in Reqs, NEW i, Issues(q, i)
  PROVE  Private'
<1>1. /\ \A r \in Reqs \ {q} : req'[r] = req[r]
      /\ \A j \in Token : rows[j] # None => rows[j].hash # issued'
  BY IssuesFresh
<1>2. /\ i \in Token /\ rows'[i] # None /\ rows'[i].hash = issued'
      /\ \A j \in Token \ {i} : rows'[j] = rows[j]
      /\ req'[q].pc = "answer" /\ issued' \in Token
  BY DEF Issues
<1>3. Private /\ rows \in [Token -> Row \cup {None}]
  BY DEF Inv, TypeOK
<1>4. ASSUME NEW r \in Reqs, Found(r)'
      PROVE  r # q /\ req'[r] = req[r] /\ Found(r) /\ req[r].row \in Token /\ rows[req[r].row] # None
  <2>1. r # q
    BY <1>2, <1>4 DEF Found
  <2>2. req'[r] = req[r] /\ Found(r)
    BY <1>1, <1>4, <2>1 DEF Found
  <2>. QED BY <2>1, <2>2 DEF Inv, Requests, RequestOK, Found
<1>5. ASSUME NEW c \in Clients, NEW d \in Clients, NEW t \in Token, Holds(c, t)', Holds(d, t)'
      PROVE  c = d
  BY <1>3, <1>5, IssuesHolds DEF Private
<1>6. ASSUME NEW r \in Reqs, NEW c \in Clients, NEW h \in Token, Found(r)', Holds(c, h)',
             h = rows'[req'[r].row].hash
      PROVE  c = req'[r].client
  <2>1. CASE req[r].row # i
    <3>1. h = rows[req[r].row].hash /\ h # issued'
      BY <1>1, <1>2, <1>4, <1>6, <2>1
    <3>2. Holds(c, h)
      BY <1>6, <3>1, IssuesHolds
    <3>. QED BY <1>3, <1>4, <1>6, <3>1, <3>2 DEF Private
  <2>2. CASE req[r].row = i
    <3>1. h = issued' /\ c = req[q].client
      BY <1>2, <1>4, <1>6, <2>2, IssuesHolds
    <3>2. Found(q) /\ req[q].row = i
      BY <1>4, <1>6, <2>2 DEF Issues, Found
    <3>. QED BY <1>3, <1>4, <1>6, <2>2, <3>1, <3>2 DEF Private
  <2>. QED BY <2>1, <2>2
<1>7. ASSUME NEW r \in Reqs, (Found(r))'
      PROVE  rows'[req'[r].row].hash \in Token
  <2>1. req[r].row \in Token /\ rows'[req[r].row] # None /\ req'[r] = req[r]
    BY <1>2, <1>4, <1>7
  <2>. QED BY <2>1 DEF Issues, Row
<1>8. ASSUME NEW r \in Reqs, NEW c \in Clients, (Found(r) /\ Holds(c, rows[req[r].row].hash))'
      PROVE  c = req'[r].client
  BY <1>6, <1>7, <1>8
<1>9. ASSUME NEW r \in Reqs, NEW s \in Reqs, Found(r)', Found(s)', req'[r].row = req'[s].row
      PROVE  req'[r].client = req'[s].client
  BY <1>3, <1>4, <1>9 DEF Private
<1>. QED BY <1>5, <1>8, <1>9 DEF Private

(* A row that is rotated was no other client's. *)
LEMMA IssuesUndisturbed ==
  ASSUME Inv, NEW q \in Reqs, NEW i, Issues(q, i)
  PROVE  Undisturbed'
<1>1. \A r \in Reqs \ {q} : req'[r] = req[r]
  BY IssuesFresh
<1>2. /\ i \in Token /\ rows'[i] # None /\ rows'[i].hash = issued'
      /\ rows'[i].subject = req[q].who
      /\ \A j \in Token \ {i} : rows'[j] = rows[j]
      /\ req'[q].pc = "answer" /\ req'[q].token = issued' /\ req'[q].who = req[q].who
      /\ req'[q].client = req[q].client /\ req'[q].keep = req[q].keep
      /\ session' = session /\ disturbed' = disturbed /\ req[q].pc # "answer"
  BY DEF Issues
<1>3. Private /\ Undisturbed
  BY DEF Inv
<1>4. SUFFICES ASSUME NEW c \in Clients \ disturbed
      PROVE  /\ \A r, s \in Reqs : req'[r].client = c /\ req'[s].client = c => r = s
             /\ \A r \in Reqs : req'[r].client = c /\ Answered(r)' /\ req'[r].token # None =>
                  Good(req[r].token, req[r].who)'
             /\ /\ session'[c] # None /\ session'[c].refresh # None
                /\ \A r \in Reqs : req'[r].client = c => ~Answered(r)'
                => Good(session[c].refresh, session[c].who)'
  BY <1>2 DEF Undisturbed
<1>5. \A r, s \in Reqs : req[r].client = c /\ req[s].client = c => r = s
  BY <1>3 DEF Undisturbed
<1>6. ASSUME NEW t, NEW p, Good(t, p), Holds(c, t), c = req[q].client => ~req[q].keep
      PROVE  Good(t, p)'
  <2>1. PICK k \in Token : rows[k] # None /\ rows[k].hash = t /\ rows[k].subject = p
    BY <1>6 DEF Good
  <2>2. k # i
    <3>1. SUFFICES ASSUME k = i
                   PROVE  FALSE
      OBVIOUS
    <3>2. Found(q) /\ req[q].row = i /\ req[q].keep
      BY <2>1, <3>1 DEF Issues, Found
    <3>3. c = req[q].client
      BY <1>3, <1>6, <2>1, <3>1, <3>2 DEF Private
    <3>. QED BY <1>6, <3>2, <3>3
  <2>. QED BY <1>2, <2>1, <2>2 DEF Good
<1>7. ASSUME NEW r \in Reqs, req'[r].client = c, Answered(r)', req'[r].token # None
      PROVE  Good(req[r].token, req[r].who)'
  <2>1. CASE r = q
    BY <1>2, <2>1 DEF Good
  <2>2. CASE r # q
    <3>1. req'[r] = req[r] /\ Answered(r) /\ req[r].client = c /\ req[r].token # None
      BY <1>1, <1>7, <2>2 DEF Answered, At
    <3>2. Good(req[r].token, req[r].who) /\ Holds(c, req[r].token)
      BY <1>3, <3>1 DEF Undisturbed, Holds
    <3>3. c # req[q].client
      BY <1>5, <2>2, <3>1
    <3> DEFINE t == req[r].token
               p == req[r].who
    <3>4. Good(t, p)'
      BY <1>2, <1>6, <3>1, <3>2, <3>3 DEF Good
    <3>. QED BY <3>4
  <2>. QED BY <2>1, <2>2
<1>8. ASSUME session'[c] # None, session'[c].refresh # None,
             \A r \in Reqs : req'[r].client = c => ~Answered(r)'
      PROVE  Good(session[c].refresh, session[c].who)'
  <2>1. \A r \in Reqs : req[r].client = c => ~Answered(r)
    BY <1>1, <1>2, <1>8 DEF Answered, At
  <2>2. Good(session[c].refresh, session[c].who) /\ Holds(c, session[c].refresh)
    BY <1>2, <1>3, <1>8, <2>1 DEF Undisturbed, Holds
  <2>3. c = req[q].client => ~req[q].keep
    BY <1>2, <1>8 DEF Answered, At
  <2>. QED BY <1>2, <1>6, <2>2, <2>3 DEF Good
<1>9. \A r, s \in Reqs : req'[r].client = c /\ req'[s].client = c => r = s
  BY <1>1, <1>2, <1>5
<1>. QED BY <1>7, <1>8, <1>9

-----------------------------------------------------------------------------
(* The answer of a request, and the passing of time *)

(* Request q ends; its client keeps the answer, or drops or loses it. *)
Ends(q) ==
  /\ req[q].pc = "answer" /\ Changes(q) /\ req'[q] = Idle
  /\ UNCHANGED <<principal, rows, issued, secret, deploys, retired, made>> /\ Observe
  /\ disturbed \subseteq disturbed' /\ disturbed' \subseteq Clients
  /\ session' \in [Clients -> Session \cup {None}]
  /\ \A c \in Clients :
       \/ /\ session'[c] = session[c]
          /\ c = req[q].client /\ req[q].keep => c \in disturbed'
       \/ /\ c = req[q].client /\ req[q].keep /\ session'[c] # None
          /\ session'[c].refresh = req[q].token /\ session'[c].who = req[q].who
          /\ session'[c].role = req[q].role

(* Both ways of ending, in the terms of Ends. *)
LEMMA AnswerEnds ==
  ASSUME Inv, NEW q \in Reqs, Answer(q) \/ AnswerLost(q)
  PROVE  Ends(q)
<1>0. /\ req \in [Reqs -> Request] /\ disturbed \subseteq Clients /\ req[q].pc = "answer"
      /\ session \in [Clients -> Session \cup {None}]
  BY DEF Inv, TypeOK, Answer, AnswerLost, At
<1>1. /\ req[q].client \in Clients /\ req[q].who \in People
      /\ req[q].role \in Role \ {"none"} /\ req[q].token \in Token \cup {None}
  BY <1>0 DEF Inv, Requests, RequestOK, PrincipalPc, Elevated, Role
<1>2. CASE Answer(q)
  <2>1. Changes(q) /\ req'[q] = Idle /\ UNCHANGED disturbed
    BY <1>0, <1>2, ReturnEffect DEF Answer
  <2>2. UNCHANGED <<principal, rows, issued, secret, deploys, retired, made>> /\ Observe
    BY <1>2 DEF Answer, store, Return, Move
  <2> DEFINE s == [who |-> req[q].who, role |-> req[q].role, refresh |-> req[q].token,
                   fresh |-> TRUE]
  <2>3. session' = IF req[q].keep THEN [session EXCEPT ![req[q].client] = s] ELSE session
    BY <1>2 DEF Answer
  <2>4. /\ s \in Session /\ s.who = req[q].who /\ s.role = req[q].role
        /\ s.refresh = req[q].token
    BY <1>1 DEF Session
  <2> HIDE DEF s
  <2>5. s # None /\ session' \in [Clients -> Session \cup {None}]
    BY <1>0, <2>3, <2>4
  <2>6. \A c \in Clients :
          \/ session'[c] = session[c] /\ ~(c = req[q].client /\ req[q].keep)
          \/ c = req[q].client /\ req[q].keep /\ session'[c] = s
    BY <1>0, <2>3
  <2>. QED BY <1>0, <2>1, <2>2, <2>4, <2>5, <2>6 DEF Ends
<1>3. CASE AnswerLost(q)
  <2>1. Changes(q) /\ req'[q] = Idle
    BY <1>0, <1>3, MoveEffect, IdleType DEF AnswerLost
  <2>2. UNCHANGED <<principal, rows, issued, secret, deploys, retired, made, session>> /\ Observe
        /\ disturbed' = disturbed \cup {req[q].client}
    BY <1>3 DEF AnswerLost, store
  <2>. QED BY <1>0, <1>1, <2>1, <2>2 DEF Ends
<1>. QED BY <1>2, <1>3

(* The end of a request gives its token to nobody else. *)
LEMMA EndsHolds ==
  ASSUME Inv, NEW q \in Reqs, Ends(q)
  PROVE  \A c \in Clients, t \in Token : Holds(c, t)' => Holds(c, t)
<1>1. SUFFICES ASSUME NEW c \in Clients, NEW t \in Token, Holds(c, t)'
               PROVE  Holds(c, t)
  OBVIOUS
<1>2. t # None /\ req'[q].token = None /\ \A r \in Reqs \ {q} : req'[r] = req[r]
  BY IdleFields DEF Token, Ends, Changes
<1>3. \/ session'[c] = session[c]
      \/ c = req[q].client /\ session'[c].refresh = req[q].token
  BY DEF Ends
<1>. QED BY <1>1, <1>2, <1>3 DEF Holds

(* What the invariant says of tokens, after the end of a request. *)
LEMMA EndsTokens ==
  ASSUME Inv, NEW q \in Reqs, Ends(q)
  PROVE  Requests' /\ Issued' /\ Hashes' /\ ExchangedOnce' /\ Private' /\ Undisturbed'
<1>1. /\ \A r \in Reqs \ {q} : req'[r] = req[r]
      /\ req'[q] = Idle /\ UNCHANGED <<rows, issued, retired>>
      /\ req'[q].pc = "idle" /\ req'[q].client = None /\ req'[q].token = None
      /\ ~Found(q)' /\ ~Answered(q)'
  BY IdleFields DEF Ends, Changes, Found, Answered, At
<1>2. Requests'
  <2>1. RequestOK(q)'
    BY <1>1, IdleFields DEF RequestOK, PrincipalPc, BootstrapPc, RefreshPc
  <2>. QED BY <1>1, <2>1 DEF Requests, RequestOK, Inv
<1>3. Issued'
  <2>1. \A c \in Clients : session'[c] # None /\ session'[c].refresh # None =>
          session'[c].refresh <= issued
    <3>1. ASSUME NEW c \in Clients, session'[c] # None, session'[c].refresh # None
          PROVE  session'[c].refresh <= issued
      <4>1. session'[c] = session[c] \/ session'[c].refresh = req[q].token
        BY DEF Ends
      <4>. QED BY <3>1, <4>1 DEF Inv, Issued
    <3>. QED BY <3>1
  <2>. QED BY <1>1, <2>1 DEF Inv, Issued
<1>4. Hashes' /\ ExchangedOnce'
  BY <1>1 DEF Hashes, ExchangedOnce, Inv, Found
<1>5. Private'
  <2>1. \A c \in Clients, t \in Token : Holds(c, t)' => Holds(c, t)
    BY EndsHolds
  <2>2. ASSUME NEW r \in Reqs, Found(r)'
        PROVE  Found(r) /\ req'[r] = req[r] /\ rows[req[r].row].hash \in Token
    <3>1. Found(r) /\ req'[r] = req[r]
      BY <1>1, <2>2 DEF Found
    <3>2. req[r].row \in Token /\ rows[req[r].row] # None
      BY <3>1 DEF Inv, Requests, RequestOK, Found
    <3>. QED BY <3>1, <3>2 DEF Inv, TypeOK, Row
  <2>3. ASSUME NEW r \in Reqs, NEW c \in Clients, (Found(r) /\ Holds(c, rows[req[r].row].hash))'
        PROVE  c = req'[r].client
    <3> DEFINE h == rows[req[r].row].hash
    <3>1. h \in Token /\ Found(r) /\ req'[r] = req[r]
      BY <2>2, <2>3
    <3>2. Holds(c, h)
      BY <1>1, <2>1, <2>3, <3>1
    <3>. QED BY <3>1, <3>2 DEF Inv, Private
  <2>4. \A c, d \in Clients, t \in Token : Holds(c, t)' /\ Holds(d, t)' => c = d
    BY <2>1 DEF Inv, Private
  <2>5. ASSUME NEW r \in Reqs, NEW s \in Reqs, Found(r)', Found(s)', req'[r].row = req'[s].row
        PROVE  req'[r].client = req'[s].client
    BY <2>2, <2>5 DEF Inv, Private
  <2>. QED BY <2>3, <2>4, <2>5 DEF Private
<1>6. Undisturbed'
  <2>1. \A t, p : Good(t, p)' <=> Good(t, p)
    BY <1>1 DEF Good
  <2>2. SUFFICES ASSUME NEW c \in Clients \ disturbed'
        PROVE  /\ \A r, s \in Reqs : req'[r].client = c /\ req'[s].client = c => r = s
               /\ \A r \in Reqs : req'[r].client = c /\ Answered(r)' /\ req'[r].token # None =>
                    Good(req'[r].token, req'[r].who)
               /\ /\ session'[c] # None /\ session'[c].refresh # None
                  /\ \A r \in Reqs : req'[r].client = c => ~Answered(r)'
                  => Good(session'[c].refresh, session'[c].who)
    BY <2>1 DEF Undisturbed
  <2>3. c \in Clients \ disturbed /\ c # None /\ Undisturbed
    BY <2>2 DEF Ends, Inv
  <2>4. \A r, s \in Reqs : req'[r].client = c /\ req'[s].client = c => r = s
    BY <1>1, <2>3 DEF Undisturbed
  <2>5. ASSUME NEW r \in Reqs, req'[r].client = c, Answered(r)', req'[r].token # None
        PROVE  Good(req'[r].token, req'[r].who)
    <3>1. r # q
      BY <1>1, <2>5
    <3>. QED BY <1>1, <2>3, <2>5, <3>1 DEF Undisturbed, Answered, At
  <2>6. ASSUME session'[c] # None, session'[c].refresh # None,
               \A r \in Reqs : req'[r].client = c => ~Answered(r)'
        PROVE  Good(session'[c].refresh, session'[c].who)
    <3>1. CASE session'[c] = session[c] /\ ~(c = req[q].client /\ req[q].keep)
      <4>1. \A r \in Reqs : req[r].client = c => ~Answered(r)
        BY <1>1, <2>6, <3>1 DEF Answered, At
      <4>. QED BY <2>3, <2>6, <3>1, <4>1 DEF Undisturbed
    <3>2. CASE c = req[q].client /\ req[q].keep /\ session'[c].refresh = req[q].token
               /\ session'[c].who = req[q].who
      <4>1. Answered(q) /\ req[q].token # None
        BY <2>6, <3>2 DEF Answered, At, Ends
      <4>. QED BY <2>3, <3>2, <4>1 DEF Undisturbed
    <3>. QED BY <2>2, <3>1, <3>2 DEF Ends
  <2>. QED BY <2>4, <2>5, <2>6
<1>. QED BY <1>2, <1>3, <1>4, <1>5, <1>6

(* Time passes: a session ends or its access token runs out, a row         *)
(* expires.  Nothing else changes.                                         *)
Ages ==
  /\ UNCHANGED <<principal, issued, secret, deploys, req, made, retired, disturbed>>
  /\ Observe \/ UNCHANGED <<seen, hadAdmin>>
  /\ rows' \in [Token -> Row \cup {None}]
  /\ session' \in [Clients -> Session \cup {None}]
  /\ \A i \in Token : IF rows[i] = None THEN rows'[i] = None
                      ELSE /\ rows'[i] # None /\ rows'[i].hash = rows[i].hash
                           /\ rows'[i].subject = rows[i].subject
  /\ \A c \in Clients :
       session'[c] # None => /\ session[c] # None /\ session'[c].refresh = session[c].refresh
                             /\ session'[c].who = session[c].who
                             /\ session'[c].role = session[c].role

(* The steps that no request takes, and stuttering, in the terms of Ages. *)
LEMMA StepAges ==
  ASSUME Inv,
         \/ \E b \in Browsers : Logout(b)
         \/ \E c \in Clients : AccessTokenExpires(c)
         \/ \E i \in Token : RefreshTokenExpires(i)
         \/ UNCHANGED vars
  PROVE  Ages
<1>0. /\ rows \in [Token -> Row \cup {None}]
      /\ session \in [Clients -> Session \cup {None}]
  BY DEF Inv, TypeOK
<1>1. CASE UNCHANGED vars
  BY <1>0, <1>1 DEF vars, Ages
<1>2. ASSUME NEW b \in Browsers, Logout(b)
      PROVE  Ages
  <2>1. b \in Clients
    BY DEF Clients
  <2>2. UNCHANGED <<principal, rows, issued, secret, deploys, req, made, retired, disturbed>>
        /\ Observe /\ session' = [session EXCEPT ![b] = None]
    BY <1>2 DEF Logout, store
  <2>. QED BY <1>0, <2>1, <2>2 DEF Ages
<1>3. ASSUME NEW c \in Clients, AccessTokenExpires(c)
      PROVE  Ages
  <2>1. UNCHANGED <<principal, rows, issued, secret, deploys, req, made, retired, disturbed>>
        /\ Observe
    BY <1>3 DEF AccessTokenExpires, store
  <2> DEFINE v == session[c]
             w == [v EXCEPT !.fresh = FALSE]
  <2>2. session' = [session EXCEPT ![c] = w] /\ v \in Session
    BY <1>0, <1>3 DEF AccessTokenExpires
  <2>3. w \in Session /\ w.refresh = v.refresh /\ w.who = v.who /\ w.role = v.role
    <3> HIDE DEF v
    <3>. QED BY <2>2 DEF Session
  <2> HIDE DEF w
  <2>4. /\ session' \in [Clients -> Session \cup {None}] /\ session'[c] = w
        /\ \A d \in Clients \ {c} : session'[d] = session[d]
        /\ session[c] # None
    BY <1>0, <1>3, <2>2, <2>3 DEF AccessTokenExpires
  <2>. QED BY <1>0, <2>1, <2>3, <2>4 DEF Ages
<1>4. ASSUME NEW i \in Token, RefreshTokenExpires(i)
      PROVE  Ages
  <2>1. UNCHANGED <<principal, issued, secret, deploys, session, req, made, retired, disturbed>>
        /\ Observe
    BY <1>4 DEF RefreshTokenExpires
  <2> DEFINE v == rows[i]
             w == [v EXCEPT !.expired = TRUE]
  <2>2. rows' = [rows EXCEPT ![i] = w] /\ v \in Row
    BY <1>0, <1>4 DEF RefreshTokenExpires
  <2>3. w \in Row /\ w.hash = v.hash /\ w.subject = v.subject
    <3> HIDE DEF v
    <3>. QED BY <2>2 DEF Row
  <2> HIDE DEF w
  <2>4. /\ rows' \in [Token -> Row \cup {None}] /\ rows'[i] = w /\ w # None
        /\ \A j \in Token \ {i} : rows'[j] = rows[j]
        /\ rows[i] # None
    BY <1>0, <1>4, <2>2, <2>3 DEF RefreshTokenExpires
  <2>. QED BY <1>0, <2>1, <2>3, <2>4 DEF Ages
<1>. QED BY <1>1, <1>2, <1>3, <1>4

(* What the invariant says of tokens, after time has passed. *)
LEMMA AgesTokens ==
  ASSUME Inv, Ages
  PROVE  Requests' /\ Issued' /\ Hashes' /\ ExchangedOnce' /\ Private' /\ Undisturbed'
<1>1. UNCHANGED <<req, issued, retired, disturbed>>
  BY DEF Ages
<1>2. \A i \in Token : /\ rows'[i] # None <=> rows[i] # None
                       /\ rows[i] # None => /\ rows'[i].hash = rows[i].hash
                                            /\ rows'[i].subject = rows[i].subject
  BY DEF Ages
<1>3. \A c \in Clients :
        session'[c] # None => /\ session[c] # None /\ session'[c].refresh = session[c].refresh
                              /\ session'[c].who = session[c].who
  BY DEF Ages
<1>4. Requests'
  BY <1>1, <1>2 DEF Inv, Requests, RequestOK
<1>5. Issued' /\ Hashes' /\ ExchangedOnce'
  BY <1>1, <1>2, <1>3 DEF Inv, Issued, Hashes, ExchangedOnce, Found
<1>6. \A c \in Clients, t \in Token : Holds(c, t)' => Holds(c, t)
  BY <1>1, <1>3 DEF Holds
<1>7. Private'
  <2>1. ASSUME NEW r \in Reqs, Found(r)
        PROVE  rows[req[r].row].hash \in Token /\ rows'[req[r].row].hash = rows[req[r].row].hash
    <3>1. req[r].row \in Token /\ rows[req[r].row] # None
      BY <2>1 DEF Inv, Requests, RequestOK, Found
    <3>. QED BY <1>2, <3>1 DEF Inv, TypeOK, Row
  <2>2. ASSUME NEW r \in Reqs, NEW c \in Clients, (Found(r) /\ Holds(c, rows[req[r].row].hash))'
        PROVE  c = req'[r].client
    <3> DEFINE h == rows[req[r].row].hash
    <3>1. h \in Token /\ Found(r)
      BY <1>1, <2>1, <2>2 DEF Found
    <3>2. Holds(c, h)
      BY <1>1, <1>6, <2>1, <2>2, <3>1
    <3>. QED BY <1>1, <3>1, <3>2 DEF Inv, Private
  <2>3. \A c, d \in Clients, t \in Token : Holds(c, t)' /\ Holds(d, t)' => c = d
    BY <1>6 DEF Inv, Private
  <2>4. \A r, s \in Reqs : Found(r)' /\ Found(s)' /\ req'[r].row = req'[s].row =>
          req'[r].client = req'[s].client
    BY <1>1 DEF Inv, Private, Found
  <2>. QED BY <2>2, <2>3, <2>4 DEF Private
<1>8. Undisturbed'
  <2>1. \A t, p : Good(t, p) => Good(t, p)'
    BY <1>2 DEF Good
  <2>2. \A r \in Reqs : Answered(r)' <=> Answered(r)
    BY <1>1 DEF Answered, At
  <2>3. Undisturbed
    BY DEF Inv
  <2>. QED BY <1>1, <1>3, <2>1, <2>2, <2>3 DEF Undisturbed
<1>. QED BY <1>4, <1>5, <1>7, <1>8

-----------------------------------------------------------------------------
(* Principals, roles and admins *)

(* A principal's row goes only when there has been an admin. *)
Principals ==
  /\ principal' \in [People -> Principal \cup {None}]
  /\ \A p \in People : principal'[p] = None => principal[p] = None \/ hadAdmin = TRUE

(* An upsert adds a principal without flags and removes none. *)
LEMMA UpsertEffect ==
  ASSUME Inv, NEW p \in People, UpsertPrincipal(p)
  PROVE  Principals /\ principal'[p] # None
<1>1. principal \in [People -> Principal \cup {None}] /\ NewPrincipal \in Principal
  BY DEF Inv, TypeOK, NewPrincipal, Principal
<1> HIDE DEF NewPrincipal
<1>. QED BY <1>1 DEF UpsertPrincipal, Principals

(* An update of a flag adds no principal and removes none. *)
LEMMA SetAdminEffect ==
  ASSUME Inv, NEW p \in People, NEW v \in BOOLEAN, SetAdmin(p, v)
  PROVE  Principals /\ (principal[p] # None /\ v = TRUE => RoleOf(principal'[p]) = "admin")
<1>0. principal \in [People -> Principal \cup {None}]
  BY DEF Inv, TypeOK
<1>1. CASE principal[p] = None
  BY <1>0, <1>1 DEF SetAdmin, Principals
<1>2. CASE principal[p] # None
  <2> DEFINE o == principal[p]
             w == [o EXCEPT !.is_admin = v]
  <2>1. principal' = [principal EXCEPT ![p] = w] /\ o \in Principal
    BY <1>0, <1>2 DEF SetAdmin
  <2>2. w \in Principal /\ w.is_admin = v
    <3> HIDE DEF o
    <3>. QED BY <2>1 DEF Principal
  <2> HIDE DEF w
  <2>3. w # None /\ principal'[p] = w
    BY <1>0, <2>1, <2>2
  <2>4. Principals
    BY <1>0, <2>1, <2>2, <2>3 DEF Principals
  <2>5. v = TRUE => RoleOf(w) = "admin"
    BY <2>2, <2>3 DEF RoleOf
  <2>. QED BY <2>3, <2>4, <2>5
<1>. QED BY <1>1, <1>2

(* The same for the operator's flag. *)
LEMMA SetOperatorEffect ==
  ASSUME Inv, NEW p \in People, NEW v \in BOOLEAN, SetOperator(p, v)
  PROVE  Principals
<1>0. principal \in [People -> Principal \cup {None}]
  BY DEF Inv, TypeOK
<1>1. CASE principal[p] = None
  BY <1>0, <1>1 DEF SetOperator, Principals
<1>2. CASE principal[p] # None
  <2> DEFINE o == principal[p]
             w == [o EXCEPT !.is_operator = v]
  <2>1. principal' = [principal EXCEPT ![p] = w] /\ o \in Principal
    BY <1>0, <1>2 DEF SetOperator
  <2>2. w \in Principal
    <3> HIDE DEF o
    <3>. QED BY <2>1 DEF Principal
  <2> HIDE DEF w
  <2>3. w # None
    BY <2>2
  <2>. QED BY <1>0, <2>1, <2>2, <2>3 DEF Principals
<1>. QED BY <1>1, <1>2

(* Whoever removes a principal is an admin. *)
LEMMA QuietPrincipals ==
  ASSUME Inv, NEW q \in Reqs, QuietStep(q)
  PROVE  Principals
<1>0. /\ principal \in [People -> Principal \cup {None}] /\ req \in [Reqs -> Request]
      /\ RequestOK(q)
  BY DEF Inv, TypeOK, Requests
<1>1. CASE UNCHANGED principal
  BY <1>0, <1>1 DEF Principals
<1>2. CASE GitHubPrincipal(q) \/ BootstrapPrincipal(q)
  <2>1. UpsertPrincipal(req[q].who) /\ req[q].who \in People
    BY <1>0, <1>2 DEF GitHubPrincipal, BootstrapPrincipal, At, RequestOK
  <2>. QED BY <2>1, UpsertEffect
<1>3. CASE BootstrapAdmin(q)
  <2>1. SetAdmin(req[q].who, TRUE) /\ req[q].who \in People
    BY <1>0, <1>3 DEF BootstrapAdmin, At, RequestOK
  <2>. QED BY <2>1, SetAdminEffect
<1>4. CASE BootstrapOperator(q)
  <2>1. SetOperator(req[q].who, TRUE) /\ req[q].who \in People
    BY <1>0, <1>4 DEF BootstrapOperator, At, RequestOK
  <2>. QED BY <2>1, SetOperatorEffect
<1>5. CASE PatchOperator(q) \/ PatchAdmin(q)
  <2>1. /\ req[q].who \in People /\ req[q].is_operator \in BOOLEAN \cup {None}
        /\ req[q].is_admin \in BOOLEAN \cup {None}
    BY <1>0, <1>5 DEF PatchOperator, PatchAdmin, At, RequestOK, Request, Flag
  <2>2. \/ UNCHANGED principal
        \/ req[q].is_operator # None /\ SetOperator(req[q].who, req[q].is_operator)
        \/ req[q].is_admin # None /\ SetAdmin(req[q].who, req[q].is_admin)
    BY <1>5 DEF PatchOperator, PatchAdmin
  <2>. QED BY <1>1, <2>1, <2>2, SetOperatorEffect, SetAdminEffect
<1>6. CASE DeletePrincipal(q)
  <2>1. hadAdmin = TRUE /\ req[q].who \in People
    BY <1>0, <1>6 DEF DeletePrincipal, At, Inv, Admins, PrincipalPc, RequestOK
  <2>2. principal' = [principal EXCEPT ![req[q].who] = None]
    BY <1>6 DEF DeletePrincipal
  <2>. QED BY <1>0, <2>1, <2>2 DEF Principals
<1>. QED
  BY <1>1, <1>2, <1>3, <1>4, <1>5, <1>6 DEF QuietStep, Arrive, Login, ServiceDeploy, Refresh,
     PatchPrincipal, RemovePrincipal, BootstrapStep, DeployLogin, BootstrapCheck,
     DeleteBootstrapToken, FindRefreshToken, RefreshRole, RefreshRefused, PrincipalStep,
     RequestFails, store

(* RoleOf names a role. *)
LEMMA RoleOfType ==
  ASSUME NEW p
  PROVE  RoleOf(p) \in Role
BY DEF RoleOf, Role

(* What the history records. *)
LEMMA ObserveEffect ==
  ASSUME Inv, Observe, principal' \in [People -> Principal \cup {None}],
         req' \in [Reqs -> Request]
  PROVE  /\ seen' \in [Reqs -> SUBSET Role] /\ hadAdmin' \in BOOLEAN
         /\ hadAdmin = TRUE => hadAdmin' = TRUE
         /\ \A p \in People : RoleOf(principal'[p]) = "admin" => hadAdmin' = TRUE
         /\ \A q \in Reqs : req'[q].who # None =>
              /\ RoleOf(principal'[req'[q].who]) \in seen'[q]
              /\ req'[q].who = req[q].who => seen[q] \subseteq seen'[q]
<1>0. seen \in [Reqs -> SUBSET Role] /\ hadAdmin \in BOOLEAN
  BY DEF Inv, TypeOK
<1>1. seen' = [q \in Reqs |->
                IF req'[q].who = None THEN {}
                ELSE (IF req'[q].who = req[q].who THEN seen[q] ELSE {})
                       \cup {RoleOf(principal'[req'[q].who])}]
  BY DEF Observe
<1>2. hadAdmin' = (hadAdmin \/ \E p \in People : RoleOf(principal'[p]) = "admin")
  BY DEF Observe
<1>3. hadAdmin' \in BOOLEAN /\ (hadAdmin = TRUE => hadAdmin' = TRUE)
  BY <1>0, <1>2
<1>4. \A p \in People : RoleOf(principal'[p]) = "admin" => hadAdmin' = TRUE
  BY <1>2
<1>5. seen' \in [Reqs -> SUBSET Role]
  BY <1>0, <1>1, RoleOfType
<1>6. \A q \in Reqs : req'[q].who # None =>
              /\ RoleOf(principal'[req'[q].who]) \in seen'[q]
              /\ req'[q].who = req[q].who => seen[q] \subseteq seen'[q]
  BY <1>1
<1>. QED BY <1>3, <1>4, <1>5, <1>6

(* A role that a quiet step puts into a request is the principal's. *)
LEMMA QuietRoles ==
  ASSUME Inv, NEW q \in Reqs, QuietStep(q)
  PROVE  Roles'
<1>1. Record(q) /\ Observe /\ Principals
  BY QuietRecord, QuietPrincipals
<1>2. /\ \A r \in Reqs \ {q} : req'[r] = req[r]
      /\ req' \in [Reqs -> Request] /\ principal' \in [People -> Principal \cup {None}]
  BY <1>1 DEF Record, Changes, Principals
<1>3. \A r \in Reqs : req'[r].who # None =>
        /\ RoleOf(principal'[req'[r].who]) \in seen'[r]
        /\ req'[r].who = req[r].who => seen[r] \subseteq seen'[r]
  BY <1>1, <1>2, ObserveEffect
<1>4. SUFFICES ASSUME NEW r \in Reqs, req'[r].pc \in {"insert", "rf_rotate", "answer"},
                      req'[r].gen = 0, req'[r].role # "bootstrap_id"
               PROVE  req'[r].role \in seen'[r]
  BY DEF Roles
<1>5. CASE r = q
  <2>1. req'[q].who # None
    BY <1>1, <1>4, <1>5 DEF Record, RequestOK
  <2>. QED BY <1>1, <1>3, <1>4, <1>5, <2>1 DEF Record
<1>6. CASE r # q
  <2>1. req'[r] = req[r] /\ req[r].who # None
    BY <1>2, <1>4, <1>6 DEF Inv, Requests, RequestOK
  <2>. QED BY <1>3, <1>4, <2>1 DEF Inv, Roles
<1>. QED BY <1>5, <1>6

(* A bootstrap and a change of principals get where only admins have been. *)
LEMMA QuietAdminPc ==
  ASSUME Inv, NEW q \in Reqs, QuietStep(q)
  PROVE  /\ req'[q].pc \in PrincipalPc \cup {"bs_operator", "bs_delete"} => hadAdmin' = TRUE
         /\ req'[q].pc = "bs_admin" => principal'[req'[q].who] # None
<1>0. req \in [Reqs -> Request] /\ RequestOK(q)
  BY DEF Inv, TypeOK, Requests
<1>1. /\ hadAdmin = TRUE => hadAdmin' = TRUE
      /\ \A p \in People : RoleOf(principal'[p]) = "admin" => hadAdmin' = TRUE
  BY QuietRecord, QuietPrincipals, ObserveEffect DEF Record, Changes, Principals
<1> DEFINE Other == {"idle", "answer", "gh_upsert", "insert", "gh_mode", "bs_check", "bs_upsert"}
                      \cup RefreshPc
<1>2. CASE req'[q].pc \in Other
  BY <1>2 DEF RefreshPc, PrincipalPc
<1>3. CASE \/ \E c \in Clients, p \in People : Login(q, c, p)
           \/ \E c \in Profiles, p \in People : ServiceDeploy(q, c, p)
           \/ \E c \in Clients : Refresh(q, c)
  <2>1. ASSUME NEW c, NEW p, Login(q, c, p)
        PROVE  req'[q].pc \in Other
    <3> DEFINE a == [Idle EXCEPT !.pc = "answer", !.client = c, !.who = p, !.role = "bootstrap_id"]
               g == [Idle EXCEPT !.pc = "gh_upsert", !.client = c, !.who = p]
    <3>1. a.pc = "answer" /\ g.pc = "gh_upsert"
      BY IdleType DEF Request
    <3>2. Begin(q, a) \/ Begin(q, g)
      BY <2>1 DEF Login
    <3> HIDE DEF a, g
    <3>3. req'[q] = a \/ req'[q] = g
      BY <1>0, <3>2 DEF Begin
    <3>. QED BY <3>1, <3>3
  <2>2. ASSUME NEW c, NEW p, ServiceDeploy(q, c, p)
        PROVE  req'[q].pc \in Other
    BY <1>0, <2>2, IdleType DEF ServiceDeploy, Begin, Request
  <2>3. ASSUME NEW c, Refresh(q, c)
        PROVE  req'[q].pc \in Other
    BY <1>0, <2>3, IdleType DEF Refresh, Begin, Request, RefreshPc
  <2>. QED BY <1>2, <1>3, <2>1, <2>2, <2>3
<1>4. CASE \/ \E p \in People, patch \in Patches : PatchPrincipal(q, p, patch)
           \/ \E p \in People : RemovePrincipal(q, p)
  <2>1. hadAdmin = TRUE
    BY <1>4 DEF PatchPrincipal, RemovePrincipal, AdminAtWork, Inv, Admins
  <2>2. ASSUME NEW p, NEW patch, PatchPrincipal(q, p, patch)
        PROVE  req'[q].pc # "bs_admin"
    BY <1>0, <2>2, IdleType DEF PatchPrincipal, Begin, Request
  <2>3. ASSUME NEW p, RemovePrincipal(q, p)
        PROVE  req'[q].pc # "bs_admin"
    BY <1>0, <2>3, IdleType DEF RemovePrincipal, Begin, Request
  <2>. QED BY <1>1, <1>4, <2>1, <2>2, <2>3
<1>5. CASE GitHubPrincipal(q) \/ DeployLogin(q) \/ DeleteBootstrapToken(q)
           \/ FindRefreshToken(q) \/ RefreshRole(q)
  <2>1. ASSUME Return(q)
        PROVE  req'[q].pc \in Other
    BY <1>0, <2>1, IdleFields DEF Return, Move
  <2>2. ASSUME NEW pc \in Other, Goto(q, pc)
        PROVE  req'[q].pc \in Other
    BY <1>0, <2>2 DEF Goto, Move, Request
  <2>3. ASSUME GitHubPrincipal(q)
        PROVE  req'[q].pc \in Other
    BY <1>0, <2>1, <2>3 DEF GitHubPrincipal, Move, Request
  <2>4. ASSUME DeployLogin(q)
        PROVE  req'[q].pc \in Other
    BY <1>0, <2>2, <2>4 DEF DeployLogin, Move, Request
  <2>5. ASSUME DeleteBootstrapToken(q)
        PROVE  req'[q].pc \in Other
    BY <1>0, <2>5 DEF DeleteBootstrapToken, Move, Request
  <2>6. ASSUME FindRefreshToken(q)
        PROVE  req'[q].pc \in Other
    <3>1. CASE Goto(q, "rf_refused")
      BY <2>2, <3>1 DEF RefreshPc
    <3>2. ASSUME NEW i, NEW p, Move(q, [req[q] EXCEPT !.pc = "rf_role", !.row = i, !.who = p])
          PROVE  req'[q].pc \in Other
      BY <1>0, <3>2 DEF Move, Request, RefreshPc
    <3>. QED BY <2>6, <3>1, <3>2 DEF FindRefreshToken
  <2>7. ASSUME RefreshRole(q)
        PROVE  req'[q].pc \in Other
    BY <1>0, <2>2, <2>7 DEF RefreshRole, Move, Request, RefreshPc
  <2>. QED BY <1>2, <1>5, <2>3, <2>4, <2>5, <2>6, <2>7
<1>6. CASE BootstrapCheck(q) \/ RefreshRefused(q) \/ PatchAdmin(q) \/ DeletePrincipal(q)
           \/ RequestFails(q)
  <2>1. Return(q) \/ Goto(q, "bs_upsert") \/ Goto(q, "rf_refused")
    BY <1>6 DEF BootstrapCheck, RefreshRefused, PatchAdmin, DeletePrincipal, RequestFails
  <2>2. ASSUME Return(q)
        PROVE  req'[q].pc \in Other
    BY <1>0, <2>2, IdleFields DEF Return, Move
  <2>3. ASSUME NEW pc \in Other, Goto(q, pc)
        PROVE  req'[q].pc \in Other
    BY <1>0, <2>3 DEF Goto, Move, Request
  <2>4. "bs_upsert" \in Other /\ "rf_refused" \in Other
    BY DEF RefreshPc
  <2>. QED BY <1>2, <2>1, <2>2, <2>3, <2>4
<1>7. CASE BootstrapPrincipal(q)
  <2>1. req'[q].pc = "bs_admin" /\ Same(q)
    BY <1>0, <1>7, GotoEffect DEF BootstrapPrincipal, Pc, BootstrapPc
  <2>2. UpsertPrincipal(req[q].who) /\ req[q].who \in People
    BY <1>0, <1>7 DEF BootstrapPrincipal, At, RequestOK
  <2>3. principal'[req[q].who] # None
    BY <2>2, UpsertEffect
  <2>. QED BY <2>1, <2>3 DEF Same, PrincipalPc
<1>8. CASE BootstrapAdmin(q)
  <2>1. req'[q].pc = "bs_operator"
    BY <1>0, <1>8, GotoEffect DEF BootstrapAdmin, Pc, BootstrapPc
  <2>2. SetAdmin(req[q].who, TRUE) /\ req[q].who \in People /\ req[q].pc = "bs_admin"
    BY <1>0, <1>8 DEF BootstrapAdmin, At, RequestOK
  <2>3. principal[req[q].who] # None => RoleOf(principal'[req[q].who]) = "admin"
    BY <2>2, SetAdminEffect
  <2>4. principal[req[q].who] = None => hadAdmin = TRUE
    BY <2>2 DEF Inv, Admins
  <2>. QED BY <1>1, <2>1, <2>2, <2>3, <2>4
<1>9. CASE BootstrapOperator(q)
  <2>1. req'[q].pc = "bs_delete"
    BY <1>0, <1>9, GotoEffect DEF BootstrapOperator, Pc, BootstrapPc
  <2>2. hadAdmin = TRUE
    BY <1>9 DEF BootstrapOperator, At, Inv, Admins
  <2>. QED BY <1>1, <2>1, <2>2
<1>10. CASE PatchOperator(q)
  <2>1. req'[q].pc = "pp_admin"
    BY <1>0, <1>10, GotoEffect DEF PatchOperator, Pc, PrincipalPc
  <2>2. hadAdmin = TRUE
    BY <1>10 DEF PatchOperator, At, Inv, Admins, PrincipalPc
  <2>. QED BY <1>1, <2>1, <2>2
<1>. QED
  BY <1>3, <1>4, <1>5, <1>6, <1>7, <1>8, <1>9, <1>10
  DEF QuietStep, Arrive, BootstrapStep, PrincipalStep

(* Who acts as an admin after a quiet step. *)
LEMMA QuietAdmins ==
  ASSUME Inv, NEW q \in Reqs, QuietStep(q)
  PROVE  Admins'
<1>1. Record(q) /\ Observe /\ Principals /\ Forgets
  BY QuietRecord, QuietPrincipals
<1>2. /\ \A r \in Reqs \ {q} : req'[r] = req[r]
      /\ req' \in [Reqs -> Request] /\ principal' \in [People -> Principal \cup {None}]
  BY <1>1 DEF Record, Changes, Principals
<1>3. /\ hadAdmin = TRUE => hadAdmin' = TRUE
      /\ \A p \in People : RoleOf(principal'[p]) = "admin" => hadAdmin' = TRUE
  BY <1>1, <1>2, ObserveEffect
<1>4. \A c \in Clients : session'[c] # None /\ session'[c].role = "admin" => hadAdmin' = TRUE
  BY <1>1, <1>3 DEF Forgets, Inv, Admins
<1>5. ASSUME NEW r \in Reqs
      PROVE  /\ req'[r].role = "admin" => hadAdmin' = TRUE
             /\ req'[r].pc \in PrincipalPc \cup {"bs_operator", "bs_delete"} => hadAdmin' = TRUE
             /\ req'[r].pc = "bs_admin" /\ principal'[req'[r].who] = None => hadAdmin' = TRUE
  <2>1. CASE r = q
    <3>1. req'[q].role = "admin" => hadAdmin' = TRUE
      <4>1. req'[q].pc = "idle" => req'[q].role # "admin"
        BY <1>1, IdleFields DEF Record, RequestOK, Role
      <4>2. req'[q].pc # "idle" => req'[q].who \in People
        BY <1>1 DEF Record, RequestOK
      <4>. QED BY <1>1, <1>3, <4>1, <4>2 DEF Record
    <3>. QED BY <2>1, <3>1, QuietAdminPc
  <2>2. CASE r # q
    <3>1. req'[r] = req[r]
      BY <1>2, <2>2
    <3>2. req[r].pc = "bs_admin" => req[r].who \in People
      BY DEF Inv, Requests, RequestOK
    <3>. QED BY <1>1, <1>3, <3>1, <3>2 DEF Inv, Admins, Principals
  <2>. QED BY <2>1, <2>2
<1>. QED BY <1>3, <1>4, <1>5 DEF Admins

(* A bootstrap token is consumed by a bootstrap that has made an admin. *)
LEMMA QuietCluster ==
  ASSUME Inv, NEW q \in Reqs, QuietStep(q)
  PROVE  /\ secret' \in 0 .. deploys' /\ deploys' \in 0 .. MaxDeploys /\ made' \in 0 .. MaxReqs
         /\ NeverLockedOut'
<1>0. /\ secret \in 0 .. deploys /\ deploys \in 0 .. MaxDeploys /\ made \in 0 .. MaxReqs
      /\ NeverLockedOut
  BY DEF Inv, TypeOK
<1>1. hadAdmin = TRUE => hadAdmin' = TRUE
  BY QuietRecord, QuietPrincipals, ObserveEffect DEF Record, Changes, Principals
<1>2. made' \in 0 .. MaxReqs
  <2>1. made' = made \/ (made < MaxReqs /\ made' = made + 1)
    BY DEF QuietStep, Arrive, Login, ServiceDeploy, Refresh, PatchPrincipal, RemovePrincipal,
       GitHubPrincipal, BootstrapStep, DeployLogin, BootstrapCheck, BootstrapPrincipal,
       BootstrapAdmin, BootstrapOperator, DeleteBootstrapToken, FindRefreshToken, RefreshRole,
       RefreshRefused, PrincipalStep, PatchOperator, PatchAdmin, DeletePrincipal, RequestFails,
       Begin, Move, Goto, Return
  <2>. QED BY <1>0, <2>1
<1>3. CASE UNCHANGED <<secret, deploys>>
  BY <1>0, <1>1, <1>2, <1>3 DEF NeverLockedOut
<1>4. CASE \E c \in Profiles, p \in People : ServiceDeploy(q, c, p)
  <2>1. deploys < MaxDeploys /\ deploys' = deploys + 1 /\ secret' = deploys'
    BY <1>4 DEF ServiceDeploy
  <2>. QED BY <1>0, <1>2, <2>1 DEF NeverLockedOut
<1>5. CASE DeleteBootstrapToken(q)
  <2>1. hadAdmin = TRUE
    BY <1>5 DEF DeleteBootstrapToken, At, Inv, Admins
  <2>2. secret' \in {0, secret} /\ deploys' = deploys
    BY <1>5 DEF DeleteBootstrapToken
  <2>. QED BY <1>0, <1>1, <1>2, <2>1, <2>2 DEF NeverLockedOut
<1>. QED
  BY <1>3, <1>4, <1>5 DEF QuietStep, Arrive, Login, Refresh, PatchPrincipal, RemovePrincipal,
     GitHubPrincipal, BootstrapStep, DeployLogin, BootstrapCheck, BootstrapPrincipal,
     BootstrapAdmin, BootstrapOperator, FindRefreshToken, RefreshRole,
     RefreshRefused, PrincipalStep, PatchOperator, PatchAdmin, DeletePrincipal, RequestFails,
     store

(* A quiet step keeps the types. *)
LEMMA QuietType ==
  ASSUME Inv, NEW q \in Reqs, QuietStep(q)
  PROVE  TypeOK'
<1>1. Record(q) /\ Observe /\ Principals /\ Forgets /\ UNCHANGED <<rows, issued, retired>>
  BY QuietRecord, QuietPrincipals
<1>2. secret' \in 0 .. deploys' /\ deploys' \in 0 .. MaxDeploys /\ made' \in 0 .. MaxReqs
  BY QuietCluster
<1>3. req' \in [Reqs -> Request] /\ principal' \in [People -> Principal \cup {None}]
      /\ disturbed' \subseteq Clients
  BY <1>1 DEF Record, Changes, Principals, Arrived
<1>4. seen' \in [Reqs -> SUBSET Role] /\ hadAdmin' \in BOOLEAN
  BY <1>1, <1>3, ObserveEffect
<1>. QED BY <1>1, <1>2, <1>3, <1>4 DEF TypeOK, Forgets, Inv

(* Issuing a token changes nothing that roles and admins rest on. *)
LEMMA IssuesRest ==
  ASSUME Inv, NEW q \in Reqs, NEW i, Issues(q, i)
  PROVE  TypeOK' /\ Roles' /\ Admins' /\ NeverLockedOut'
<1>1. /\ \A r \in Reqs \ {q} : req'[r] = req[r]
      /\ req' \in [Reqs -> Request] /\ principal' = principal /\ session' = session
      /\ req'[q].who = req[q].who /\ req'[q].gen = req[q].gen /\ req'[q].role = req[q].role
      /\ req[q].pc \in {"insert", "rf_rotate"} /\ req'[q].pc = "answer" /\ Observe
      /\ UNCHANGED <<secret, deploys, made, disturbed>>
  BY DEF Issues, Changes
<1>2. /\ principal \in [People -> Principal \cup {None}] /\ TypeOK /\ Roles /\ Admins
      /\ NeverLockedOut
  BY DEF Inv, TypeOK
<1>3. /\ seen' \in [Reqs -> SUBSET Role] /\ hadAdmin' \in BOOLEAN
      /\ hadAdmin = TRUE => hadAdmin' = TRUE
      /\ \A r \in Reqs : req'[r].who # None =>
            (req'[r].who = req[r].who => seen[r] \subseteq seen'[r])
  BY <1>1, <1>2, ObserveEffect
<1>4. \A r \in Reqs : req[r].pc # "idle" => req[r].who # None
  BY DEF Inv, Requests, RequestOK
<1>5. Roles'
  BY <1>1, <1>2, <1>3, <1>4 DEF Roles
<1>6. Admins'
  BY <1>1, <1>2, <1>3 DEF Admins, PrincipalPc
<1>7. NeverLockedOut'
  BY <1>1, <1>2, <1>3 DEF NeverLockedOut
<1>8. TypeOK'
  <2>1. /\ rows' \in [Token -> Row \cup {None}] /\ issued' \in 0 .. MaxTokens
        /\ retired' \subseteq Token
    <3>1. rows' \in [Token -> Row \cup {None}] /\ issued' \in Token
      BY DEF Issues
    <3>2. issued' \in 0 .. MaxTokens
      BY <3>1 DEF Token
    <3>3. retired \subseteq Token
      BY <1>2 DEF TypeOK
    <3>4. retired' = retired \/ (req[q].token \in Token /\ retired' = retired \cup {req[q].token})
      BY DEF Issues
    <3>5. retired' \subseteq Token
      BY <3>3, <3>4
    <3>. QED BY <3>1, <3>2, <3>5
  <2>. QED BY <1>1, <1>2, <1>3, <2>1 DEF TypeOK
<1>. QED BY <1>5, <1>6, <1>7, <1>8

(* A session that begins has the role of the answer. *)
LEMMA EndsRest ==
  ASSUME Inv, NEW q \in Reqs, Ends(q)
  PROVE  TypeOK' /\ Roles' /\ Admins' /\ NeverLockedOut'
<1>1. /\ \A r \in Reqs \ {q} : req'[r] = req[r]
      /\ req' \in [Reqs -> Request] /\ principal' = principal /\ req'[q].pc = "idle"
      /\ req'[q].role # "admin" /\ Observe
      /\ UNCHANGED <<secret, deploys, made, rows, issued, retired>>
      /\ session' \in [Clients -> Session \cup {None}] /\ disturbed' \subseteq Clients
  BY IdleFields DEF Ends, Changes, Role
<1>2. /\ principal \in [People -> Principal \cup {None}] /\ TypeOK /\ Roles /\ Admins
      /\ NeverLockedOut
  BY DEF Inv, TypeOK
<1>3. /\ seen' \in [Reqs -> SUBSET Role] /\ hadAdmin' \in BOOLEAN
      /\ hadAdmin = TRUE => hadAdmin' = TRUE
      /\ \A r \in Reqs : req'[r].who # None =>
            (req'[r].who = req[r].who => seen[r] \subseteq seen'[r])
  BY <1>1, <1>2, ObserveEffect
<1>4. \A r \in Reqs : req[r].pc # "idle" => req[r].who # None
  BY DEF Inv, Requests, RequestOK
<1>5. Roles'
  BY <1>1, <1>2, <1>3, <1>4 DEF Roles
<1>6. \A c \in Clients : session'[c] # None /\ session'[c].role = "admin" => hadAdmin = TRUE
  BY <1>2 DEF Ends, Admins
<1>7. Admins'
  BY <1>1, <1>2, <1>3, <1>6 DEF Admins, PrincipalPc
<1>8. NeverLockedOut'
  BY <1>1, <1>2, <1>3 DEF NeverLockedOut
<1>9. TypeOK'
  BY <1>1, <1>2, <1>3 DEF TypeOK
<1>. QED BY <1>5, <1>7, <1>8, <1>9

(* Time changes no role. *)
LEMMA AgesRest ==
  ASSUME Inv, Ages
  PROVE  TypeOK' /\ Roles' /\ Admins' /\ NeverLockedOut'
<1>1. /\ UNCHANGED <<principal, issued, secret, deploys, req, made, retired, disturbed>>
      /\ rows' \in [Token -> Row \cup {None}] /\ session' \in [Clients -> Session \cup {None}]
      /\ \A c \in Clients : session'[c] # None => session[c] # None
                                                   /\ session'[c].role = session[c].role
  BY DEF Ages
<1>2. /\ principal \in [People -> Principal \cup {None}] /\ TypeOK /\ Roles /\ Admins
      /\ NeverLockedOut /\ req \in [Reqs -> Request]
  BY DEF Inv, TypeOK
<1>3. /\ seen' \in [Reqs -> SUBSET Role] /\ hadAdmin' \in BOOLEAN
      /\ hadAdmin = TRUE => hadAdmin' = TRUE
      /\ \A r \in Reqs : req'[r].who # None =>
            (req'[r].who = req[r].who => seen[r] \subseteq seen'[r])
  <2>1. CASE Observe
    BY <1>1, <1>2, <2>1, ObserveEffect
  <2>2. CASE UNCHANGED <<seen, hadAdmin>>
    BY <1>2, <2>2 DEF TypeOK
  <2>. QED BY <2>1, <2>2 DEF Ages
<1>4. \A r \in Reqs : req[r].pc # "idle" => req[r].who # None
  BY DEF Inv, Requests, RequestOK
<1>5. Roles'
  BY <1>1, <1>2, <1>3, <1>4 DEF Roles
<1>6. Admins'
  BY <1>1, <1>2, <1>3 DEF Admins
<1>7. NeverLockedOut'
  BY <1>1, <1>2, <1>3 DEF NeverLockedOut
<1>8. TypeOK'
  BY <1>1, <1>2, <1>3 DEF TypeOK
<1>. QED BY <1>5, <1>6, <1>7, <1>8

-----------------------------------------------------------------------------
(* The theorems *)

(* Nobody is known, no token is issued and every request is idle. *)
LEMMA InitInv == Init => Inv
<1> SUFFICES ASSUME Init
             PROVE  Inv
  OBVIOUS
<1>1. /\ \A p \in People : principal[p] = None
      /\ \A i \in Token : rows[i] = None
      /\ \A c \in Clients : session[c] = None
      /\ \A q \in Reqs : req[q] = Idle
      /\ issued = 0 /\ secret = 0 /\ deploys = 0 /\ made = 0 /\ retired = {} /\ disturbed = {}
  BY DEF Init
<1>2. \A q \in Reqs : /\ req[q].pc = "idle" /\ req[q].client = None /\ req[q].token = None
                      /\ req[q].role = None
  BY <1>1, IdleFields
<1>3. TypeOK
  <2>1. req \in [Reqs -> Request]
    BY IdleType DEF Init
  <2>2. principal \in [People -> Principal \cup {None}] /\ rows \in [Token -> Row \cup {None}]
    BY DEF Init
  <2>3. session \in [Clients -> Session \cup {None}] /\ seen \in [Reqs -> SUBSET Role]
    BY DEF Init
  <2>4. hadAdmin \in BOOLEAN
    BY DEF Init
  <2>. QED BY <1>1, <2>1, <2>2, <2>3, <2>4 DEF TypeOK
<1>4. Requests
  BY <1>1, <1>2 DEF Requests, RequestOK, PrincipalPc, BootstrapPc, RefreshPc
<1>5. Issued /\ ExchangedOnce /\ Hashes
  BY <1>1, <1>2 DEF Issued, ExchangedOnce, Hashes, Found
<1>6. \A c \in Clients, t \in Token : ~Holds(c, t)
  BY <1>1, <1>2 DEF Holds
<1>7. Private
  BY <1>2, <1>6 DEF Private, Found
<1>8. Undisturbed
  BY <1>1, <1>2 DEF Undisturbed
<1>9. Roles
  BY <1>2 DEF Roles
<1>10. Admins
  BY <1>1, <1>2 DEF Admins, RoleOf, PrincipalPc, Role
<1>11. NeverLockedOut
  BY <1>1 DEF NeverLockedOut
<1>. QED BY <1>3, <1>4, <1>5, <1>7, <1>8, <1>9, <1>10, <1>11 DEF Inv

(* Every step keeps the invariant. *)
LEMMA NextInv == Inv /\ [Next]_vars => Inv'
<1> SUFFICES ASSUME Inv, [Next]_vars
             PROVE  Inv'
  OBVIOUS
<1>1. ASSUME NEW q \in Reqs, QuietStep(q)
      PROVE  Inv'
  BY <1>1, QuietTokens, QuietPrivate, QuietUndisturbed, QuietRoles, QuietAdmins, QuietCluster,
     QuietType DEF Inv
<1>2. ASSUME NEW q \in Reqs, NEW i, Issues(q, i)
      PROVE  Inv'
  BY <1>2, IssuesTokens, IssuesPrivate, IssuesUndisturbed, IssuesRest DEF Inv
<1>3. ASSUME NEW q \in Reqs, Ends(q)
      PROVE  Inv'
  BY <1>3, EndsTokens, EndsRest DEF Inv
<1>4. ASSUME Ages
      PROVE  Inv'
  BY <1>4, AgesTokens, AgesRest DEF Inv
<1>5. ASSUME NEW q \in Reqs, InsertRefreshToken(q) \/ RotateRefreshToken(q)
      PROVE  Inv'
  BY <1>2, <1>5, InsertIssues, RotateIssues
<1>6. ASSUME NEW q \in Reqs, Answer(q) \/ AnswerLost(q)
      PROVE  Inv'
  BY <1>3, <1>6, AnswerEnds
<1>7. ASSUME \/ \E b \in Browsers : Logout(b)
             \/ \E c \in Clients : AccessTokenExpires(c)
             \/ \E i \in Token : RefreshTokenExpires(i)
             \/ UNCHANGED vars
      PROVE  Inv'
  BY <1>4, <1>7, StepAges
<1>8. \/ \E q \in Reqs : \/ QuietStep(q) \/ InsertRefreshToken(q) \/ RotateRefreshToken(q)
                         \/ Answer(q) \/ AnswerLost(q)
      \/ \E b \in Browsers : Logout(b)
      \/ \E c \in Clients : AccessTokenExpires(c)
      \/ \E i \in Token : RefreshTokenExpires(i)
      \/ UNCHANGED vars
  BY DEF Next, LoginStep, RefreshStep, QuietStep
<1>. QED BY <1>1, <1>5, <1>6, <1>7, <1>8

(* The invariant holds throughout. *)
THEOREM Invariance == Spec => []Inv
BY InitInv, NextInv, PTL DEF Spec

(* Every variable keeps its type. *)
THEOREM TypeCorrect == Spec => []TypeOK
<1>1. Inv => TypeOK
  BY DEF Inv
<1>. QED BY <1>1, Invariance, PTL

(* token.go: a refresh token that was exchanged finds no row any more, and *)
(* no token finds two, however many requests present it at once.           *)
THEOREM TokensExchangedOnce == Spec => []ExchangedOnce
<1>1. Inv => ExchangedOnce
  BY DEF Inv
<1>. QED BY <1>1, Invariance, PTL

(* auth.go RequireSession and the command line's silentRefresh: a client   *)
(* that never ran two requests at once and never lost an answer keeps a    *)
(* token that the control plane knows.                                     *)
THEOREM SessionsSurvive == Spec => []SessionSurvives
<1>1. Inv => SessionSurvives
  BY DEF Inv, Undisturbed, SessionSurvives, Good
<1>. QED BY <1>1, Invariance, PTL

(* token.go and github_auth.go: a role in an answer is one that the        *)
(* principal had since the request began.                                  *)
THEOREM RolesCurrent == Spec => []RoleIsCurrent
<1>1. Inv => RoleIsCurrent
  BY DEF Inv, Roles, RoleIsCurrent, At
<1>. QED BY <1>1, Invariance, PTL

(* bootstrap.go: the bootstrap token goes only when somebody has become an *)
(* admin.                                                                  *)
THEOREM BootstrapNeverLocksOut == Spec => []NeverLockedOut
<1>1. Inv => NeverLockedOut
  BY DEF Inv
<1>. QED BY <1>1, Invariance, PTL
=============================================================================
