------------------------------- MODULE Tokens -------------------------------
(***************************************************************************)
(* Sessions and roles: the first admin (bootstrap.go), logins through      *)
(* GitHub (github_auth.go), the exchange of refresh tokens (token.go), the *)
(* changes of principals (operator.go), and the two kinds of client that   *)
(* keep a token pair: the browser's cookie behind the admin UI's           *)
(* RequireSession and the profile file of the command line.                *)
(*                                                                         *)
(* Every SQL statement and every access to the secret store is one step of *)
(* a request, so that the requests of one client or of several interleave  *)
(* between them.  GitHub OAuth is configured; a login is the principal's   *)
(* identity; deploy tokens, which cannot be refreshed and are kept by      *)
(* nobody, are left out, and so is revoked_at, which nothing sets.         *)
(***************************************************************************)
EXTENDS Naturals, FiniteSets

CONSTANTS
  People,       \* GitHub accounts
  Browsers,     \* cookie jars that hold a session of the admin UI
  Profiles,     \* profile files of the command line
  Patches,      \* the pairs of flags, each TRUE, FALSE or None, that requests give
  Reqs,         \* requests at work at the same time
  MaxReqs,      \* bound: requests altogether
  MaxTokens,    \* bound: refresh tokens generated
  MaxDeploys,   \* bound: service deploys
  MaxExpired,   \* bound: rows past their expiry at the same time
  MayFail,      \* TRUE: statements may fail, answers may be lost
  None

Clients == Browsers \cup Profiles

Token == 1 .. MaxTokens

ASSUME TokenConstants ==
  /\ MaxReqs \in Nat /\ MaxTokens \in Nat /\ MaxDeploys \in Nat
  /\ MaxExpired \in Nat
  /\ MayFail \in BOOLEAN
  /\ None \notin People /\ None \notin Clients /\ None \notin Nat
  /\ Browsers \cap Profiles = {}
  /\ None \notin BOOLEAN /\ Patches \subseteq (BOOLEAN \cup {None}) \X (BOOLEAN \cup {None})

VARIABLES
  principal,  \* the principals table; None where there is no row
  rows,       \* refresh_tokens; a row's id is the first token it was given
  issued,     \* refresh tokens generated so far: token n is the nth
  secret,     \* the bootstrap token that the cluster holds, 0 for none
  deploys,    \* bootstrap tokens written so far
  session,    \* what each client keeps
  req,        \* the requests
  made,       \* requests so far
  retired,    \* history: tokens that were exchanged for another
  disturbed,  \* history: clients whose requests overlapped or lost an answer
  seen,       \* history: the roles that the request's principal has had
              \* since the request began
  hadAdmin    \* history: somebody has been an admin

vars == <<principal, rows, issued, secret, deploys, session, req, made,
          retired, disturbed, seen, hadAdmin>>

-----------------------------------------------------------------------------
(* Types *)

Principal == [is_operator : BOOLEAN, is_admin : BOOLEAN]

(* Roles in a token; "none" is a principal without elevated access. *)
Role == {"admin", "operator", "bootstrap_id", "none"}

Row == [hash : Token, subject : People, role : {"admin", "operator"},
        expired : BOOLEAN]

(* fresh: the access token has at least 30 seconds to live. *)
Session == [who : People, role : Role \ {"none"}, refresh : Token \cup {None},
            fresh : BOOLEAN]

(* None is no row, no session and no role. *)
ASSUME NoneApart == /\ None \notin Principal /\ None \notin Row
                    /\ None \notin Session /\ None \notin Role

LoginPc == {"gh_upsert", "insert"}
BootstrapPc == {"gh_mode", "bs_check", "bs_upsert", "bs_admin", "bs_operator", "bs_delete"}
RefreshPc == {"rf_find", "rf_role", "rf_rotate", "rf_refused"}
PrincipalPc == {"pp_operator", "pp_admin", "pp_delete"}

Flag == BOOLEAN \cup {None}

(* client is None for a change of a principal; gen is the bootstrap token  *)
(* of a service deploy, 0 for everything else; token is the refresh token  *)
(* that a request presents, and then the one that answers it.              *)
Request ==
  [pc : {"idle", "answer"} \cup LoginPc \cup BootstrapPc \cup RefreshPc \cup PrincipalPc,
   client : Clients \cup {None}, who : People \cup {None}, gen : 0 .. MaxDeploys,
   token : Token \cup {None}, row : Token \cup {None}, role : Role \cup {None},
   is_operator : Flag, is_admin : Flag, keep : BOOLEAN]

Idle == [pc |-> "idle", client |-> None, who |-> None, gen |-> 0, token |-> None,
         row |-> None, role |-> None, is_operator |-> None, is_admin |-> None,
         keep |-> TRUE]

TypeOK ==
  /\ principal \in [People -> Principal \cup {None}]
  /\ rows \in [Token -> Row \cup {None}]
  /\ issued \in 0 .. MaxTokens
  /\ secret \in 0 .. deploys /\ deploys \in 0 .. MaxDeploys
  /\ session \in [Clients -> Session \cup {None}]
  /\ req \in [Reqs -> Request] /\ made \in 0 .. MaxReqs
  /\ retired \subseteq Token /\ disturbed \subseteq Clients
  /\ seen \in [Reqs -> SUBSET Role] /\ hadAdmin \in BOOLEAN

Init ==
  /\ principal = [p \in People |-> None]
  /\ rows = [i \in Token |-> None]
  /\ issued = 0 /\ secret = 0 /\ deploys = 0
  /\ session = [c \in Clients |-> None]
  /\ req = [q \in Reqs |-> Idle] /\ made = 0
  /\ retired = {} /\ disturbed = {}
  /\ seen = [q \in Reqs |-> {}] /\ hadAdmin = FALSE

-----------------------------------------------------------------------------
(* Helpers *)

Live(q) == req[q].pc # "idle"

At(q, pc) == req[q].pc = pc

store == <<principal, rows, issued, secret, deploys>>

(* The switch of TokenRefresh and HandleGitHubAuth. *)
RoleOf(p) ==
  IF p = None THEN "none"
  ELSE IF p.is_admin THEN "admin"
  ELSE IF p.is_operator THEN "operator" ELSE "none"

NewPrincipal == [is_operator |-> FALSE, is_admin |-> FALSE]

(* UpsertPrincipal leaves the flags of a known principal alone. *)
UpsertPrincipal(p) ==
  principal' = [principal EXCEPT ![p] = IF @ = None THEN NewPrincipal ELSE @]

(* The history that every action keeps. *)
Observe ==
  /\ seen' = [q \in Reqs |->
                IF req'[q].who = None THEN {}
                ELSE (IF req'[q].who = req[q].who THEN seen[q] ELSE {})
                       \cup {RoleOf(principal'[req'[q].who])}]
  /\ hadAdmin' = (hadAdmin \/ \E p \in People : RoleOf(principal'[p]) = "admin")

Begin(q, begin) ==
  /\ ~Live(q)
  /\ made < MaxReqs
  /\ made' = made + 1
  /\ req' = [req EXCEPT ![q] = begin]
  /\ disturbed' = IF \E r \in Reqs : Live(r) /\ req[r].client = begin.client
                    THEN disturbed \cup ({begin.client} \ {None}) ELSE disturbed

Move(q, r) == req' = [req EXCEPT ![q] = r] /\ UNCHANGED <<made, disturbed>>

Goto(q, pc) == Move(q, [req[q] EXCEPT !.pc = pc])

Return(q) == Move(q, Idle)

-----------------------------------------------------------------------------
(* A login through GitHub, from the admin UI's callback or from the        *)
(* command line                                                            *)

(* HandleGitHubAuth: with a bootstrap token in the cluster the answer is   *)
(* an identity token without a refresh token; an error in reading it       *)
(* counts as none.                                                         *)
Login(q, c, p) ==
  /\ \/ /\ secret # 0
        /\ Begin(q, [Idle EXCEPT !.pc = "answer", !.client = c, !.who = p,
                                 !.role = "bootstrap_id"])
     \/ /\ secret = 0 \/ MayFail
        /\ Begin(q, [Idle EXCEPT !.pc = "gh_upsert", !.client = c, !.who = p])
  /\ UNCHANGED <<store, session, retired>> /\ Observe

(* The login of a service deploy: it goes on to POST /bootstrap with the   *)
(* identity token; what an ordinary login answers is of no use to it.      *)
DeployLogin(q) ==
  /\ At(q, "gh_mode")
  /\ \/ secret # 0 /\ Goto(q, "bs_check")
     \/ /\ secret = 0 \/ MayFail
        /\ Move(q, [req[q] EXCEPT !.pc = "gh_upsert", !.keep = FALSE])
  /\ UNCHANGED <<store, session, retired>> /\ Observe

(* Seeded fault: a principal without elevated access is not refused. *)
GitHubPrincipalAny(q) ==
  /\ At(q, "gh_upsert")
  /\ UpsertPrincipal(req[q].who)
  /\ Move(q, [req[q] EXCEPT !.pc = "insert", !.role = RoleOf(principal[req[q].who])])
  /\ UNCHANGED <<rows, issued, secret, deploys, session, retired>> /\ Observe

GitHubPrincipal(q) ==
  /\ At(q, "gh_upsert")
  /\ UpsertPrincipal(req[q].who)
  /\ LET role == RoleOf(principal[req[q].who])
     IN  IF role = "none" THEN Return(q)
         ELSE Move(q, [req[q] EXCEPT !.pc = "insert", !.role = role])
  /\ UNCHANGED <<rows, issued, secret, deploys, session, retired>> /\ Observe

(* GenerateRefreshToken and InsertRefreshToken, for a login and for the    *)
(* bootstrap.                                                              *)
InsertRefreshToken(q) ==
  /\ At(q, "insert")
  /\ issued < MaxTokens
  /\ issued' = issued + 1
  /\ rows' = [rows EXCEPT ![issued'] = [hash |-> issued', subject |-> req[q].who,
                                        role |-> req[q].role, expired |-> FALSE]]
  /\ Move(q, [req[q] EXCEPT !.pc = "answer", !.token = issued'])
  /\ UNCHANGED <<principal, secret, deploys, session, retired>> /\ Observe

(* The answer reaches its client, which keeps it: setSessionCookie,        *)
(* SaveProfile or writeProfile.                                            *)
Answer(q) ==
  /\ At(q, "answer")
  /\ session' = IF req[q].keep
                  THEN [session EXCEPT ![req[q].client] =
                          [who |-> req[q].who, role |-> req[q].role,
                           refresh |-> req[q].token, fresh |-> TRUE]]
                  ELSE session
  /\ Return(q)
  /\ UNCHANGED <<store, retired>> /\ Observe

(* The answer is lost: a restart, or a connection that broke. *)
AnswerLost(q) ==
  /\ MayFail /\ At(q, "answer")
  /\ req' = [req EXCEPT ![q] = Idle] /\ UNCHANGED made
  /\ disturbed' = disturbed \cup {req[q].client}
  /\ UNCHANGED <<store, session, retired>> /\ Observe

-----------------------------------------------------------------------------
(* A service deploy and the bootstrap *)

(* The deploy of the local platform writes a new bootstrap token every     *)
(* time and then logs in.                                                  *)
ServiceDeploy(q, c, p) ==
  /\ deploys < MaxDeploys
  /\ deploys' = deploys + 1 /\ secret' = deploys'
  /\ Begin(q, [Idle EXCEPT !.pc = "gh_mode", !.client = c, !.who = p, !.gen = deploys'])
  /\ UNCHANGED <<principal, rows, issued, session, retired>> /\ Observe

(* HandleBootstrap: the token must be the one in the cluster ... *)
BootstrapCheck(q) ==
  /\ At(q, "bs_check")
  /\ IF secret = req[q].gen THEN Goto(q, "bs_upsert") ELSE Return(q)
  /\ UNCHANGED <<store, session, retired>> /\ Observe

(* Seeded fault: the token is consumed before there is an admin. *)
BootstrapConsumedFirst(q) ==
  /\ At(q, "bs_upsert")
  /\ UpsertPrincipal(req[q].who)
  /\ secret' = 0
  /\ Goto(q, "bs_admin")
  /\ UNCHANGED <<rows, issued, deploys, session, retired>> /\ Observe

BootstrapPrincipal(q) ==
  /\ At(q, "bs_upsert")
  /\ UpsertPrincipal(req[q].who)
  /\ Goto(q, "bs_admin")
  /\ UNCHANGED <<rows, issued, secret, deploys, session, retired>> /\ Observe

(* SetAdmin, SetOperator: an UPDATE that may find no row. *)
SetAdmin(p, v) ==
  principal' = [principal EXCEPT ![p] = IF @ = None THEN None
                                        ELSE [@ EXCEPT !.is_admin = v]]

SetOperator(p, v) ==
  principal' = [principal EXCEPT ![p] = IF @ = None THEN None
                                        ELSE [@ EXCEPT !.is_operator = v]]

BootstrapAdmin(q) ==
  /\ At(q, "bs_admin")
  /\ SetAdmin(req[q].who, TRUE)
  /\ Goto(q, "bs_operator")
  /\ UNCHANGED <<rows, issued, secret, deploys, session, retired>> /\ Observe

BootstrapOperator(q) ==
  /\ At(q, "bs_operator")
  /\ SetOperator(req[q].who, TRUE)
  /\ Goto(q, "bs_delete")
  /\ UNCHANGED <<rows, issued, secret, deploys, session, retired>> /\ Observe

(* ... and is deleted, whichever it is by now; an error is only logged. *)
DeleteBootstrapToken(q) ==
  /\ At(q, "bs_delete")
  /\ secret' = 0 \/ (MayFail /\ UNCHANGED secret)
  /\ Move(q, [req[q] EXCEPT !.pc = "insert", !.role = "admin"])
  /\ UNCHANGED <<principal, rows, issued, deploys, session, retired>> /\ Observe

-----------------------------------------------------------------------------
(* The exchange of a refresh token *)

(* RequireSession and LoadProfile: the access token has run out.  Without  *)
(* a refresh token the command line gives up, the admin UI asks anyway.    *)
Refresh(q, c) ==
  /\ session[c] # None /\ ~session[c].fresh
  /\ session[c].refresh # None \/ c \in Browsers
  /\ Begin(q, [Idle EXCEPT !.pc = "rf_find", !.client = c, !.who = session[c].who,
                           !.token = session[c].refresh])
  /\ UNCHANGED <<store, session, retired>> /\ Observe

(* GetRefreshTokenByHash and validateRefreshToken *)
FindRefreshToken(q) ==
  /\ At(q, "rf_find")
  /\ LET found == {i \in Token : rows[i] # None /\ rows[i].hash = req[q].token
                                   /\ ~rows[i].expired}
     IN  IF found = {} THEN Goto(q, "rf_refused")
         ELSE \E i \in found :
                Move(q, [req[q] EXCEPT !.pc = "rf_role", !.row = i, !.who = rows[i].subject])
  /\ UNCHANGED <<store, session, retired>> /\ Observe

(* Seeded fault: the role of the row, as it was when the person logged in. *)
RefreshRoleFromRow(q) ==
  /\ At(q, "rf_role")
  /\ IF principal[req[q].who] = None THEN Goto(q, "rf_refused")
     ELSE Move(q, [req[q] EXCEPT !.pc = "rf_rotate", !.role = rows[req[q].row].role])
  /\ UNCHANGED <<store, session, retired>> /\ Observe

(* GetPrincipalByLogin: the role is read anew. *)
RefreshRole(q) ==
  /\ At(q, "rf_role")
  /\ LET role == RoleOf(principal[req[q].who])
     IN  IF role = "none" THEN Goto(q, "rf_refused")
         ELSE Move(q, [req[q] EXCEPT !.pc = "rf_rotate", !.role = role])
  /\ UNCHANGED <<store, session, retired>> /\ Observe

(* Seeded fault: the new token is a new row and the old one stays. *)
RotatedAsNewRow(q, new) ==
  [rows EXCEPT ![new] = [rows[req[q].row] EXCEPT !.hash = new, !.expired = FALSE]]

(* Seeded fault: the other tokens of the same person go with it. *)
RotatedAlone(q, new) ==
  [i \in Token |->
     IF rows[i] = None THEN None
     ELSE IF i = req[q].row THEN [rows[i] EXCEPT !.hash = new, !.expired = FALSE]
     ELSE IF rows[i].subject = req[q].who THEN None ELSE rows[i]]

(* The UPDATE picks the row by id, whatever token it holds by now. *)
Rotated(q, new) ==
  [rows EXCEPT ![req[q].row] = [@ EXCEPT !.hash = new, !.expired = FALSE]]

RotateRefreshToken(q) ==
  /\ At(q, "rf_rotate")
  /\ issued < MaxTokens
  /\ issued' = issued + 1
  /\ rows' = Rotated(q, issued')
  /\ retired' = retired \cup {req[q].token}
  /\ Move(q, [req[q] EXCEPT !.pc = "answer", !.token = issued'])
  /\ UNCHANGED <<principal, secret, deploys, session>> /\ Observe

(* RequireSession clears the cookie on every failure - the one that the    *)
(* browser holds when the answer arrives; the command line runs on without *)
(* a token and leaves its profile alone.                                   *)
RefreshRefused(q) ==
  /\ At(q, "rf_refused")
  /\ session' = IF req[q].client \in Browsers
                  THEN [session EXCEPT ![req[q].client] = None] ELSE session
  /\ Return(q)
  /\ UNCHANGED <<store, retired>> /\ Observe

(* HandleLogout: the row of the refresh token stays. *)
Logout(b) ==
  /\ session[b] # None
  /\ session' = [session EXCEPT ![b] = None]
  /\ UNCHANGED <<store, req, made, retired, disturbed>> /\ Observe

AccessTokenExpires(c) ==
  /\ session[c] # None /\ session[c].fresh
  /\ session' = [session EXCEPT ![c].fresh = FALSE]
  /\ UNCHANGED <<store, req, made, retired, disturbed>> /\ Observe

(* 90 days without a refresh *)
RefreshTokenExpires(i) ==
  /\ rows[i] # None /\ ~rows[i].expired
  /\ Cardinality({j \in Token : rows[j] # None /\ rows[j].expired}) < MaxExpired
  /\ rows' = [rows EXCEPT ![i].expired = TRUE]
  /\ UNCHANGED <<principal, issued, secret, deploys, session, req, made,
                 retired, disturbed>> /\ Observe

-----------------------------------------------------------------------------
(* Changes of principals, by whoever has an admin's access token *)

AdminAtWork == \E c \in Clients : /\ session[c] # None
                                  /\ session[c].fresh /\ session[c].role = "admin"

(* AddOperatorPrincipal and HandlePrincipalPatch: GetPrincipalByLogin, then *)
(* the flags that the request gives, one UPDATE each.                       *)
PatchPrincipal(q, p, patch) ==
  /\ AdminAtWork /\ principal[p] # None
  /\ Begin(q, [Idle EXCEPT !.pc = "pp_operator", !.who = p,
                           !.is_operator = patch[1], !.is_admin = patch[2]])
  /\ UNCHANGED <<store, session, retired>> /\ Observe

PatchOperator(q) ==
  /\ At(q, "pp_operator")
  /\ IF req[q].is_operator = None THEN UNCHANGED principal
     ELSE SetOperator(req[q].who, req[q].is_operator)
  /\ Goto(q, "pp_admin")
  /\ UNCHANGED <<rows, issued, secret, deploys, session, retired>> /\ Observe

PatchAdmin(q) ==
  /\ At(q, "pp_admin")
  /\ IF req[q].is_admin = None THEN UNCHANGED principal
     ELSE SetAdmin(req[q].who, req[q].is_admin)
  /\ Return(q)
  /\ UNCHANGED <<rows, issued, secret, deploys, session, retired>> /\ Observe

(* RemoveOperatorPrincipal: the row of the principal and nothing else. *)
RemovePrincipal(q, p) ==
  /\ AdminAtWork /\ principal[p] # None
  /\ Begin(q, [Idle EXCEPT !.pc = "pp_delete", !.who = p])
  /\ UNCHANGED <<store, session, retired>> /\ Observe

DeletePrincipal(q) ==
  /\ At(q, "pp_delete")
  /\ principal' = [principal EXCEPT ![req[q].who] = None]
  /\ Return(q)
  /\ UNCHANGED <<rows, issued, secret, deploys, session, retired>> /\ Observe

(* A statement fails or the process restarts: the request ends where it    *)
(* is.  The admin UI takes the error for a refusal, unless it went down    *)
(* too.                                                                    *)
RequestFails(q) ==
  /\ MayFail /\ Live(q)
  /\ req[q].pc \notin {"answer", "rf_refused"}
  /\ \/ Return(q)
     \/ req[q].pc \in RefreshPc /\ Goto(q, "rf_refused")
  /\ UNCHANGED <<store, session, retired>> /\ Observe

-----------------------------------------------------------------------------
(* Specification *)

Arrive(q) ==
  \/ \E c \in Clients, p \in People : Login(q, c, p)
  \/ \E c \in Profiles, p \in People : ServiceDeploy(q, c, p)
  \/ \E c \in Clients : Refresh(q, c)
  \/ \E p \in People, patch \in Patches : PatchPrincipal(q, p, patch)
  \/ \E p \in People : RemovePrincipal(q, p)

LoginStep(q) ==
  GitHubPrincipal(q) \/ InsertRefreshToken(q) \/ Answer(q) \/ AnswerLost(q)

BootstrapStep(q) ==
  \/ DeployLogin(q) \/ BootstrapCheck(q) \/ BootstrapPrincipal(q) \/ BootstrapAdmin(q)
  \/ BootstrapOperator(q) \/ DeleteBootstrapToken(q)

RefreshStep(q) ==
  FindRefreshToken(q) \/ RefreshRole(q) \/ RotateRefreshToken(q) \/ RefreshRefused(q)

PrincipalStep(q) == PatchOperator(q) \/ PatchAdmin(q) \/ DeletePrincipal(q)

Next ==
  \/ \E q \in Reqs :
       \/ Arrive(q) \/ LoginStep(q) \/ BootstrapStep(q) \/ RefreshStep(q)
       \/ PrincipalStep(q) \/ RequestFails(q)
  \/ \E b \in Browsers : Logout(b)
  \/ \E c \in Clients : AccessTokenExpires(c)
  \/ \E i \in Token : RefreshTokenExpires(i)

Spec == Init /\ [][Next]_vars

-----------------------------------------------------------------------------
(* Properties *)

(* token.go, RotateRefreshToken: a refresh token that was exchanged is     *)
(* never found again, by whichever request, however many exchanges of one  *)
(* token overlap; and no token finds two rows.                             *)
ExchangedOnce ==
  \A i \in Token : rows[i] # None =>
    /\ rows[i].hash \notin retired
    /\ \A j \in Token : rows[j] # None /\ rows[j].hash = rows[i].hash => i = j

(* handler.go silentRefresh, auth.go RequireSession: a client that never   *)
(* had two requests under way at once and never lost an answer holds a     *)
(* token that the control plane knows, as its own, whatever the other      *)
(* clients of the same person do.                                          *)
SessionSurvives ==
  \A c \in Clients \ disturbed :
    /\ session[c] # None /\ (\A q \in Reqs : req[q].client # c)
    /\ session[c].refresh # None
    => \E i \in Token : /\ rows[i] # None /\ rows[i].hash = session[c].refresh
                        /\ rows[i].subject = session[c].who

(* token.go, github_auth.go: the role in an access token is one that its   *)
(* principal had at some moment of the request, so a demotion or a removal *)
(* that came before it is obeyed.  (A bootstrap issues an admin's token    *)
(* without looking.)                                                       *)
RoleIsCurrent ==
  \A q \in Reqs :
    At(q, "answer") /\ req[q].gen = 0 /\ req[q].role # "bootstrap_id" =>
      req[q].role \in seen[q]

(* bootstrap.go: once a deploy has written a bootstrap token, either one   *)
(* is still there or somebody has become an admin, wherever a bootstrap    *)
(* failed and whichever deploys overlapped.                                *)
NeverLockedOut == deploys > 0 /\ secret = 0 => hadAdmin = TRUE
=============================================================================
