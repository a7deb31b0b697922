--------------------------- MODULE MCAppLifecycle ---------------------------
(* Instances of AppLifecycle for TLC. *)
EXTENDS AppLifecycle, TLC

CONSTANTS app1, app2, app3, op1, op2, op3, wk1, wk2, good1, good2, bad

OneHttp == app1 :> "http"
OneOfEach == (app1 :> "http") @@ (app2 :> "worker") @@ (app3 :> "cron")

Symmetry == Permutations(Ops) \cup Permutations(Wakers)
=============================================================================
