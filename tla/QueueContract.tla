--------------------------- MODULE QueueContract ---------------------------
(***************************************************************************)
(* What the queue service promises of a message (package internal/queue,   *)
(* the comments of the Queue interface): it stays until it is acknowledged *)
(* by a consumer that received it, or its queue is deleted; while one      *)
(* consumer's visibility timeout runs nobody else receives it; and once    *)
(* acknowledged it is never delivered again.                               *)
(***************************************************************************)
CONSTANTS Messages, Consumers

VARIABLES
  status,  \* what became of each message
  leased,  \* the messages whose visibility timeout is running
  held     \* the consumers that received each message and still work on it

contractVars == <<status, leased, held>>

Init ==
  /\ status = [m \in Messages |-> "new"]
  /\ leased = {}
  /\ held = [m \in Messages |-> {}]

Enqueue(m) ==
  /\ status[m] = "new"
  /\ status' = [status EXCEPT ![m] = "queued"]
  /\ UNCHANGED <<leased, held>>

(* An enqueue that overlaps the deletion of the queue. *)
EnqueueDeleted(m) ==
  /\ status[m] = "new"
  /\ status' = [status EXCEPT ![m] = "purged"]
  /\ UNCHANGED <<leased, held>>

Deliver(c, m) ==
  /\ status[m] = "queued"
  /\ m \notin leased
  /\ leased' = leased \cup {m}
  /\ held' = [held EXCEPT ![m] = @ \cup {c}]
  /\ UNCHANGED status

(* A dequeue that overlaps the deletion of the queue. *)
DeliverDeleted(c, m) ==
  /\ status[m] = "purged"
  /\ held' = [held EXCEPT ![m] = @ \cup {c}]
  /\ UNCHANGED <<status, leased>>

Lapse(m) ==
  /\ leased' = leased \ {m}
  /\ UNCHANGED <<status, held>>

Ack(c, m) ==
  /\ c \in held[m]
  /\ status[m] \in {"queued", "purged"}
  /\ status' = [status EXCEPT ![m] = "acked"]
  /\ leased' = leased \ {m}
  /\ UNCHANGED held

(* The consumer is done with the message, or forgets it. *)
Release(c, m) ==
  /\ held' = [held EXCEPT ![m] = @ \ {c}]
  /\ UNCHANGED <<status, leased>>

Purge(S) ==
  /\ \A m \in S : status[m] = "queued"
  /\ status' = [m \in Messages |-> IF m \in S THEN "purged" ELSE status[m]]
  /\ leased' = leased \ S
  /\ UNCHANGED held

Next ==
  \/ \E m \in Messages : Enqueue(m) \/ EnqueueDeleted(m) \/ Lapse(m)
  \/ \E m \in Messages, c \in Consumers :
       Deliver(c, m) \/ DeliverDeleted(c, m) \/ Ack(c, m) \/ Release(c, m)
  \/ \E S \in SUBSET Messages : Purge(S)

Spec == Init /\ [][Next]_contractVars
=============================================================================
