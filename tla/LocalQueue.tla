----------------------------- MODULE LocalQueue -----------------------------
(***************************************************************************)
(* The queue service for one namespace: cmd/morsel-ctrl-plane/svc_queue.go *)
(* and package internal/queue.  Every request opens its own connection to  *)
(* the queue's SQLite file and to quota.db, so two requests share nothing  *)
(* but the files and the in-process channels of the long poll.  Each SQL   *)
(* statement outside a transaction, and each commit, is one step.          *)
(*                                                                         *)
(* SQLite is external.  A transaction begins deferred (BeginTx without     *)
(* options) on a WAL file: it reads one snapshot, and its first write      *)
(* fails if anyone has committed to the file since.  A connection to a     *)
(* file that DeleteQueue has unlinked goes on working on the dead file.    *)
(***************************************************************************)
EXTENDS Naturals, FiniteSets

CONSTANTS
  Queues,     \* queue names
  Senders,    \* enqueue requests; each makes one message, named after it
  Consumers,  \* clients that dequeue and acknowledge
  Size,       \* len(body) of each sender's message
  Limits,     \* the values SetQuota is called with; 0 is no limit
  MaxGen,     \* bound: how often a queue's file is deleted
  MayFail,    \* TRUE: a write to a database may fail (busy, disk full)
  MayCrash,   \* TRUE: the queue service may be killed
  None

ASSUME QueueConstants ==
  /\ Size \in [Senders -> Nat]
  /\ Limits \subseteq Nat
  /\ MaxGen \in Nat
  /\ MayFail \in BOOLEAN /\ MayCrash \in BOOLEAN
  /\ None \notin Queues /\ None \notin Senders

VARIABLES
  exists,  \* the queue's file is there
  gen,     \* how often it was deleted: tells a new file from a dead one
  msg,     \* the rows of the messages tables
  send,    \* the enqueue requests
  cons,    \* the consumers, and the requests they have under way
  total,   \* quota.total_bytes
  limit,   \* quota.limit_bytes
  clock,   \* the latest enqueued_at
  chan     \* the notifier channels, of capacity one

vars == <<exists, gen, msg, send, cons, total, limit, clock, chan>>

-----------------------------------------------------------------------------
(* Types *)

(* A "purged" row is in a file that DeleteQueue unlinked. *)
Stored == {"visible", "claimed"}
MsgStatus == {"new", "acked", "purged"} \cup Stored

SendPc == {"idle", "open", "commit", "add", "signal", "accepted", "rejected",
           "failed", "lost"}

(* "select" and "claim" are the first Dequeue of the handler, "wait" is    *)
(* WaitForMessage, "select2" and "claim" the second Dequeue.               *)
Dequeuing == {"select", "claim", "wait", "select2"}
Acking == {"ack_size", "ack_delete", "ack_quota"}
Holding == {"has"} \cup Acking

Consumer == [pc : {"idle"} \cup Dequeuing \cup Holding,
             q : Queues \cup {None}, h : 0 .. MaxGen, m : Senders \cup {None},
             stale : BOOLEAN,    \* the snapshot of the transaction is old
             lapsed : BOOLEAN]   \* the visibility timeout has passed

IdleConsumer == [pc |-> "idle", q |-> None, h |-> 0, m |-> None,
                 stale |-> FALSE, lapsed |-> FALSE]

TypeOK ==
  /\ exists \in [Queues -> BOOLEAN]
  /\ gen \in [Queues -> 0 .. MaxGen]
  /\ msg \in [Senders -> [status : MsgStatus, q : Queues \cup {None},
                          gen : 0 .. MaxGen, at : Nat]]
  /\ send \in [Senders -> [pc : SendPc, q : Queues \cup {None}, h : 0 .. MaxGen]]
  /\ cons \in [Consumers -> Consumer]
  /\ total \in Nat
  /\ limit \in Nat
  /\ clock \in Nat
  /\ chan \in [Queues -> {"none", "empty", "full"}]

Init ==
  /\ exists = [q \in Queues |-> FALSE]
  /\ gen = [q \in Queues |-> 0]
  /\ msg = [s \in Senders |-> [status |-> "new", q |-> None, gen |-> 0, at |-> 0]]
  /\ send = [s \in Senders |-> [pc |-> "idle", q |-> None, h |-> 0]]
  /\ cons = [c \in Consumers |-> IdleConsumer]
  /\ total = 0
  /\ limit = 0
  /\ clock = 0
  /\ chan = [q \in Queues |-> "none"]

-----------------------------------------------------------------------------
(* Helpers *)

(* f, after a commit to the file of generation h of queue q: the snapshots *)
(* of the transactions open on that file are old.                          *)
Commit(f, q, h) ==
  [c \in Consumers |->
     IF f[c].pc = "claim" /\ f[c].q = q /\ f[c].h = h
       THEN [f[c] EXCEPT !.stale = TRUE] ELSE f[c]]

Move(c, pc) == [cons EXCEPT ![c].pc = pc]

Reply(c) == [cons EXCEPT ![c] = IdleConsumer]

(* The row of message m, seen through a connection to generation h. *)
RowIn(m, q, h) ==
  /\ msg[m].status \in Stored \cup {"purged"}
  /\ msg[m].q = q /\ msg[m].gen = h

-----------------------------------------------------------------------------
(* CreateQueue, DeleteQueue, SetQuota *)

CreateQueue(q) ==
  /\ ~exists[q]
  /\ exists' = [exists EXCEPT ![q] = TRUE]
  /\ UNCHANGED <<gen, msg, send, cons, total, limit, clock, chan>>

(* The file is removed; quota.db is not touched. *)
DeleteQueue(q) ==
  /\ exists[q]
  /\ gen[q] < MaxGen
  /\ exists' = [exists EXCEPT ![q] = FALSE]
  /\ gen' = [gen EXCEPT ![q] = @ + 1]
  /\ msg' = [m \in Senders |->
               IF msg[m].q = q /\ msg[m].status \in Stored
                 THEN [msg[m] EXCEPT !.status = "purged"] ELSE msg[m]]
  /\ UNCHANGED <<send, cons, total, limit, clock, chan>>

SetQuota(l) ==
  /\ l # limit
  /\ limit' = l
  /\ UNCHANGED <<exists, gen, msg, send, cons, total, clock, chan>>

-----------------------------------------------------------------------------
(* Enqueue *)

SendTo(s, pc) == send' = [send EXCEPT ![s].pc = pc]

(* GetQuota and the check against the limit *)
CheckQuota(s, q) ==
  /\ send[s].pc = "idle"
  /\ send' = [send EXCEPT ![s].q = q, ![s].pc =
                IF limit > 0 /\ total + Size[s] > limit THEN "rejected" ELSE "open"]
  /\ UNCHANGED <<exists, gen, msg, cons, total, limit, clock, chan>>

(* openOrCreateQueue, and enqueued_at: a millisecond that others may share *)
OpenQueue(s) ==
  /\ send[s].pc = "open"
  /\ exists' = [exists EXCEPT ![send[s].q] = TRUE]
  /\ send' = [send EXCEPT ![s].pc = "commit", ![s].h = gen[send[s].q]]
  /\ \E now \in {clock, clock + 1} :
       /\ clock' = now
       /\ msg' = [msg EXCEPT ![s].at = now]
  /\ UNCHANGED <<gen, cons, total, limit, chan>>

(* InsertMessage and the commit.  UpsertMeta, in the same transaction, is  *)
(* for a sender of another namespace: the handler never passes one.        *)
InsertMessage(s) ==
  /\ send[s].pc = "commit"
  /\ LET q == send[s].q
         h == send[s].h
     IN  /\ msg' = [msg EXCEPT ![s].q = q, ![s].gen = h, ![s].status =
                      IF h = gen[q] THEN "visible" ELSE "purged"]
         /\ cons' = Commit(cons, q, h)
  /\ SendTo(s, "add")
  /\ UNCHANGED <<exists, gen, total, limit, clock, chan>>

(* The file cannot be opened, or the transaction fails and is rolled back. *)
EnqueueFails(s) ==
  /\ MayFail
  /\ send[s].pc \in {"open", "commit"}
  /\ SendTo(s, "failed")
  /\ UNCHANGED <<exists, gen, msg, cons, total, limit, clock, chan>>

(* AddBytes: an error is logged *)
AddBytes(s) ==
  /\ send[s].pc = "add"
  /\ \/ total' = total + Size[s]
     \/ MayFail /\ total' = total
  /\ SendTo(s, "signal")
  /\ UNCHANGED <<exists, gen, msg, cons, limit, clock, chan>>

(* A send that finds no channel, or a full one, is dropped. *)
SignalQueue(s) ==
  /\ send[s].pc = "signal"
  /\ chan' = [chan EXCEPT ![send[s].q] = IF @ = "none" THEN "none" ELSE "full"]
  /\ SendTo(s, "accepted")
  /\ UNCHANGED <<exists, gen, msg, cons, total, limit, clock>>

EnqueueStep(s) ==
  \/ OpenQueue(s) \/ InsertMessage(s) \/ EnqueueFails(s) \/ AddBytes(s)
  \/ SignalQueue(s)

-----------------------------------------------------------------------------
(* The dequeue handler: Dequeue, WaitForMessage, Dequeue *)

GetNext(c, q) ==
  /\ cons[c].pc = "idle"
  /\ cons' = [cons EXCEPT ![c].pc = "select", ![c].q = q]
  /\ UNCHANGED <<exists, gen, msg, send, total, limit, clock, chan>>

Visible(q) == {m \in Senders : msg[m].status = "visible" /\ msg[m].q = q}

(* ORDER BY enqueued_at LIMIT 1: one of the oldest *)
Oldest(S) == {m \in S : \A n \in S : msg[m].at <= msg[n].at}

(* openQueue and SelectNextMessage.  No queue: an error; no visible        *)
(* message: wait the first time, 204 the second.                           *)
SelectNext(c) ==
  /\ cons[c].pc \in {"select", "select2"}
  /\ LET q == cons[c].q
     IN  \/ /\ ~exists[q]
            /\ cons' = Reply(c)
         \/ /\ exists[q] /\ Visible(q) = {}
            /\ cons' = IF cons[c].pc = "select" THEN Move(c, "wait") ELSE Reply(c)
         \/ /\ exists[q]
            /\ \E m \in Oldest(Visible(q)) :
                 cons' = [cons EXCEPT ![c].pc = "claim", ![c].m = m,
                                      ![c].h = gen[q], ![c].stale = FALSE]
  /\ UNCHANGED <<exists, gen, msg, send, total, limit, clock, chan>>

(* Seeded fault: the row is read outside the transaction that claims it. *)
SetVisibilityAnyway(c) ==
  /\ cons[c].pc = "claim"
  /\ LET m == cons[c].m
     IN  /\ msg' = [msg EXCEPT ![m].status =
                      IF @ = "visible" THEN "claimed" ELSE @]
         /\ cons' = [Commit(cons, cons[c].q, cons[c].h) EXCEPT
                       ![c] = [IdleConsumer EXCEPT !.pc = "has",
                                 !.q = cons[c].q, !.m = m]]
  /\ UNCHANGED <<exists, gen, send, total, limit, clock, chan>>

(* SetVisibility and the commit, and the message is sent to the consumer. *)
SetVisibility(c) ==
  /\ cons[c].pc = "claim"
  /\ ~cons[c].stale
  /\ LET m == cons[c].m
     IN  /\ msg' = [msg EXCEPT ![m].status =
                      IF @ = "visible" THEN "claimed" ELSE @]
         /\ cons' = [Commit(cons, cons[c].q, cons[c].h) EXCEPT
                       ![c] = [IdleConsumer EXCEPT !.pc = "has",
                                 !.q = cons[c].q, !.m = m]]
  /\ UNCHANGED <<exists, gen, send, total, limit, clock, chan>>

(* SQLITE_BUSY, or another error: rolled back, and 500 to the consumer *)
DequeueFails(c) ==
  /\ \/ cons[c].pc = "claim" /\ cons[c].stale
     \/ MayFail /\ cons[c].pc \in {"select", "claim", "select2"}
  /\ cons' = Reply(c)
  /\ UNCHANGED <<exists, gen, msg, send, total, limit, clock, chan>>

(* Seeded fault: the wait has no deadline. *)
WaitForever(c) ==
  /\ cons[c].pc = "wait"
  /\ LET q == cons[c].q
     IN  IF chan[q] = "full"
           THEN chan' = [chan EXCEPT ![q] = "empty"] /\ cons' = Move(c, "select2")
           ELSE chan' = [chan EXCEPT ![q] = "empty"] /\ UNCHANGED cons
  /\ UNCHANGED <<exists, gen, msg, send, total, limit, clock>>

(* WaitForMessage makes the channel, then receives from it or gives up     *)
(* after LongPollTimeout.                                                  *)
WaitForMessage(c) ==
  /\ cons[c].pc = "wait"
  /\ LET q == cons[c].q
     IN  \/ /\ chan[q] = "none"
            /\ chan' = [chan EXCEPT ![q] = "empty"]
            /\ UNCHANGED cons
         \/ /\ chan[q] # "none"
            /\ chan' = [chan EXCEPT ![q] = "empty"]
            /\ cons' = Move(c, "select2")
  /\ UNCHANGED <<exists, gen, msg, send, total, limit, clock>>

(* Seeded fault: a message whose consumer went away is dropped. *)
LapseDrops(m) ==
  /\ msg[m].status = "claimed"
  /\ msg' = [msg EXCEPT ![m].status = "acked"]
  /\ UNCHANGED <<exists, gen, send, cons, total, limit, clock, chan>>

(* visibility_until has passed. *)
Lapse(m) ==
  /\ msg[m].status = "claimed"
  /\ msg' = [msg EXCEPT ![m].status = "visible"]
  /\ cons' = [c \in Consumers |->
                IF cons[c].pc \in Holding /\ cons[c].m = m
                  THEN [cons[c] EXCEPT !.lapsed = TRUE] ELSE cons[c]]
  /\ UNCHANGED <<exists, gen, send, total, limit, clock, chan>>

-----------------------------------------------------------------------------
(* Ack, by a consumer that was given the message *)

SendAck(c) ==
  /\ cons[c].pc = "has"
  /\ cons' = Move(c, "ack_size")
  /\ UNCHANGED <<exists, gen, msg, send, total, limit, clock, chan>>

(* The client dies, or never acknowledges. *)
Forget(c) ==
  /\ cons[c].pc = "has"
  /\ cons' = Reply(c)
  /\ UNCHANGED <<exists, gen, msg, send, total, limit, clock, chan>>

(* openQueue and GetMessageBodySize: nothing to do when the row is gone *)
GetMessageBodySize(c) ==
  /\ cons[c].pc = "ack_size"
  /\ LET q == cons[c].q
     IN  cons' = IF exists[q] /\ RowIn(cons[c].m, q, gen[q])
                   THEN [cons EXCEPT ![c].pc = "ack_delete", ![c].h = gen[q]]
                   ELSE Reply(c)
  /\ UNCHANGED <<exists, gen, msg, send, total, limit, clock, chan>>

(* DeleteMessage; no row may be left to delete *)
DeleteMessage(c) ==
  /\ cons[c].pc = "ack_delete"
  /\ LET q == cons[c].q
         m == cons[c].m
         h == cons[c].h
     IN  IF RowIn(m, q, h)
           THEN /\ msg' = [msg EXCEPT ![m].status = "acked"]
                /\ cons' = Commit(Move(c, "ack_quota"), q, h)
           ELSE /\ cons' = Move(c, "ack_quota")
                /\ UNCHANGED msg
  /\ UNCHANGED <<exists, gen, send, total, limit, clock, chan>>

(* Seeded fault: no clamp at zero. *)
SubtractBytesUnclamped(c) ==
  /\ cons[c].pc = "ack_quota"
  /\ total' = total - Size[cons[c].m]
  /\ cons' = Reply(c)
  /\ UNCHANGED <<exists, gen, msg, send, limit, clock, chan>>

(* total_bytes = MAX(0, total_bytes - size): an error is logged *)
SubtractBytes(c) ==
  /\ cons[c].pc = "ack_quota"
  /\ LET n == Size[cons[c].m]
     IN  \/ total' = IF total < n THEN 0 ELSE total - n
         \/ MayFail /\ total' = total
  /\ cons' = Reply(c)
  /\ UNCHANGED <<exists, gen, msg, send, limit, clock, chan>>

(* 500 to the consumer, which still has the message.  The row may already  *)
(* be gone: openQuota comes after DeleteMessage.                           *)
AckFails(c) ==
  /\ MayFail
  /\ cons[c].pc \in Acking
  /\ cons' = Move(c, "has")
  /\ UNCHANGED <<exists, gen, msg, send, total, limit, clock, chan>>

ConsumerStep(c) ==
  \/ SelectNext(c) \/ SetVisibility(c) \/ DequeueFails(c) \/ WaitForMessage(c)
  \/ GetMessageBodySize(c) \/ DeleteMessage(c) \/ SubtractBytes(c)
  \/ AckFails(c)

-----------------------------------------------------------------------------
(* Specification *)

(* The service dies and restarts: requests and channels are gone.  A       *)
(* consumer keeps the message that it was given.                           *)
Crash ==
  /\ MayCrash
  /\ send' = [s \in Senders |->
                IF send[s].pc \in {"open", "commit", "add", "signal"}
                  THEN [send[s] EXCEPT !.pc = "lost"] ELSE send[s]]
  /\ cons' = [c \in Consumers |->
                IF cons[c].pc \in Dequeuing THEN IdleConsumer
                ELSE IF cons[c].pc \in Acking THEN [cons[c] EXCEPT !.pc = "has"]
                ELSE cons[c]]
  /\ chan' = [q \in Queues |-> "none"]
  /\ UNCHANGED <<exists, gen, msg, total, limit, clock>>

Next ==
  \/ \E q \in Queues : CreateQueue(q) \/ DeleteQueue(q)
  \/ \E l \in Limits : SetQuota(l)
  \/ \E s \in Senders : EnqueueStep(s) \/ \E q \in Queues : CheckQuota(s, q)
  \/ \E c \in Consumers :
       ConsumerStep(c) \/ SendAck(c) \/ Forget(c) \/ \E q \in Queues : GetNext(c, q)
  \/ \E m \in Senders : Lapse(m)
  \/ Crash

Spec == Init /\ [][Next]_vars

(* Requests that can run do run, and the long poll's timer fires; clients  *)
(* may stop at any time and time need not pass otherwise.                  *)
FairSpec ==
  /\ Spec
  /\ \A s \in Senders : WF_vars(EnqueueStep(s))
  /\ \A c \in Consumers : WF_vars(ConsumerStep(c))

-----------------------------------------------------------------------------
(* Properties *)

(* local.go, Dequeue: two dequeues that select the same row never both     *)
(* hand it out.  While one consumer's visibility timeout runs, no other    *)
(* consumer was given the message - though the transaction starts with a   *)
(* read, takes no lock until its write, and the queue may be deleted and   *)
(* created again in between.                                               *)
OneHolder ==
  \A c, d \in Consumers :
    /\ cons[c].pc \in Holding /\ ~cons[c].lapsed
    /\ cons[d].pc \in Holding /\ ~cons[d].lapsed
    /\ cons[c].m = cons[d].m
    => c = d

(* svc_queue.go: every request gets its answer.  A long poll ends although *)
(* signalQueue drops signals (no channel yet, or a full one), and an       *)
(* enqueue never waits for a consumer.                                     *)
RequestsEnd ==
  /\ \A c \in Consumers :
       (cons[c].pc \in Dequeuing \cup Acking)
         ~> (cons[c].pc \notin Dequeuing \cup Acking)
  /\ \A s \in Senders :
       (send[s].pc \in {"open", "commit", "add", "signal"})
         ~> (send[s].pc \in {"accepted", "failed", "lost"})

(* The state of QueueContract. *)
ContractStatus ==
  [m \in Senders |-> IF msg[m].status \in Stored THEN "queued" ELSE msg[m].status]
ContractLeased == {m \in Senders : msg[m].status = "claimed"}
ContractHeld ==
  [m \in Senders |-> {c \in Consumers : cons[c].pc \in Holding /\ cons[c].m = m}]

Contract == INSTANCE QueueContract
  WITH Messages <- Senders, status <- ContractStatus, leased <- ContractLeased,
       held <- ContractHeld

(* queue.go, the Queue interface: a message stays until a consumer that    *)
(* received it acknowledges it or its queue is deleted, is not given out   *)
(* twice within a visibility timeout, and is never delivered after it was  *)
(* acknowledged - with crashes, failed writes, late acknowledgements of a  *)
(* lapsed claim and a queue deleted under a running request.               *)
KeepsContract == Contract!Spec
=============================================================================
