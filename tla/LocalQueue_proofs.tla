-------------------------- MODULE LocalQueue_proofs --------------------------
(***************************************************************************)
(* Proofs about the queue service, for any queues, messages, consumers,    *)
(* sizes, limits and deletions, with failed writes and crashes.            *)
(*                                                                         *)
(* OneHolder is not inductive: it says nothing of the dequeues that have   *)
(* selected a row and not claimed it yet.  Fresh relates such a dequeue to *)
(* the row it has read, as long as its snapshot is not old, and NoRace     *)
(* says that nobody holds that message meanwhile.                          *)
(***************************************************************************)
EXTENDS LocalQueue, TLAPS

(* A request has its queue, and a claim or a delivery its message. *)
Requests ==
  /\ \A s \in Senders : send[s].pc # "idle" => send[s].q \in Queues
  /\ \A c \in Consumers :
       /\ cons[c].pc # "idle" => cons[c].q \in Queues
       /\ cons[c].pc \in Holding \cup {"claim"} => cons[c].m \in Senders

(* The rows: none before the insert, and a stored one is in the live file. *)
Rows ==
  \A s \in Senders :
    /\ send[s].pc \in {"idle", "open", "commit"} => msg[s].status = "new"
    /\ msg[s].status \in Stored => /\ msg[s].q \in Queues
                                   /\ msg[s].gen = gen[msg[s].q]

Claiming(c) == cons[c].pc = "claim" /\ ~cons[c].stale
Leasing(c) == cons[c].pc \in Holding /\ ~cons[c].lapsed

(* What a transaction whose snapshot is not old knows of its row. *)
Fresh ==
  \A c \in Consumers : Claiming(c) =>
    /\ msg[cons[c].m].q = cons[c].q
    /\ msg[cons[c].m].gen = cons[c].h
    /\ msg[cons[c].m].status \in {"visible", "purged"}

(* The row of a message whose visibility timeout runs for a consumer. *)
Leases ==
  \A c \in Consumers : Leasing(c) =>
    msg[cons[c].m].status \in {"claimed", "purged", "acked"}

NoRace ==
  \A c, d \in Consumers : Claiming(c) /\ Leasing(d) => cons[c].m # cons[d].m

Inv == TypeOK /\ Requests /\ Rows /\ Fresh /\ Leases /\ NoRace /\ OneHolder

USE QueueConstants

(* The initial state satisfies the invariant. *)
LEMMA InitInv == Init => Inv
BY DEF Init, Inv, TypeOK, Requests, Rows, Fresh, Leases, NoRace, OneHolder,
       Claiming, Leasing, Consumer, IdleConsumer, Holding, Acking, Dequeuing,
       MsgStatus, SendPc, Stored

-----------------------------------------------------------------------------
(* Types *)

(* A consumer without a request is well typed. *)
LEMMA IdleType == IdleConsumer \in Consumer
BY DEF IdleConsumer, Consumer

(* A commit makes the snapshots on its file old, and changes nothing else. *)
LEMMA CommitEffect ==
  ASSUME NEW f \in [Consumers -> Consumer], NEW q, NEW h
  PROVE  /\ Commit(f, q, h) \in [Consumers -> Consumer]
         /\ \A c \in Consumers :
              /\ Commit(f, q, h)[c].pc = f[c].pc
              /\ Commit(f, q, h)[c].q = f[c].q
              /\ Commit(f, q, h)[c].h = f[c].h
              /\ Commit(f, q, h)[c].m = f[c].m
              /\ Commit(f, q, h)[c].lapsed = f[c].lapsed
              /\ Commit(f, q, h)[c].stale <=>
                   f[c].stale \/ (f[c].pc = "claim" /\ f[c].q = q /\ f[c].h = h)
<1> SUFFICES ASSUME NEW c \in Consumers
             PROVE  /\ Commit(f, q, h)[c] \in Consumer
                    /\ Commit(f, q, h)[c].pc = f[c].pc
                    /\ Commit(f, q, h)[c].q = f[c].q
                    /\ Commit(f, q, h)[c].h = f[c].h
                    /\ Commit(f, q, h)[c].m = f[c].m
                    /\ Commit(f, q, h)[c].lapsed = f[c].lapsed
                    /\ Commit(f, q, h)[c].stale <=>
                         f[c].stale \/ (f[c].pc = "claim" /\ f[c].q = q /\ f[c].h = h)
  BY DEF Commit
<1> DEFINE old == f[c].pc = "claim" /\ f[c].q = q /\ f[c].h = h
<1>1. f[c] \in Consumer
  OBVIOUS
<1>2. Commit(f, q, h)[c] = IF old THEN [f[c] EXCEPT !.stale = TRUE] ELSE f[c]
  BY DEF Commit
<1>3. [f[c] EXCEPT !.stale = TRUE] \in Consumer
  BY <1>1 DEF Consumer
<1>4. CASE old
  BY <1>1, <1>2, <1>3, <1>4 DEF Consumer
<1>5. CASE ~old
  BY <1>1, <1>2, <1>5 DEF Consumer
<1>. QED BY <1>4, <1>5

(* The records of TypeOK. *)
Sender == [pc : SendPc, q : Queues \cup {None}, h : 0 .. MaxGen]
Message == [status : MsgStatus, q : Queues \cup {None}, gen : 0 .. MaxGen, at : Nat]

(* A step of an enqueue changes its own request, which then has a queue. *)
LEMMA SendEffect ==
  ASSUME Inv, NEW s \in Senders,
         EnqueueStep(s) \/ \E q \in Queues : CheckQuota(s, q)
  PROVE  /\ send' \in [Senders -> Sender]
         /\ \A r \in Senders \ {s} : send'[r] = send[r]
         /\ send'[s].pc # "idle"
         /\ send'[s].q \in Queues
<1>0. send \in [Senders -> Sender] /\ gen \in [Queues -> 0 .. MaxGen]
  BY DEF Inv, TypeOK, Sender
<1>00. send[s].pc # "idle" => send[s].q \in Queues
  BY DEF Inv, Requests
<1>1. CASE \E q \in Queues : CheckQuota(s, q)
  <2>1. PICK q \in Queues : CheckQuota(s, q)
    BY <1>1
  <2>2. PICK pc \in {"rejected", "open"} :
               send' = [send EXCEPT ![s].q = q, ![s].pc = pc]
    BY <2>1 DEF CheckQuota
  <2> DEFINE v == [send[s] EXCEPT !.q = q, !.pc = pc]
  <2>3. v \in Sender /\ v.pc = pc /\ v.q = q
    BY <1>0 DEF Sender, SendPc
  <2>4. send' = [send EXCEPT ![s] = v]
    BY <2>2
  <2> HIDE DEF v
  <2>. QED BY <1>0, <2>3, <2>4
<1>2. CASE OpenQueue(s)
  <2>1. send[s].pc = "open" /\ send[s].q \in Queues /\ gen[send[s].q] \in 0 .. MaxGen
    BY <1>0, <1>00, <1>2 DEF OpenQueue
  <2> DEFINE v == [send[s] EXCEPT !.pc = "commit", !.h = gen[send[s].q]]
  <2>2. v \in Sender /\ v.pc = "commit" /\ v.q = send[s].q
    BY <1>0, <2>1 DEF Sender, SendPc
  <2>3. send' = [send EXCEPT ![s] = v]
    BY <1>2 DEF OpenQueue
  <2> HIDE DEF v
  <2>. QED BY <1>0, <2>1, <2>2, <2>3
<1>3. ASSUME NEW pc \in SendPc \ {"idle"}, SendTo(s, pc), send[s].pc # "idle"
      PROVE  /\ send' \in [Senders -> Sender]
             /\ \A r \in Senders \ {s} : send'[r] = send[r]
             /\ send'[s].pc # "idle"
             /\ send'[s].q \in Queues
  BY <1>0, <1>00, <1>3 DEF SendTo, Sender, SendPc
<1>4. CASE InsertMessage(s)
  BY <1>3, <1>4 DEF InsertMessage, SendPc
<1>5. CASE EnqueueFails(s)
  BY <1>3, <1>5 DEF EnqueueFails, SendPc
<1>6. CASE AddBytes(s)
  BY <1>3, <1>6 DEF AddBytes, SendPc
<1>7. CASE SignalQueue(s)
  BY <1>3, <1>7 DEF SignalQueue, SendPc
<1>. QED
  BY <1>1, <1>2, <1>4, <1>5, <1>6, <1>7 DEF EnqueueStep

-----------------------------------------------------------------------------
(* The invariant without the types of what the actions below leave alone *)

Core == Requests /\ Rows /\ Fresh /\ Leases /\ NoRace /\ OneHolder

(* A step of an enqueue that writes no row. *)
LEMMA SenderOnly ==
  ASSUME Inv, NEW s \in Senders, gen' = gen, cons' = cons,
         EnqueueStep(s) \/ \E q \in Queues : CheckQuota(s, q),
         \A r \in Senders : /\ msg'[r].status = msg[r].status
                            /\ msg'[r].q = msg[r].q
                            /\ msg'[r].gen = msg[r].gen,
         send'[s].pc \in {"open", "commit"} => send[s].pc \in {"idle", "open"}
  PROVE  Core'
<1> USE DEF Inv
<1>1. Requests'
  BY SendEffect DEF Requests
<1>2. Rows'
  BY SendEffect DEF Rows
<1>3. Fresh' /\ Leases'
  BY DEF Fresh, Leases, Claiming, Leasing, Requests
<1>4. NoRace' /\ OneHolder'
  BY DEF NoRace, OneHolder, Claiming, Leasing
<1>. QED BY <1>1, <1>2, <1>3, <1>4 DEF Core

(* A step of one consumer that writes no row, and neither claims a message *)
(* that was not visible nor obtains one.                                   *)
LEMMA ConsumerOnly ==
  ASSUME Inv, NEW c \in Consumers, UNCHANGED <<gen, msg, send>>,
         cons' \in [Consumers -> Consumer],
         \A d \in Consumers \ {c} : cons'[d] = cons[d],
         cons'[c].pc # "idle" => cons'[c].q \in Queues,
         cons'[c].pc \in Holding \cup {"claim"} => cons'[c].m \in Senders,
         Claiming(c)' => /\ cons'[c].m \in Visible(cons'[c].q)
                         /\ cons'[c].h = gen[cons'[c].q],
         Leasing(c)' => Leasing(c) /\ cons'[c].m = cons[c].m
  PROVE  Core'
<1> USE DEF Inv
<1>1. Requests' /\ Rows'
  BY DEF Requests, Rows
<1>2. Fresh'
  BY DEF Fresh, Claiming, Visible, Rows, Stored
<1>3. Leases'
  BY DEF Leases, Leasing
<1>4. NoRace'
  <2> SUFFICES ASSUME NEW d \in Consumers, NEW e \in Consumers,
                      Claiming(d)', Leasing(e)', cons'[d].m = cons'[e].m
               PROVE  FALSE
    BY DEF NoRace
  <2>1. Leasing(e) /\ cons'[e].m = cons[e].m
    BY DEF Leasing
  <2>2. CASE d = c
    <3>1. msg[cons[e].m].status = "visible"
      BY <2>1, <2>2 DEF Visible
    <3>. QED BY <2>1, <3>1 DEF Leases
  <2>3. CASE d # c
    BY <2>1, <2>3 DEF NoRace, Claiming
  <2>. QED BY <2>2, <2>3
<1>5. OneHolder'
  BY DEF OneHolder, Leasing
<1>. QED BY <1>1, <1>2, <1>3, <1>4, <1>5 DEF Core

-----------------------------------------------------------------------------
(* One lemma per group of actions *)

(* The quota check, a failure, AddBytes and the signal write no row. *)
LEMMA EnqueueInv ==
  ASSUME Inv, NEW s \in Senders,
         \/ \E q \in Queues : CheckQuota(s, q)
         \/ EnqueueFails(s) \/ AddBytes(s) \/ SignalQueue(s)
  PROVE  Inv'
<1>0. send \in [Senders -> Sender]
  BY DEF Inv, TypeOK, Sender
<1>1. UNCHANGED <<gen, msg, cons, exists, clock>>
  BY DEF CheckQuota, EnqueueFails, AddBytes, SignalQueue
<1>2. EnqueueStep(s) \/ \E q \in Queues : CheckQuota(s, q)
  BY DEF EnqueueStep
<1>3. send'[s].pc \in {"open", "commit"} => send[s].pc \in {"idle", "open"}
  <2>1. CASE \E q \in Queues : CheckQuota(s, q)
    BY <2>1 DEF CheckQuota
  <2>2. CASE EnqueueFails(s) \/ AddBytes(s) \/ SignalQueue(s)
    BY <1>0, <2>2 DEF EnqueueFails, AddBytes, SignalQueue, SendTo, Sender
  <2>. QED BY <2>1, <2>2
<1>4. total' \in Nat /\ limit' = limit
  <2>1. CASE AddBytes(s)
    <3>1. Size[s] \in Nat /\ total \in Nat
      BY DEF Inv, TypeOK
    <3>2. total' = total + Size[s] \/ total' = total
      BY <2>1 DEF AddBytes
    <3>. QED BY <2>1, <3>1, <3>2 DEF AddBytes
  <2>2. CASE ~AddBytes(s)
    BY <2>2 DEF CheckQuota, EnqueueFails, SignalQueue, Inv, TypeOK
  <2>. QED BY <2>1, <2>2
<1>5. chan' \in [Queues -> {"none", "empty", "full"}]
  BY DEF CheckQuota, EnqueueFails, AddBytes, SignalQueue, Inv, TypeOK, Requests
<1>6. TypeOK'
  BY <1>1, <1>2, <1>4, <1>5, SendEffect DEF Inv, TypeOK, Sender
<1>7. Core'
  BY <1>1, <1>2, <1>3, SenderOnly
<1>. QED BY <1>6, <1>7 DEF Inv, Core

(* Opening the file, which may create the queue again, writes no row. *)
LEMMA OpenQueueInv ==
  ASSUME Inv, NEW s \in Senders, OpenQueue(s)
  PROVE  Inv'
<1>0. /\ send \in [Senders -> Sender] /\ msg \in [Senders -> Message]
      /\ send[s].pc = "open" /\ send[s].q \in Queues
  BY DEF Inv, TypeOK, Sender, Message, OpenQueue, Requests
<1>1. PICK now \in {clock, clock + 1} :
             clock' = now /\ msg' = [msg EXCEPT ![s].at = now]
  BY DEF OpenQueue
<1>2. now \in Nat
  BY DEF Inv, TypeOK
<1>3. msg' \in [Senders -> Message]
  BY <1>0, <1>1, <1>2 DEF Message
<1>4. \A r \in Senders : /\ msg'[r].status = msg[r].status
                         /\ msg'[r].q = msg[r].q
                         /\ msg'[r].gen = msg[r].gen
  BY <1>0, <1>1 DEF Message
<1>5. EnqueueStep(s)
  BY DEF EnqueueStep
<1>6. exists' \in [Queues -> BOOLEAN]
  BY <1>0 DEF OpenQueue, Inv, TypeOK
<1>7. TypeOK'
  BY <1>1, <1>2, <1>3, <1>5, <1>6, SendEffect
  DEF OpenQueue, Inv, TypeOK, Sender, Message
<1>8. Core'
  BY <1>0, <1>4, <1>5, SenderOnly DEF OpenQueue
<1>. QED BY <1>7, <1>8 DEF Inv, Core

(* The insert makes a row that nobody has read, in the live or a dead file. *)
LEMMA InsertMessageInv ==
  ASSUME Inv, NEW s \in Senders, InsertMessage(s)
  PROVE  Inv'
<1> DEFINE q == send[s].q
           h == send[s].h
<1>0. /\ send \in [Senders -> Sender] /\ msg \in [Senders -> Message]
      /\ gen \in [Queues -> 0 .. MaxGen] /\ cons \in [Consumers -> Consumer]
      /\ send[s].pc = "commit" /\ q \in Queues /\ h \in 0 .. MaxGen
      /\ msg[s].status = "new"
  BY DEF Inv, TypeOK, Sender, Message, InsertMessage, Requests, Rows
<1>1. PICK st \in {"visible", "purged"} :
             /\ st = "visible" => h = gen[q]
             /\ msg' = [msg EXCEPT ![s].q = q, ![s].gen = h, ![s].status = st]
  BY DEF InsertMessage
<1>2. /\ msg' \in [Senders -> Message]
      /\ \A r \in Senders \ {s} : msg'[r] = msg[r]
      /\ msg'[s].status = st /\ msg'[s].q = q /\ msg'[s].gen = h
  BY <1>0, <1>1 DEF Message, MsgStatus, Stored
<1>3. cons' = Commit(cons, q, h) /\ gen' = gen
  BY DEF InsertMessage
<1>4. EnqueueStep(s)
  BY DEF EnqueueStep
<1>5. send'[s].pc = "add"
  BY <1>0 DEF InsertMessage, SendTo, Sender
<1>6. TypeOK'
  <2>1. send' \in [Senders -> Sender]
    BY <1>4, SendEffect
  <2>2. cons' \in [Consumers -> Consumer]
    BY <1>0, <1>3, CommitEffect
  <2>. QED BY <1>2, <2>1, <2>2 DEF InsertMessage, Inv, TypeOK, Sender, Message
<1>7. \A c \in Consumers : /\ cons'[c].pc = cons[c].pc
                           /\ cons'[c].q = cons[c].q /\ cons'[c].h = cons[c].h
                           /\ cons'[c].m = cons[c].m
                           /\ Claiming(c)' => Claiming(c)
                           /\ Leasing(c)' <=> Leasing(c)
  BY <1>0, <1>3, CommitEffect DEF Claiming, Leasing
<1>8. Requests'
  BY <1>4, <1>7, SendEffect DEF Requests, Inv
<1>9. Rows'
  BY <1>0, <1>1, <1>2, <1>3, <1>4, <1>5, SendEffect DEF Rows, Inv, Stored
<1>10. \A c \in Consumers : Claiming(c) \/ Leasing(c) =>
                              cons[c].m \in Senders \ {s}
  BY <1>0 DEF Inv, Fresh, Leases, Requests, Claiming, Leasing
<1>11. Fresh' /\ Leases'
  BY <1>2, <1>7, <1>10 DEF Fresh, Leases, Inv
<1>12. NoRace'
  BY <1>7 DEF NoRace, Inv
<1>13. OneHolder'
  BY <1>7 DEF OneHolder, Inv, Leasing
<1>. QED BY <1>6, <1>8, <1>9, <1>11, <1>12, <1>13 DEF Inv

(* The steps of a consumer that write no row. *)
QuietStep(c) ==
  \/ \E q \in Queues : GetNext(c, q)
  \/ SelectNext(c) \/ DequeueFails(c) \/ WaitForMessage(c)
  \/ SendAck(c) \/ Forget(c) \/ GetMessageBodySize(c) \/ SubtractBytes(c)
  \/ AckFails(c)

(* What Move and Reply make of a consumer. *)
LEMMA MoveEffect ==
  ASSUME cons \in [Consumers -> Consumer], NEW c \in Consumers,
         NEW pc \in {"idle"} \cup Dequeuing \cup Holding
  PROVE  /\ Move(c, pc) \in [Consumers -> Consumer]
         /\ \A d \in Consumers \ {c} : Move(c, pc)[d] = cons[d]
         /\ Move(c, pc)[c].pc = pc
         /\ Move(c, pc)[c].q = cons[c].q /\ Move(c, pc)[c].h = cons[c].h
         /\ Move(c, pc)[c].m = cons[c].m
         /\ Move(c, pc)[c].stale = cons[c].stale
         /\ Move(c, pc)[c].lapsed = cons[c].lapsed
BY DEF Move, Consumer

(* A reply makes the consumer idle and changes no other. *)
LEMMA ReplyEffect ==
  ASSUME cons \in [Consumers -> Consumer], NEW c \in Consumers
  PROVE  /\ Reply(c) \in [Consumers -> Consumer]
         /\ \A d \in Consumers \ {c} : Reply(c)[d] = cons[d]
         /\ Reply(c)[c].pc = "idle"
BY IdleType DEF Reply, IdleConsumer

(* A quiet step ends the consumer's request, moves it on with the message  *)
(* it had, or selects a visible message.                                   *)
LEMMA QuietEffect ==
  ASSUME Inv, NEW c \in Consumers, QuietStep(c)
  PROVE  /\ UNCHANGED <<exists, gen, msg, send, limit, clock>>
         /\ cons' \in [Consumers -> Consumer]
         /\ \A d \in Consumers \ {c} : cons'[d] = cons[d]
         /\ \/ cons'[c].pc = "idle"
            \/ /\ cons'[c].pc \in {"select", "select2", "wait"}
               /\ cons'[c].q \in Queues
               /\ cons[c].pc \notin Holding
            \/ /\ cons'[c].pc = "claim" /\ cons'[c].q \in Queues
               /\ cons'[c].m \in Visible(cons'[c].q)
               /\ cons'[c].h = gen[cons'[c].q]
               /\ cons[c].pc \notin Holding
            \/ /\ cons'[c].pc \in Holding /\ cons[c].pc \in Holding
               /\ cons'[c].q = cons[c].q /\ cons'[c].m = cons[c].m
               /\ cons'[c].lapsed = cons[c].lapsed
<1>0. /\ cons \in [Consumers -> Consumer] /\ gen \in [Queues -> 0 .. MaxGen]
      /\ cons[c] \in Consumer
      /\ cons[c].pc # "idle" => cons[c].q \in Queues
  BY DEF Inv, TypeOK, Requests
<1> USE DEF Holding, Acking, Dequeuing
<1>1. CASE \E q \in Queues : GetNext(c, q)
  <2>1. PICK q \in Queues : GetNext(c, q)
    BY <1>1
  <2>2. cons' = [cons EXCEPT ![c].pc = "select", ![c].q = q]
    BY <2>1 DEF GetNext
  <2>3. /\ cons' \in [Consumers -> Consumer]
        /\ \A d \in Consumers \ {c} : cons'[d] = cons[d]
        /\ cons'[c].pc = "select" /\ cons'[c].q = q
    BY <1>0, <2>2 DEF Consumer
  <2>. QED BY <2>1, <2>3 DEF GetNext
<1>2. CASE SelectNext(c)
  <2>1. CASE cons' = Reply(c)
    BY <1>0, <1>2, <2>1, ReplyEffect DEF SelectNext
  <2>2. CASE cons' = Move(c, "wait")
    <3>1. /\ UNCHANGED <<exists, gen, msg, send, limit, clock>>
          /\ cons[c].q \in Queues /\ cons[c].pc \notin Holding
      BY <1>0, <1>2 DEF SelectNext
    <3>2. "wait" \in {"idle"} \cup Dequeuing \cup Holding
      OBVIOUS
    <3>. QED BY <1>0, <2>2, <3>1, <3>2, MoveEffect
  <2>3. ASSUME NEW m \in Visible(cons[c].q),
               cons' = [cons EXCEPT ![c].pc = "claim", ![c].m = m,
                                    ![c].h = gen[cons[c].q], ![c].stale = FALSE]
        PROVE  /\ cons' \in [Consumers -> Consumer]
               /\ \A d \in Consumers \ {c} : cons'[d] = cons[d]
               /\ cons'[c].pc = "claim" /\ cons'[c].q = cons[c].q
               /\ cons'[c].m = m /\ cons'[c].h = gen[cons[c].q]
    <3>1. m \in Senders /\ gen[cons[c].q] \in 0 .. MaxGen
      BY <1>0, <1>2 DEF Visible, SelectNext
    <3>. QED BY <1>0, <2>3, <3>1 DEF Consumer
  <2>4. \/ cons' = Reply(c) \/ cons' = Move(c, "wait")
        \/ \E m \in Visible(cons[c].q) :
             cons' = [cons EXCEPT ![c].pc = "claim", ![c].m = m,
                                  ![c].h = gen[cons[c].q], ![c].stale = FALSE]
    BY <1>2 DEF SelectNext, Oldest
  <2>5. /\ UNCHANGED <<exists, gen, msg, send, limit, clock>>
        /\ cons[c].q \in Queues /\ cons[c].pc \notin Holding
    BY <1>0, <1>2 DEF SelectNext
  <2>. QED BY <2>1, <2>2, <2>3, <2>4, <2>5
<1>3. CASE DequeueFails(c) \/ Forget(c) \/ SubtractBytes(c)
  BY <1>0, <1>3, ReplyEffect DEF DequeueFails, Forget, SubtractBytes
<1>4. CASE WaitForMessage(c)
  <2>1. /\ cons' = cons \/ cons' = Move(c, "select2")
        /\ UNCHANGED <<exists, gen, msg, send, limit, clock>>
        /\ cons[c].pc = "wait"
    BY <1>4 DEF WaitForMessage
  <2>. QED BY <1>0, <2>1, MoveEffect
<1>5. CASE SendAck(c) \/ AckFails(c)
  BY <1>0, <1>5, MoveEffect DEF SendAck, AckFails
<1>6. CASE GetMessageBodySize(c)
  <2>1. CASE cons' = Reply(c)
    BY <1>0, <1>6, <2>1, ReplyEffect DEF GetMessageBodySize
  <2>2. CASE cons' = [cons EXCEPT ![c].pc = "ack_delete", ![c].h = gen[cons[c].q]]
    <3>1. gen[cons[c].q] \in 0 .. MaxGen /\ cons[c].pc = "ack_size"
      BY <1>0, <1>6 DEF GetMessageBodySize
    <3>2. /\ cons' \in [Consumers -> Consumer]
          /\ \A d \in Consumers \ {c} : cons'[d] = cons[d]
          /\ cons'[c].pc = "ack_delete" /\ cons'[c].q = cons[c].q
          /\ cons'[c].m = cons[c].m /\ cons'[c].lapsed = cons[c].lapsed
      BY <1>0, <2>2, <3>1 DEF Consumer
    <3>. QED BY <1>6, <3>1, <3>2 DEF GetMessageBodySize
  <2>. QED BY <1>6, <2>1, <2>2 DEF GetMessageBodySize
<1>. QED BY <1>1, <1>2, <1>3, <1>4, <1>5, <1>6 DEF QuietStep

(* A quiet step preserves the invariant. *)
LEMMA QuietInv ==
  ASSUME Inv, NEW c \in Consumers, QuietStep(c)
  PROVE  Inv'
<1>0. "idle" \notin Holding /\ "claim" \notin Holding /\ "select" \notin Holding
      /\ "select2" \notin Holding /\ "wait" \notin Holding
  BY DEF Holding, Acking
<1>1. total' \in Nat /\ chan' \in [Queues -> {"none", "empty", "full"}]
  <2>0. /\ total \in Nat /\ chan \in [Queues -> {"none", "empty", "full"}]
        /\ cons[c].pc \in Holding => Size[cons[c].m] \in Nat
        /\ cons[c].pc # "idle" => cons[c].q \in Queues
    BY DEF Inv, TypeOK, Requests
  <2>1. CASE SubtractBytes(c)
    <3>1. \/ total' = IF total < Size[cons[c].m] THEN 0
                      ELSE total - Size[cons[c].m]
          \/ total' = total
      BY <2>1 DEF SubtractBytes
    <3>. QED BY <2>0, <2>1, <3>1 DEF SubtractBytes, Holding, Acking
  <2>2. CASE WaitForMessage(c)
    BY <2>0, <2>2 DEF WaitForMessage
  <2>3. CASE ~SubtractBytes(c) /\ ~WaitForMessage(c)
    BY <2>0, <2>3 DEF QuietStep, GetNext, SelectNext, DequeueFails, SendAck, Forget,
                GetMessageBodySize, AckFails
  <2>. QED BY <2>1, <2>2, <2>3
<1>2. TypeOK'
  BY <1>1, QuietEffect DEF Inv, TypeOK
<1>3. /\ cons[c].pc # "idle" => cons[c].q \in Queues
      /\ cons[c].pc \in Holding => cons[c].m \in Senders
  BY DEF Inv, Requests
<1>4. /\ cons'[c].pc # "idle" => cons'[c].q \in Queues
      /\ cons'[c].pc \in Holding \cup {"claim"} => cons'[c].m \in Senders
      /\ Claiming(c)' => /\ cons'[c].m \in Visible(cons'[c].q)
                         /\ cons'[c].h = gen[cons'[c].q]
      /\ Leasing(c)' => Leasing(c) /\ cons'[c].m = cons[c].m
  BY <1>0, <1>3, QuietEffect DEF Claiming, Leasing, Visible
<1>5. Core'
  BY <1>4, QuietEffect, ConsumerOnly
<1>. QED BY <1>2, <1>5 DEF Inv, Core

(* The consumer that SetVisibility makes. *)
Given(q, m) == [IdleConsumer EXCEPT !.pc = "has", !.q = q, !.m = m]

(* A consumer that has been given a message is well typed. *)
LEMMA GivenType ==
  ASSUME NEW q \in Queues, NEW m \in Senders
  PROVE  /\ Given(q, m) \in Consumer /\ Given(q, m).pc = "has"
         /\ Given(q, m).q = q /\ Given(q, m).m = m
<1> DEFINE n1 == [IdleConsumer EXCEPT !.pc = "has"]
           n2 == [n1 EXCEPT !.q = q]
           n3 == [n2 EXCEPT !.m = m]
<1>1. n1 \in Consumer /\ n1.pc = "has"
  BY IdleType DEF Consumer, Holding
<1>2. n2 \in Consumer /\ n2.pc = "has" /\ n2.q = q
  BY <1>1 DEF Consumer
<1>3. n3 \in Consumer /\ n3.pc = "has" /\ n3.q = q /\ n3.m = m
  BY <1>2 DEF Consumer
<1>4. Given(q, m) = n3
  BY DEF Given
<1>. QED BY <1>3, <1>4

(* SetVisibility makes the other dequeues of the same row stale. *)
LEMMA SetVisibilityEffect ==
  ASSUME Inv, NEW c \in Consumers, SetVisibility(c)
  PROVE  LET m == cons[c].m
         IN  /\ m \in Senders /\ cons[c].q \in Queues /\ Claiming(c)
             /\ msg' \in [Senders -> Message]
             /\ \A r \in Senders : /\ msg'[r].q = msg[r].q
                                    /\ msg'[r].gen = msg[r].gen
             /\ \A r \in Senders \ {m} : msg'[r] = msg[r]
             /\ msg'[m].status =
                  IF msg[m].status = "visible" THEN "claimed" ELSE "purged"
             /\ msg[m].status \in {"visible", "purged"}
             /\ cons' \in [Consumers -> Consumer]
             /\ cons'[c].pc = "has" /\ cons'[c].q = cons[c].q /\ cons'[c].m = m
             /\ \A d \in Consumers \ {c} :
                  /\ cons'[d].pc = cons[d].pc
                  /\ cons'[d].q = cons[d].q /\ cons'[d].h = cons[d].h
                  /\ cons'[d].m = cons[d].m
                  /\ Claiming(d)' => Claiming(d) /\ cons[d].m # m
                  /\ Leasing(d)' <=> Leasing(d)
<1> DEFINE m == cons[c].m
           f == Commit(cons, cons[c].q, cons[c].h)
           new == Given(cons[c].q, m)
<1>1. /\ cons \in [Consumers -> Consumer] /\ msg \in [Senders -> Message]
      /\ Claiming(c) /\ m \in Senders /\ cons[c].q \in Queues
      /\ msg[m].status \in {"visible", "purged"}
      /\ msg[m].q = cons[c].q /\ msg[m].gen = cons[c].h
  BY DEF Inv, TypeOK, Message, SetVisibility, Claiming, Requests, Fresh
<1>2. PICK st \in {"claimed", "purged"} :
             /\ st = IF msg[m].status = "visible" THEN "claimed" ELSE "purged"
             /\ msg' = [msg EXCEPT ![m].status = st]
  BY <1>1 DEF SetVisibility
<1>3. /\ msg' \in [Senders -> Message]
      /\ \A r \in Senders : msg'[r].q = msg[r].q /\ msg'[r].gen = msg[r].gen
      /\ \A r \in Senders \ {m} : msg'[r] = msg[r]
      /\ msg'[m].status = st
  BY <1>1, <1>2 DEF Message, MsgStatus, Stored
<1>4. f \in [Consumers -> Consumer]
  BY <1>1, CommitEffect
<1>5. /\ new \in Consumer /\ new.pc = "has" /\ new.q = cons[c].q /\ new.m = m
  BY <1>1, GivenType
<1>6. cons' = [f EXCEPT ![c] = new]
  BY DEF SetVisibility, Given
<1>7. /\ cons' \in [Consumers -> Consumer] /\ cons'[c] = new
      /\ \A d \in Consumers \ {c} : cons'[d] = f[d]
  BY <1>4, <1>5, <1>6
<1>8. ASSUME NEW d \in Consumers \ {c}
      PROVE  /\ cons'[d].pc = cons[d].pc
             /\ cons'[d].q = cons[d].q /\ cons'[d].h = cons[d].h
             /\ cons'[d].m = cons[d].m
             /\ Claiming(d)' => Claiming(d) /\ cons[d].m # m
             /\ Leasing(d)' <=> Leasing(d)
  <2>1. /\ cons'[d].pc = cons[d].pc
        /\ cons'[d].q = cons[d].q /\ cons'[d].h = cons[d].h
        /\ cons'[d].m = cons[d].m /\ cons'[d].lapsed = cons[d].lapsed
        /\ cons'[d].stale <=> \/ cons[d].stale
                              \/ /\ cons[d].pc = "claim" /\ cons[d].q = cons[c].q
                                 /\ cons[d].h = cons[c].h
    BY <1>1, <1>7, CommitEffect
  <2>2. Claiming(d) /\ cons[d].m = m => cons[d].q = cons[c].q /\ cons[d].h = cons[c].h
    BY <1>1 DEF Inv, Fresh
  <2>. QED BY <2>1, <2>2 DEF Claiming, Leasing
<1>. QED BY <1>1, <1>2, <1>3, <1>5, <1>7, <1>8

(* A claim preserves the invariant: the other claims of the row are stale. *)
LEMMA SetVisibilityInv ==
  ASSUME Inv, NEW c \in Consumers, SetVisibility(c)
  PROVE  Inv'
<1> DEFINE m == cons[c].m
<1>0. UNCHANGED <<exists, gen, send, total, limit, clock, chan>>
  BY DEF SetVisibility
<1>1. TypeOK'
  BY <1>0, SetVisibilityEffect DEF Inv, TypeOK, Message
<1>2. Requests'
  BY <1>0, SetVisibilityEffect DEF Inv, Requests
<1>3. Rows'
  <2> SUFFICES ASSUME NEW s \in Senders
               PROVE  /\ send[s].pc \in {"idle", "open", "commit"} =>
                           msg'[s].status = "new"
                      /\ msg'[s].status \in Stored =>
                           msg[s].q \in Queues /\ msg[s].gen = gen[msg[s].q]
    BY <1>0, SetVisibilityEffect DEF Rows
  <2>1. CASE s = m
    BY <2>1, SetVisibilityEffect DEF Inv, Rows, Stored
  <2>2. CASE s # m
    BY <2>2, SetVisibilityEffect DEF Inv, Rows
  <2>. QED BY <2>1, <2>2
<1>4. ~Claiming(c)'
  BY SetVisibilityEffect DEF Claiming
<1>5. Fresh'
  <2> SUFFICES ASSUME NEW d \in Consumers \ {c}, Claiming(d)'
               PROVE  /\ msg'[cons'[d].m].q = cons'[d].q
                      /\ msg'[cons'[d].m].gen = cons'[d].h
                      /\ msg'[cons'[d].m].status \in {"visible", "purged"}
    BY <1>4 DEF Fresh
  <2>1. Claiming(d) /\ cons[d].m # m /\ cons[d].m \in Senders
    BY SetVisibilityEffect DEF Inv, Requests, Claiming
  <2>. QED BY <2>1, SetVisibilityEffect DEF Inv, Fresh
<1>6. \A d \in Consumers \ {c} : Leasing(d)' => Leasing(d) /\ cons[d].m # m
  BY SetVisibilityEffect DEF Inv, NoRace
<1>7. Leases'
  <2> SUFFICES ASSUME NEW d \in Consumers, Leasing(d)'
               PROVE  msg'[cons'[d].m].status \in {"claimed", "purged", "acked"}
    BY DEF Leases
  <2>1. CASE d = c
    BY <2>1, SetVisibilityEffect
  <2>2. CASE d # c
    <3>1. Leasing(d) /\ cons[d].m # m /\ cons[d].m \in Senders /\ cons'[d].m = cons[d].m
      BY <1>6, <2>2, SetVisibilityEffect DEF Inv, Requests, Leasing
    <3>. QED BY <3>1, SetVisibilityEffect DEF Inv, Leases
  <2>. QED BY <2>1, <2>2
<1>8. NoRace'
  <2> SUFFICES ASSUME NEW d \in Consumers \ {c}, NEW e \in Consumers,
                      Claiming(d)', Leasing(e)'
               PROVE  cons'[d].m # cons'[e].m
    BY <1>4 DEF NoRace
  <2>1. Claiming(d) /\ cons[d].m # m /\ cons'[d].m = cons[d].m
    BY SetVisibilityEffect
  <2>2. CASE e = c
    BY <2>1, <2>2, SetVisibilityEffect
  <2>3. CASE e # c
    BY <2>1, <2>3, SetVisibilityEffect DEF Inv, NoRace
  <2>. QED BY <2>2, <2>3
<1>9. OneHolder'
  <2> SUFFICES ASSUME NEW d \in Consumers, NEW e \in Consumers,
                      Leasing(d)', Leasing(e)', cons'[d].m = cons'[e].m
               PROVE  d = e
    BY DEF OneHolder, Leasing
  <2>1. CASE d # c /\ e # c
    BY <1>6, <2>1, SetVisibilityEffect DEF Inv, OneHolder, Leasing
  <2>2. CASE d = c \/ e = c
    BY <1>6, <2>2, SetVisibilityEffect
  <2>. QED BY <2>1, <2>2
<1>. QED BY <1>1, <1>2, <1>3, <1>5, <1>7, <1>8, <1>9 DEF Inv

(* DeleteMessage makes the dequeues that have read the row stale. *)
LEMMA DeleteMessageEffect ==
  ASSUME Inv, NEW c \in Consumers, DeleteMessage(c)
  PROVE  LET m == cons[c].m
         IN  /\ m \in Senders /\ cons[c].pc = "ack_delete"
             /\ msg' \in [Senders -> Message]
             /\ \A r \in Senders : /\ msg'[r].q = msg[r].q
                                    /\ msg'[r].gen = msg[r].gen
             /\ \A r \in Senders \ {m} : msg'[r] = msg[r]
             /\ \/ msg' = msg
                \/ /\ msg[m].status \in Stored \cup {"purged"}
                   /\ msg'[m].status = "acked"
                   /\ \A d \in Consumers : Claiming(d)' => cons'[d].m # m
             /\ cons' \in [Consumers -> Consumer]
             /\ cons'[c].pc = "ack_quota"
             /\ \A d \in Consumers :
                  /\ d # c => cons'[d].pc = cons[d].pc
                  /\ cons'[d].q = cons[d].q /\ cons'[d].h = cons[d].h
                  /\ cons'[d].m = cons[d].m
                  /\ Claiming(d)' => Claiming(d)
                  /\ Leasing(d)' <=> Leasing(d)
<1> DEFINE m == cons[c].m
           q == cons[c].q
           h == cons[c].h
           f == Move(c, "ack_quota")
<1>0. "ack_quota" \in Holding /\ "ack_delete" \in Holding
  BY DEF Holding, Acking
<1>1. /\ cons \in [Consumers -> Consumer] /\ msg \in [Senders -> Message]
      /\ m \in Senders /\ cons[c].pc = "ack_delete"
  BY <1>0 DEF Inv, TypeOK, Message, DeleteMessage, Requests
<1>2. /\ f \in [Consumers -> Consumer] /\ f[c].pc = "ack_quota"
      /\ f[c].q = q /\ f[c].h = h /\ f[c].m = m /\ f[c].lapsed = cons[c].lapsed
      /\ \A d \in Consumers \ {c} : f[d] = cons[d]
  <2>1. "ack_quota" \in {"idle"} \cup Dequeuing \cup Holding
    BY <1>0
  <2>. QED BY <1>1, <2>1, MoveEffect
<1> HIDE DEF f
<1>3. CASE RowIn(m, q, h)
  <2>1. msg' = [msg EXCEPT ![m].status = "acked"] /\ cons' = Commit(f, q, h)
    BY <1>3 DEF DeleteMessage, f
  <2>2. msg[m].status \in Stored \cup {"purged"} /\ msg[m].q = q /\ msg[m].gen = h
    BY <1>3 DEF RowIn
  <2>3. /\ msg' \in [Senders -> Message] /\ msg'[m].status = "acked"
        /\ \A r \in Senders : msg'[r].q = msg[r].q /\ msg'[r].gen = msg[r].gen
        /\ \A r \in Senders \ {m} : msg'[r] = msg[r]
    BY <1>1, <2>1 DEF Message, MsgStatus
  <2>4. /\ cons' \in [Consumers -> Consumer] /\ cons'[c].pc = "ack_quota"
        /\ cons'[c].q = q /\ cons'[c].h = h /\ cons'[c].m = m
        /\ cons'[c].lapsed = cons[c].lapsed
    BY <1>2, <2>1, CommitEffect
  <2>5. ~Claiming(c)' /\ (Leasing(c)' <=> Leasing(c))
    BY <1>0, <1>1, <2>4 DEF Claiming, Leasing
  <2>6. ASSUME NEW d \in Consumers \ {c}
        PROVE  /\ cons'[d].pc = cons[d].pc
               /\ cons'[d].q = cons[d].q /\ cons'[d].h = cons[d].h
               /\ cons'[d].m = cons[d].m
               /\ Claiming(d)' => Claiming(d) /\ cons[d].m # m
               /\ Leasing(d)' <=> Leasing(d)
    <3>1. f[d] = cons[d]
      BY <1>2
    <3>2. /\ cons'[d].pc = cons[d].pc
          /\ cons'[d].q = cons[d].q /\ cons'[d].h = cons[d].h
          /\ cons'[d].m = cons[d].m /\ cons'[d].lapsed = cons[d].lapsed
          /\ cons'[d].stale <=>
               \/ cons[d].stale
               \/ cons[d].pc = "claim" /\ cons[d].q = q /\ cons[d].h = h
      BY <1>2, <2>1, <3>1, CommitEffect
    <3>3. Claiming(d) /\ cons[d].m = m => cons[d].q = q /\ cons[d].h = h
      BY <2>2 DEF Inv, Fresh
    <3>. QED BY <3>2, <3>3 DEF Claiming, Leasing
  <2>. QED BY <1>1, <2>2, <2>3, <2>4, <2>5, <2>6
<1>4. CASE ~RowIn(m, q, h)
  <2>1. msg' = msg /\ cons' = f
    BY <1>4 DEF DeleteMessage, f
  <2>2. ~Claiming(c)' /\ (Leasing(c)' <=> Leasing(c))
    BY <1>0, <1>1, <1>2, <2>1 DEF Claiming, Leasing
  <2>3. ASSUME NEW d \in Consumers \ {c}
        PROVE  /\ cons'[d].pc = cons[d].pc
               /\ cons'[d].q = cons[d].q /\ cons'[d].h = cons[d].h
               /\ cons'[d].m = cons[d].m
               /\ Claiming(d)' => Claiming(d)
               /\ Leasing(d)' <=> Leasing(d)
    <3>1. cons'[d] = cons[d]
      BY <1>2, <2>1
    <3>2. (Claiming(d)' <=> Claiming(d)) /\ (Leasing(d)' <=> Leasing(d))
      BY <3>1 DEF Claiming, Leasing
    <3>. QED BY <3>1, <3>2
  <2>4. /\ cons' \in [Consumers -> Consumer] /\ cons'[c].pc = "ack_quota"
        /\ cons'[c].q = q /\ cons'[c].h = h /\ cons'[c].m = m
        /\ msg' \in [Senders -> Message]
    BY <1>1, <1>2, <2>1
  <2>. QED BY <1>1, <2>1, <2>2, <2>3, <2>4
<1>. QED BY <1>3, <1>4

(* An acknowledgement preserves it, also a late one or one of a dead file. *)
LEMMA DeleteMessageInv ==
  ASSUME Inv, NEW c \in Consumers, DeleteMessage(c)
  PROVE  Inv'
<1> DEFINE m == cons[c].m
<1>0. /\ UNCHANGED <<exists, gen, send, total, limit, clock, chan>>
      /\ "ack_quota" \in Holding /\ "ack_delete" \in Holding
  BY DEF DeleteMessage, Holding, Acking
<1>1. TypeOK'
  BY <1>0, DeleteMessageEffect DEF Inv, TypeOK, Message
<1>2. Requests'
  <2>1. cons[c].q \in Queues
    BY DeleteMessageEffect DEF Inv, Requests
  <2>. QED BY <1>0, <2>1, DeleteMessageEffect DEF Inv, Requests
<1>3. \A s \in Senders : msg'[s].status # msg[s].status =>
                            /\ s = m /\ msg'[s].status = "acked"
                            /\ msg[s].status \in Stored \cup {"purged"}
                            /\ \A d \in Consumers : Claiming(d)' => cons'[d].m # s
  BY DeleteMessageEffect
<1>4. Rows'
  <2> SUFFICES ASSUME NEW s \in Senders
               PROVE  /\ send[s].pc \in {"idle", "open", "commit"} =>
                           msg'[s].status = "new"
                      /\ msg'[s].status \in Stored =>
                           msg[s].q \in Queues /\ msg[s].gen = gen[msg[s].q]
    BY <1>0, DeleteMessageEffect DEF Rows
  <2>1. /\ send[s].pc \in {"idle", "open", "commit"} => msg[s].status = "new"
        /\ msg[s].status \in Stored =>
             msg[s].q \in Queues /\ msg[s].gen = gen[msg[s].q]
    BY DEF Inv, Rows
  <2>. QED BY <1>3, <2>1 DEF Stored
<1>5. Fresh'
  <2> SUFFICES ASSUME NEW d \in Consumers, Claiming(d)'
               PROVE  /\ msg'[cons'[d].m].q = cons'[d].q
                      /\ msg'[cons'[d].m].gen = cons'[d].h
                      /\ msg'[cons'[d].m].status \in {"visible", "purged"}
    BY DEF Fresh
  <2>1. /\ Claiming(d) /\ cons'[d].m = cons[d].m /\ cons[d].m \in Senders
        /\ cons'[d].q = cons[d].q /\ cons'[d].h = cons[d].h
    BY DeleteMessageEffect DEF Inv, Requests, Claiming
  <2>2. msg'[cons[d].m].status = msg[cons[d].m].status
    BY <1>3, <2>1
  <2>. QED BY <2>1, <2>2, DeleteMessageEffect DEF Inv, Fresh
<1>6. Leases'
  <2> SUFFICES ASSUME NEW d \in Consumers, Leasing(d)'
               PROVE  msg'[cons'[d].m].status \in {"claimed", "purged", "acked"}
    BY DEF Leases
  <2>1. Leasing(d) /\ cons'[d].m = cons[d].m /\ cons[d].m \in Senders
    BY DeleteMessageEffect DEF Inv, Requests, Leasing
  <2>. QED BY <1>3, <2>1 DEF Inv, Leases
<1>7. NoRace'
  BY DeleteMessageEffect DEF Inv, NoRace
<1>8. OneHolder'
  <2> SUFFICES ASSUME NEW d \in Consumers, NEW e \in Consumers,
                      Leasing(d)', Leasing(e)', cons'[d].m = cons'[e].m
               PROVE  d = e
    BY DEF OneHolder, Leasing
  <2>. QED BY DeleteMessageEffect DEF Inv, OneHolder, Leasing
<1>. QED BY <1>1, <1>2, <1>4, <1>5, <1>6, <1>7, <1>8 DEF Inv

(* A lapse ends the lease of the message. *)
LEMMA LapseInv ==
  ASSUME Inv, NEW m \in Senders, Lapse(m)
  PROVE  Inv'
<1>0. /\ cons \in [Consumers -> Consumer] /\ msg \in [Senders -> Message]
      /\ msg[m].status = "claimed"
      /\ UNCHANGED <<exists, gen, send, total, limit, clock, chan>>
  BY DEF Inv, TypeOK, Message, Lapse
<1>1. /\ msg' \in [Senders -> Message] /\ msg'[m].status = "visible"
      /\ \A r \in Senders : msg'[r].q = msg[r].q /\ msg'[r].gen = msg[r].gen
      /\ \A r \in Senders \ {m} : msg'[r] = msg[r]
  <2>1. msg' = [msg EXCEPT ![m].status = "visible"]
    BY DEF Lapse
  <2>. QED BY <1>0, <2>1 DEF Message, MsgStatus, Stored
<1>2. ASSUME NEW c \in Consumers
      PROVE  /\ cons'[c] \in Consumer
             /\ cons'[c].pc = cons[c].pc /\ cons'[c].q = cons[c].q
             /\ cons'[c].h = cons[c].h /\ cons'[c].m = cons[c].m
             /\ Claiming(c)' <=> Claiming(c)
             /\ Leasing(c)' <=> Leasing(c) /\ cons[c].m # m
  <2>1. cons[c] \in Consumer
    BY <1>0
  <2>2. cons'[c] = IF cons[c].pc \in Holding /\ cons[c].m = m
                     THEN [cons[c] EXCEPT !.lapsed = TRUE] ELSE cons[c]
    BY DEF Lapse
  <2>3. CASE cons[c].pc \in Holding /\ cons[c].m = m
    <3>1. cons'[c] = [cons[c] EXCEPT !.lapsed = TRUE]
      BY <2>2, <2>3
    <3>2. /\ cons'[c] \in Consumer
          /\ cons'[c].pc = cons[c].pc /\ cons'[c].q = cons[c].q
          /\ cons'[c].h = cons[c].h /\ cons'[c].m = cons[c].m
          /\ cons'[c].stale = cons[c].stale /\ cons'[c].lapsed = TRUE
      BY <2>1, <3>1 DEF Consumer
    <3>. QED BY <2>3, <3>2 DEF Claiming, Leasing
  <2>4. CASE ~(cons[c].pc \in Holding /\ cons[c].m = m)
    <3>1. cons'[c] = cons[c]
      BY <2>2, <2>4
    <3>. QED BY <2>1, <2>4, <3>1 DEF Claiming, Leasing
  <2>. QED BY <2>3, <2>4
<1>3. cons' \in [Consumers -> Consumer]
  BY <1>2 DEF Lapse
<1>4. TypeOK'
  BY <1>0, <1>1, <1>3 DEF Inv, TypeOK, Message
<1>5. Requests'
  BY <1>0, <1>2 DEF Inv, Requests
<1>6. Rows'
  BY <1>0, <1>1 DEF Inv, Rows, Stored
<1>7. \A c \in Consumers : Claiming(c) \/ Leasing(c) => cons[c].m \in Senders
  BY DEF Inv, Requests, Claiming, Leasing
<1>8. Fresh'
  <2>1. \A c \in Consumers : Claiming(c) => cons[c].m # m
    BY <1>0 DEF Inv, Fresh
  <2>. QED BY <1>1, <1>2, <1>7, <2>1 DEF Inv, Fresh
<1>9. Leases'
  BY <1>1, <1>2, <1>7 DEF Inv, Leases
<1>10. NoRace'
  BY <1>2 DEF Inv, NoRace
<1>11. OneHolder'
  <2> SUFFICES ASSUME NEW d \in Consumers, NEW e \in Consumers,
                      Leasing(d)', Leasing(e)', cons'[d].m = cons'[e].m
               PROVE  d = e
    BY DEF OneHolder, Leasing
  <2>. QED BY <1>2 DEF Inv, OneHolder, Leasing
<1>. QED BY <1>4, <1>5, <1>6, <1>8, <1>9, <1>10, <1>11 DEF Inv

(* A deleted queue's rows stay readable through connections that are open. *)
LEMMA DeleteQueueInv ==
  ASSUME Inv, NEW q \in Queues, DeleteQueue(q)
  PROVE  Inv'
<1>0. /\ msg \in [Senders -> Message] /\ gen \in [Queues -> 0 .. MaxGen]
      /\ exists \in [Queues -> BOOLEAN]
      /\ UNCHANGED <<send, cons, total, limit, clock, chan>>
  BY DEF Inv, TypeOK, Message, DeleteQueue
<1>1. ASSUME NEW m \in Senders
      PROVE  /\ msg'[m] \in Message
             /\ msg'[m].q = msg[m].q /\ msg'[m].gen = msg[m].gen
             /\ msg'[m].status = IF msg[m].q = q /\ msg[m].status \in Stored
                                   THEN "purged" ELSE msg[m].status
  <2>1. msg'[m] = IF msg[m].q = q /\ msg[m].status \in Stored
                    THEN [msg[m] EXCEPT !.status = "purged"] ELSE msg[m]
    BY DEF DeleteQueue
  <2>2. msg[m] \in Message
    BY <1>0
  <2>. QED BY <2>1, <2>2 DEF Message, MsgStatus
<1>2. msg' \in [Senders -> Message]
  BY <1>1 DEF DeleteQueue
<1>3. /\ gen' \in [Queues -> 0 .. MaxGen] /\ exists' \in [Queues -> BOOLEAN]
      /\ \A p \in Queues \ {q} : gen'[p] = gen[p]
  BY <1>0 DEF DeleteQueue
<1>4. TypeOK'
  BY <1>0, <1>2, <1>3 DEF Inv, TypeOK, Message
<1>5. Requests'
  BY <1>0 DEF Inv, Requests
<1>6. Rows'
  <2> SUFFICES ASSUME NEW s \in Senders
               PROVE  /\ send[s].pc \in {"idle", "open", "commit"} =>
                           msg'[s].status = "new"
                      /\ msg'[s].status \in Stored =>
                           msg'[s].q \in Queues /\ msg'[s].gen = gen'[msg'[s].q]
    BY <1>0 DEF Rows
  <2>1. /\ send[s].pc \in {"idle", "open", "commit"} => msg[s].status = "new"
        /\ msg[s].status \in Stored =>
             msg[s].q \in Queues /\ msg[s].gen = gen[msg[s].q]
    BY DEF Inv, Rows
  <2>. QED BY <1>1, <1>3, <2>1 DEF Stored
<1>7. \A c \in Consumers : Claiming(c) \/ Leasing(c) => cons[c].m \in Senders
  BY DEF Inv, Requests, Claiming, Leasing
<1>8. Fresh'
  BY <1>0, <1>1, <1>7 DEF Inv, Fresh, Claiming
<1>9. Leases'
  BY <1>0, <1>1, <1>7 DEF Inv, Leases, Leasing
<1>10. NoRace' /\ OneHolder'
  BY <1>0 DEF Inv, NoRace, OneHolder, Claiming, Leasing
<1>. QED BY <1>4, <1>5, <1>6, <1>8, <1>9, <1>10 DEF Inv

(* A crash drops every request and no delivery. *)
LEMMA CrashInv ==
  ASSUME Inv, Crash
  PROVE  Inv'
<1>0. /\ cons \in [Consumers -> Consumer] /\ send \in [Senders -> Sender]
      /\ UNCHANGED <<exists, gen, msg, total, limit, clock>>
  BY DEF Inv, TypeOK, Sender, Crash
<1>1. ASSUME NEW s \in Senders
      PROVE  /\ send'[s] \in Sender /\ send'[s].q = send[s].q
             /\ send'[s].pc = "lost" \/ send'[s].pc = send[s].pc
             /\ send'[s].pc # "idle" => send[s].pc # "idle"
  <2>1. send'[s] = IF send[s].pc \in {"open", "commit", "add", "signal"}
                     THEN [send[s] EXCEPT !.pc = "lost"] ELSE send[s]
    BY DEF Crash
  <2>2. send[s] \in Sender
    BY <1>0
  <2>. QED BY <2>1, <2>2 DEF Sender, SendPc
<1>2. ASSUME NEW c \in Consumers
      PROVE  /\ cons'[c] \in Consumer
             /\ \/ cons'[c].pc = "idle" /\ cons[c].pc \notin Holding
                \/ /\ cons'[c].pc \in Holding /\ cons[c].pc \in Holding
                   /\ cons'[c].q = cons[c].q /\ cons'[c].m = cons[c].m
                   /\ Leasing(c)' <=> Leasing(c)
  <2>0. cons[c] \in Consumer
    BY <1>0
  <2>1. cons'[c] = IF cons[c].pc \in Dequeuing THEN IdleConsumer
                   ELSE IF cons[c].pc \in Acking THEN [cons[c] EXCEPT !.pc = "has"]
                   ELSE cons[c]
    BY DEF Crash
  <2>2. CASE cons[c].pc \in Dequeuing
    BY <2>1, <2>2, IdleType DEF IdleConsumer, Dequeuing, Holding, Acking
  <2>3. CASE cons[c].pc \in Acking
    <3>1. cons'[c] = [cons[c] EXCEPT !.pc = "has"]
      BY <2>1, <2>3 DEF Dequeuing, Acking
    <3>2. /\ cons'[c] \in Consumer /\ cons'[c].pc = "has"
          /\ cons'[c].q = cons[c].q /\ cons'[c].m = cons[c].m
          /\ cons'[c].lapsed = cons[c].lapsed
      BY <2>0, <3>1 DEF Consumer, Holding
    <3>. QED BY <2>3, <3>2 DEF Leasing, Holding
  <2>4. CASE cons[c].pc \notin Dequeuing \cup Acking
    <3>1. cons'[c] = cons[c]
      BY <2>1, <2>4
    <3>2. cons[c].pc = "idle" \/ cons[c].pc \in Holding
      BY <2>0, <2>4 DEF Consumer
    <3>3. "idle" \notin Holding
      BY DEF Holding, Acking
    <3>. QED BY <2>0, <3>1, <3>2, <3>3 DEF Leasing
  <2>. QED BY <2>2, <2>3, <2>4
<1>3. send' \in [Senders -> Sender] /\ cons' \in [Consumers -> Consumer]
  BY <1>1, <1>2 DEF Crash
<1>4. chan' \in [Queues -> {"none", "empty", "full"}]
  BY DEF Crash
<1>5. TypeOK'
  BY <1>0, <1>3, <1>4 DEF Inv, TypeOK, Sender
<1>6. "claim" \notin Holding /\ "idle" \notin Holding
  BY DEF Holding, Acking
<1>7. \A c \in Consumers : /\ ~Claiming(c)'
                           /\ Leasing(c)' => Leasing(c) /\ cons'[c].m = cons[c].m
  BY <1>2, <1>6 DEF Claiming, Leasing
<1>8. Requests'
  BY <1>1, <1>2, <1>6 DEF Inv, Requests
<1>9. Rows'
  BY <1>0, <1>1 DEF Inv, Rows
<1>10. Fresh' /\ NoRace'
  BY <1>7 DEF Fresh, NoRace
<1>11. Leases'
  BY <1>0, <1>7 DEF Inv, Leases
<1>12. OneHolder'
  <2> SUFFICES ASSUME NEW d \in Consumers, NEW e \in Consumers,
                      Leasing(d)', Leasing(e)', cons'[d].m = cons'[e].m
               PROVE  d = e
    BY DEF OneHolder, Leasing
  <2>. QED BY <1>7 DEF Inv, OneHolder, Leasing
<1>. QED BY <1>5, <1>8, <1>9, <1>10, <1>11, <1>12 DEF Inv

-----------------------------------------------------------------------------
(* The invariants *)

(* Every step preserves the invariant. *)
LEMMA NextInv == Inv /\ [Next]_vars => Inv'
<1> SUFFICES ASSUME Inv, [Next]_vars PROVE Inv'
  OBVIOUS
<1>1. CASE \E q \in Queues : CreateQueue(q)
  <2>1. /\ UNCHANGED <<gen, msg, send, cons, total, limit, clock, chan>>
        /\ exists' \in [Queues -> BOOLEAN]
    BY <1>1 DEF CreateQueue, Inv, TypeOK
  <2>. QED BY <2>1 DEF Inv, TypeOK, Requests, Rows, Fresh, Leases, NoRace,
                       OneHolder, Claiming, Leasing
<1>2. CASE \E l \in Limits : SetQuota(l)
  <2>1. /\ UNCHANGED <<exists, gen, msg, send, cons, total, clock, chan>>
        /\ limit' \in Nat
    BY <1>2 DEF SetQuota
  <2>. QED BY <2>1 DEF Inv, TypeOK, Requests, Rows, Fresh, Leases, NoRace,
                       OneHolder, Claiming, Leasing
<1>3. CASE UNCHANGED vars
  BY <1>3 DEF vars, Inv, TypeOK, Requests, Rows, Fresh, Leases, NoRace,
              OneHolder, Claiming, Leasing
<1>4. ASSUME NEW s \in Senders,
             EnqueueStep(s) \/ \E q \in Queues : CheckQuota(s, q)
      PROVE  Inv'
  BY <1>4, EnqueueInv, OpenQueueInv, InsertMessageInv DEF EnqueueStep
<1>5. ASSUME NEW c \in Consumers,
             \/ ConsumerStep(c) \/ SendAck(c) \/ Forget(c)
             \/ \E q \in Queues : GetNext(c, q)
      PROVE  Inv'
  BY <1>5, QuietInv, SetVisibilityInv, DeleteMessageInv DEF ConsumerStep, QuietStep
<1>. QED
  BY <1>1, <1>2, <1>3, <1>4, <1>5, LapseInv, DeleteQueueInv, CrashInv DEF Next

(* The inductive invariant holds in every reachable state of the service. *)
THEOREM Invariance == Spec => []Inv
BY InitInv, NextInv, PTL DEF Spec

(* The state of the queue service is well typed: in particular total_bytes *)
(* never becomes negative, whatever sequence of acknowledgements, failed   *)
(* updates and deletions the quota has been through.                       *)
THEOREM TypeCorrect == Spec => []TypeOK
<1>1. Inv => TypeOK
  BY DEF Inv
<1>. QED BY <1>1, Invariance, PTL

(* local.go, Dequeue: while the visibility timeout of one consumer runs no *)
(* other consumer is given the message.                                    *)
THEOREM NeverTwoHolders == Spec => []OneHolder
<1>1. Inv => OneHolder
  BY DEF Inv
<1>. QED BY <1>1, Invariance, PTL

-----------------------------------------------------------------------------
(* The refinement *)

(* The rows are as QueueContract saw them before. *)
LEMMA RowsSame ==
  ASSUME \A r \in Senders : msg'[r].status = msg[r].status
  PROVE  ContractStatus' = ContractStatus /\ ContractLeased' = ContractLeased
BY DEF ContractStatus, ContractLeased

(* Every consumer holds what it held. *)
LEMMA HeldSame ==
  ASSUME \A c \in Consumers :
           /\ cons'[c].pc \in Holding <=> cons[c].pc \in Holding
           /\ cons[c].pc \in Holding => cons'[c].m = cons[c].m
  PROVE  ContractHeld' = ContractHeld
BY DEF ContractHeld

(* One consumer gives up the message that it held. *)
LEMMA HeldLess ==
  ASSUME NEW c \in Consumers, cons[c].pc \in Holding, cons[c].m \in Senders,
         cons'[c].pc \notin Holding,
         \A d \in Consumers \ {c} : cons'[d] = cons[d]
  PROVE  ContractHeld' = [ContractHeld EXCEPT ![cons[c].m] = @ \ {c}]
<1>1. \A m \in Senders : ContractHeld'[m] =
         IF m = cons[c].m THEN ContractHeld[m] \ {c} ELSE ContractHeld[m]
  BY DEF ContractHeld
<1>2. /\ ContractHeld' = [m \in Senders |-> ContractHeld'[m]]
      /\ ContractHeld = [m \in Senders |-> ContractHeld[m]]
  BY DEF ContractHeld
<1>. QED BY <1>1, <1>2

(* One consumer receives a message. *)
LEMMA HeldMore ==
  ASSUME NEW c \in Consumers, NEW m \in Senders, cons[c].pc \notin Holding,
         cons'[c].pc \in Holding, cons'[c].m = m,
         \A d \in Consumers \ {c} : cons'[d].pc = cons[d].pc /\ cons'[d].m = cons[d].m
  PROVE  ContractHeld' = [ContractHeld EXCEPT ![m] = @ \cup {c}]
<1>1. \A n \in Senders : ContractHeld'[n] =
         IF n = m THEN ContractHeld[n] \cup {c} ELSE ContractHeld[n]
  BY DEF ContractHeld
<1>2. /\ ContractHeld' = [n \in Senders |-> ContractHeld'[n]]
      /\ ContractHeld = [n \in Senders |-> ContractHeld[n]]
  BY DEF ContractHeld
<1>. QED BY <1>1, <1>2

(* The initial states are initial states of the contract. *)
LEMMA InitContract == Init => Contract!Init
BY DEF Init, Contract!Init, ContractStatus, ContractLeased, ContractHeld, Stored,
       IdleConsumer, Holding, Acking

(* The commit of an enqueue is the contract's Enqueue. *)
LEMMA InsertContract ==
  ASSUME Inv, NEW s \in Senders, InsertMessage(s)
  PROVE  Contract!Enqueue(s) \/ Contract!EnqueueDeleted(s)
<1>0. /\ msg \in [Senders -> Message] /\ cons \in [Consumers -> Consumer]
      /\ msg[s].status = "new"
  BY DEF Inv, TypeOK, Message, InsertMessage, Rows
<1>1. PICK st \in {"visible", "purged"} :
             msg' = [msg EXCEPT ![s].q = send[s].q, ![s].gen = send[s].h,
                                ![s].status = st]
  BY DEF InsertMessage
<1>2. msg'[s].status = st /\ \A r \in Senders \ {s} : msg'[r].status = msg[r].status
  BY <1>0, <1>1 DEF Message
<1>3. ContractHeld' = ContractHeld
  <2>1. \A c \in Consumers : cons'[c].pc = cons[c].pc /\ cons'[c].m = cons[c].m
    BY <1>0, CommitEffect DEF InsertMessage
  <2>. QED BY <2>1, HeldSame
<1>4. ContractLeased' = ContractLeased
  BY <1>0, <1>2 DEF ContractLeased
<1>5. ContractStatus[s] = "new"
  BY <1>0 DEF ContractStatus, Stored
<1>6. ContractStatus' = [ContractStatus EXCEPT
                           ![s] = IF st = "visible" THEN "queued" ELSE "purged"]
  BY <1>2 DEF ContractStatus, Stored
<1>. QED
  BY <1>3, <1>4, <1>5, <1>6 DEF Contract!Enqueue, Contract!EnqueueDeleted

(* The commit of a dequeue is the contract's Deliver. *)
LEMMA SetVisibilityContract ==
  ASSUME Inv, NEW c \in Consumers, SetVisibility(c)
  PROVE  LET m == cons[c].m
         IN  m \in Senders /\ (Contract!Deliver(c, m) \/ Contract!DeliverDeleted(c, m))
<1> DEFINE m == cons[c].m
<1>1. /\ m \in Senders /\ msg[m].status \in {"visible", "purged"}
      /\ \A r \in Senders \ {m} : msg'[r].status = msg[r].status
      /\ msg'[m].status = IF msg[m].status = "visible" THEN "claimed" ELSE "purged"
  BY SetVisibilityEffect
<1>2. ContractHeld' = [ContractHeld EXCEPT ![m] = @ \cup {c}]
  <2>1. cons[c].pc \notin Holding
    BY DEF SetVisibility, Holding, Acking
  <2>2. /\ cons'[c].pc \in Holding /\ cons'[c].m = m
        /\ \A d \in Consumers \ {c} : cons'[d].pc = cons[d].pc /\ cons'[d].m = cons[d].m
    BY SetVisibilityEffect DEF Holding
  <2>. QED BY <1>1, <2>1, <2>2, HeldMore
<1>3. ContractStatus' = ContractStatus
  BY <1>1 DEF ContractStatus, Stored
<1>4. CASE msg[m].status = "visible"
  <2>1. ContractStatus[m] = "queued" /\ m \notin ContractLeased
    BY <1>1, <1>4 DEF ContractStatus, ContractLeased, Stored
  <2>2. ContractLeased' = ContractLeased \cup {m}
    BY <1>1, <1>4 DEF ContractLeased
  <2>. QED BY <1>1, <1>2, <1>3, <2>1, <2>2 DEF Contract!Deliver
<1>5. CASE msg[m].status = "purged"
  <2>1. ContractStatus[m] = "purged" /\ ContractLeased' = ContractLeased
    BY <1>1, <1>5 DEF ContractStatus, ContractLeased, Stored
  <2>. QED BY <1>1, <1>2, <1>3, <2>1 DEF Contract!DeliverDeleted
<1>. QED BY <1>1, <1>4, <1>5

(* Deleting the row is the contract's Ack; deleting nothing is a stutter. *)
LEMMA DeleteMessageContract ==
  ASSUME Inv, NEW c \in Consumers, DeleteMessage(c)
  PROVE  \/ UNCHANGED Contract!contractVars
         \/ cons[c].m \in Senders /\ Contract!Ack(c, cons[c].m)
<1> DEFINE m == cons[c].m
<1>0. "ack_quota" \in Holding /\ "ack_delete" \in Holding
  BY DEF Holding, Acking
<1>1. ContractHeld' = ContractHeld
  <2>1. \A d \in Consumers : /\ cons'[d].pc \in Holding <=> cons[d].pc \in Holding
                             /\ cons'[d].m = cons[d].m
    BY <1>0, DeleteMessageEffect
  <2>. QED BY <2>1, HeldSame
<1>2. m \in Senders /\ c \in ContractHeld[m]
  BY <1>0, DeleteMessageEffect DEF ContractHeld
<1>3. CASE msg' = msg
  BY <1>1, <1>3, RowsSame DEF Contract!contractVars
<1>4. CASE msg' # msg
  <2>1. /\ msg[m].status \in Stored \cup {"purged"} /\ msg'[m].status = "acked"
        /\ \A r \in Senders \ {m} : msg'[r].status = msg[r].status
    BY <1>4, DeleteMessageEffect
  <2>2. ContractStatus[m] \in {"queued", "purged"}
    BY <1>2, <2>1 DEF ContractStatus, Stored
  <2>3. ContractStatus' = [ContractStatus EXCEPT ![m] = "acked"]
    BY <2>1 DEF ContractStatus, Stored
  <2>4. ContractLeased' = ContractLeased \ {m}
    BY <2>1 DEF ContractLeased
  <2>. QED BY <1>1, <1>2, <2>2, <2>3, <2>4 DEF Contract!Ack
<1>. QED BY <1>3, <1>4

(* The end of a visibility timeout is the contract's Lapse. *)
LEMMA LapseContract ==
  ASSUME Inv, NEW m \in Senders, Lapse(m)
  PROVE  Contract!Lapse(m)
<1>1. /\ msg \in [Senders -> Message] /\ cons \in [Consumers -> Consumer]
      /\ msg[m].status = "claimed"
  BY DEF Inv, TypeOK, Message, Lapse
<1>2. msg'[m].status = "visible" /\ \A r \in Senders \ {m} : msg'[r].status = msg[r].status
  BY <1>1 DEF Lapse, Message
<1>3. \A c \in Consumers : cons'[c].pc = cons[c].pc /\ cons'[c].m = cons[c].m
  BY <1>1 DEF Lapse, Consumer
<1>4. ContractHeld' = ContractHeld
  BY <1>3, HeldSame
<1>5. ContractStatus' = ContractStatus
  BY <1>1, <1>2 DEF ContractStatus, Stored
<1>6. ContractLeased' = ContractLeased \ {m}
  BY <1>2 DEF ContractLeased
<1>. QED BY <1>4, <1>5, <1>6 DEF Contract!Lapse

(* Deleting a queue is the contract's Purge of what it stored. *)
LEMMA DeleteQueueContract ==
  ASSUME Inv, NEW q \in Queues, DeleteQueue(q)
  PROVE  \E S \in SUBSET Senders : Contract!Purge(S)
<1> DEFINE S == {m \in Senders : msg[m].q = q /\ msg[m].status \in Stored}
<1>1. msg \in [Senders -> Message]
  BY DEF Inv, TypeOK, Message
<1>2. \A m \in Senders : msg'[m].status = IF m \in S THEN "purged" ELSE msg[m].status
  BY <1>1 DEF DeleteQueue, Message
<1>3. ContractHeld' = ContractHeld
  BY DEF ContractHeld, DeleteQueue
<1>4. \A m \in S : ContractStatus[m] = "queued"
  BY DEF ContractStatus
<1>5. ContractStatus' = [m \in Senders |-> IF m \in S THEN "purged" ELSE ContractStatus[m]]
  BY <1>2 DEF ContractStatus, Stored
<1>6. ContractLeased' = ContractLeased \ S
  BY <1>2 DEF ContractLeased
<1>7. Contract!Purge(S) /\ S \in SUBSET Senders
  BY <1>3, <1>4, <1>5, <1>6 DEF Contract!Purge
<1>. QED BY <1>7

(* A quiet step is a stutter or ends a delivery. *)
LEMMA QuietContract ==
  ASSUME Inv, NEW c \in Consumers, QuietStep(c)
  PROVE  \/ UNCHANGED Contract!contractVars
         \/ cons[c].m \in Senders /\ Contract!Release(c, cons[c].m)
<1>0. /\ "idle" \notin Holding /\ "claim" \notin Holding /\ "select" \notin Holding
      /\ "select2" \notin Holding /\ "wait" \notin Holding
  BY DEF Holding, Acking
<1>1. ContractStatus' = ContractStatus /\ ContractLeased' = ContractLeased
  BY QuietEffect, RowsSame
<1>2. CASE cons[c].pc \in Holding /\ cons'[c].pc \notin Holding
  <2>1. cons[c].m \in Senders
    BY <1>2 DEF Inv, Requests
  <2>2. ContractHeld' = [ContractHeld EXCEPT ![cons[c].m] = @ \ {c}]
    BY <1>2, <2>1, QuietEffect, HeldLess
  <2>. QED BY <1>1, <2>1, <2>2 DEF Contract!Release
<1>3. CASE ~(cons[c].pc \in Holding /\ cons'[c].pc \notin Holding)
  <2>1. \A d \in Consumers : /\ cons'[d].pc \in Holding <=> cons[d].pc \in Holding
                             /\ cons[d].pc \in Holding => cons'[d].m = cons[d].m
    BY <1>0, <1>3, QuietEffect
  <2>. QED BY <1>1, <2>1, HeldSame DEF Contract!contractVars
<1>. QED BY <1>2, <1>3

(* A step of the service that touches no row and no delivery. *)
LEMMA Stutters ==
  ASSUME Inv,
         \/ \E q \in Queues : CreateQueue(q)
         \/ \E l \in Limits : SetQuota(l)
         \/ \E s \in Senders :
              \/ OpenQueue(s) \/ EnqueueFails(s) \/ AddBytes(s) \/ SignalQueue(s)
              \/ \E q \in Queues : CheckQuota(s, q)
         \/ UNCHANGED vars
  PROVE  UNCHANGED Contract!contractVars
<1>1. cons' = cons
  BY DEF CreateQueue, SetQuota, OpenQueue, EnqueueFails, AddBytes, SignalQueue,
         CheckQuota, vars
<1>2. \A r \in Senders : msg'[r].status = msg[r].status
  <2>1. CASE \E s \in Senders : OpenQueue(s)
    <3>1. PICK s \in Senders : OpenQueue(s)
      BY <2>1
    <3>2. PICK now \in {clock, clock + 1} : msg' = [msg EXCEPT ![s].at = now]
      BY <3>1 DEF OpenQueue
    <3>3. msg \in [Senders -> Message]
      BY DEF Inv, TypeOK, Message
    <3>. QED BY <3>2, <3>3 DEF Message
  <2>2. CASE ~\E s \in Senders : OpenQueue(s)
    BY <2>2 DEF CreateQueue, SetQuota, EnqueueFails, AddBytes, SignalQueue,
                CheckQuota, vars
  <2>. QED BY <2>1, <2>2
<1>. QED BY <1>1, <1>2, RowsSame, HeldSame DEF Contract!contractVars

(* A crash is a stutter of the contract. *)
LEMMA CrashStutters ==
  ASSUME Inv, Crash
  PROVE  UNCHANGED Contract!contractVars
<1>1. cons \in [Consumers -> Consumer]
  BY DEF Inv, TypeOK
<1>2. ASSUME NEW c \in Consumers
      PROVE  /\ cons'[c].pc \in Holding <=> cons[c].pc \in Holding
             /\ cons[c].pc \in Holding => cons'[c].m = cons[c].m
  <2>1. cons'[c] = IF cons[c].pc \in Dequeuing THEN IdleConsumer
                   ELSE IF cons[c].pc \in Acking THEN [cons[c] EXCEPT !.pc = "has"]
                   ELSE cons[c]
    BY DEF Crash
  <2>2. cons[c] \in Consumer
    BY <1>1
  <2>. QED BY <2>1, <2>2 DEF Consumer, IdleConsumer, Dequeuing, Holding, Acking
<1>3. msg' = msg
  BY DEF Crash
<1>. QED BY <1>2, <1>3, RowsSame, HeldSame DEF Contract!contractVars

(* Every step is a step of the contract or a stutter. *)
LEMMA NextContract ==
  Inv /\ [Next]_vars => [Contract!Next]_(Contract!contractVars)
<1> SUFFICES ASSUME Inv, [Next]_vars
             PROVE  Contract!Next \/ UNCHANGED Contract!contractVars
  OBVIOUS
<1>1. ASSUME NEW s \in Senders,
             EnqueueStep(s) \/ \E q \in Queues : CheckQuota(s, q)
      PROVE  Contract!Next \/ UNCHANGED Contract!contractVars
  BY <1>1, Stutters, InsertContract DEF EnqueueStep, Contract!Next
<1>2. ASSUME NEW c \in Consumers,
             \/ ConsumerStep(c) \/ SendAck(c) \/ Forget(c)
             \/ \E q \in Queues : GetNext(c, q)
      PROVE  Contract!Next \/ UNCHANGED Contract!contractVars
  <2>1. CASE QuietStep(c)
    BY <2>1, QuietContract DEF Contract!Next
  <2>2. CASE SetVisibility(c)
    BY <2>2, SetVisibilityContract DEF Contract!Next
  <2>3. CASE DeleteMessage(c)
    BY <2>3, DeleteMessageContract DEF Contract!Next
  <2>. QED BY <1>2, <2>1, <2>2, <2>3 DEF ConsumerStep, QuietStep
<1>3. ASSUME NEW m \in Senders, Lapse(m)
      PROVE  Contract!Next
  BY <1>3, LapseContract DEF Contract!Next
<1>4. ASSUME NEW q \in Queues, DeleteQueue(q)
      PROVE  Contract!Next
  BY <1>4, DeleteQueueContract DEF Contract!Next
<1>. QED
  BY <1>1, <1>2, <1>3, <1>4, Stutters, CrashStutters DEF Next

(* queue.go, the Queue interface: a message stays until a consumer that    *)
(* received it acknowledges it or its queue is deleted, is not given out   *)
(* twice within a visibility timeout, and is never delivered after it was  *)
(* acknowledged.                                                           *)
THEOREM ImplementsContract == Spec => KeepsContract
BY InitContract, InitInv, NextInv, NextContract, PTL
DEF Spec, KeepsContract, Contract!Spec
=============================================================================
