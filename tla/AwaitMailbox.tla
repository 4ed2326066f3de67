------------------------------ MODULE AwaitMailbox ------------------------------
(***************************************************************************)
(* The mailbox of one run: awaitDispatch and action=check of server.mjs with   *)
(* the plans of lib/await-lifecycle.mjs, partitionMailbox of                  *)
(* lib/orch-isolation.mjs and lib/await-summary.mjs.                          *)
(*                                                                         *)
(* The runtime keeps the unacknowledged reports of the workers and hands them *)
(* out in deliveries to the run's consumer, the sender that used run-use last. *)
(* run-use withdraws the delivery that is out: its reports come again in        *)
(* another one (lib/await-lifecycle.test.mjs, createFakeMailbox).             *)
(*                                                                         *)
(* Requests of one client are serialised (module OrchLock).  Every report     *)
(* carries the id of its dispatch.                                          *)
(***************************************************************************)
EXTENDS Naturals

CONSTANTS
  Clients, Dispatches, NoDispatch,
  ownerOf,          (* the client that makes each dispatch                    *)
  Reports,          (* what the workers report: a question or worker_done of  *)
                    (* a dispatch                                             *)
  Keepers,          (* the clients that go on awaiting                        *)
  MaxDisturbances   (* bound on what does not go by the book                  *)

ASSUME MailboxAssumption ==
  /\ ownerOf \in [Dispatches -> Clients] /\ NoDispatch \notin Dispatches
  /\ Reports \subseteq {"question", "worker_done"} \X Dispatches
  /\ Keepers \subseteq Clients /\ MaxDisturbances \in Nat

VARIABLES
  queue, out,   (* runtime: the reports not acknowledged, those in delivery   *)
  consumer,     (* runtime: the clients bound to the run, at most one         *)
  bound,        (* boundRunId, boundSender: clients that think they are it     *)
  row,          (* the registry row of a dispatch                            *)
  pc, op, ack,  (* the request of a client, and what became of its ack        *)
  answer,       (* what the bridge is about to answer                         *)
  token,        (* the delivery a client was answered last                    *)
  hint,         (* next.action = release of that answer                      *)
  disturbances,
  reported,     (* history: what the workers have reported                    *)
  seen,         (* history: reports answered to their owner as its own       *)
  taken,        (* history: reports a client acknowledged that were not its    *)
  missed        (* history: reports an await answered to their owner as foreign *)

runtimeVars == <<queue, out, consumer>>
request     == <<op, ack, answer>>
clientVars  == <<token, hint>>
histories   == <<reported, seen, taken, missed>>
vars == <<runtimeVars, bound, row, pc, request, clientVars, disturbances, histories>>

(* A delivery is out, has been consumed by an ack, or run-use has made it void. *)
Deliveries == [batch : SUBSET Reports, state : {"out", "consumed", "void"}]
NoToken   == [batch |-> {}, state |-> "void"]
Error     == NoToken

Listed == {"running", "question", "worker_done"}
Owned(c) == {d \in Dispatches : ownerOf[d] = c /\ row[d] \in Listed}

Disturb == disturbances < MaxDisturbances /\ disturbances' = disturbances + 1

Init ==
  /\ queue = {} /\ out = {} /\ consumer = {} /\ bound = {}
  /\ row = [d \in Dispatches |-> "none"]
  /\ pc = [c \in Clients |-> "idle"]
  /\ op = [c \in Clients |-> "await"] /\ ack = [c \in Clients |-> "none"]
  /\ answer = [c \in Clients |-> NoToken] /\ token = answer
  /\ hint = [c \in Clients |-> NoDispatch]
  /\ disturbances = 0
  /\ reported = {} /\ seen = {} /\ taken = {} /\ missed = {}

Goto(c, label) == pc' = [pc EXCEPT ![c] = label]

(* The request of a client is over. *)
End(c) ==
  /\ Goto(c, "idle")
  /\ op' = [op EXCEPT ![c] = "await"] /\ ack' = [ack EXCEPT ![c] = "none"]
  /\ answer' = [answer EXCEPT ![c] = NoToken]

(* The delivery that is out is so no more. *)
Withdraw(deliveries, state) ==
  [c \in Clients |->
     [deliveries[c] EXCEPT !.state = IF @ = "out" THEN state ELSE @]]

(* run-use: the client becomes the consumer, the delivery that was out is void. *)
RunUse(c) ==
  /\ consumer' = {c} /\ bound' = bound \cup {c}
  /\ out' = {} /\ token' = Withdraw(token, "void") /\ answer' = Withdraw(answer, "void")

-----------------------------------------------------------------------------
(* dispatchWorker, and the worker. *)

(* Every dispatch uses the run anew, then the worker gets its brief. *)
Place(c, d) ==
  /\ pc[c] = "idle" /\ ownerOf[d] = c /\ row[d] = "none"
  /\ RunUse(c)
  /\ row' = [row EXCEPT ![d] = "placed"]
  /\ Goto(c, "dispatching")
  /\ UNCHANGED <<queue, op, ack, hint, disturbances, histories>>

Register(c, d) ==
  /\ pc[c] = "dispatching" /\ ownerOf[d] = c /\ row[d] = "placed"
  /\ row' = [row EXCEPT ![d] = "running"]
  /\ Goto(c, "idle")
  /\ UNCHANGED <<runtimeVars, bound, request, clientVars, disturbances, histories>>

(* The client aborts: the lock is free (runWithAbortSignal), but the body of the
   dispatch goes on.  Its worker has its brief, its row is not bound yet. *)
AbortDispatch(c, d) ==
  /\ pc[c] = "dispatching" /\ ownerOf[d] = c /\ row[d] = "placed"
  /\ Disturb
  /\ row' = [row EXCEPT ![d] = "adrift"]
  /\ Goto(c, "idle")
  /\ UNCHANGED <<runtimeVars, bound, request, clientVars, histories>>

(* The body of an aborted dispatch binds its row after all, or fails. *)
LateEnd(d) ==
  /\ row[d] = "adrift"
  /\ \E late \in {"running", "lost"} : row' = [row EXCEPT ![d] = late]
  /\ UNCHANGED <<runtimeVars, bound, pc, request, clientVars, disturbances, histories>>

(* The worker has its brief, but the dispatch fails. *)
DispatchFails(c, d) ==
  /\ pc[c] = "dispatching" /\ ownerOf[d] = c /\ row[d] = "placed"
  /\ Disturb
  /\ row' = [row EXCEPT ![d] = "lost"]
  /\ Goto(c, "idle")
  /\ UNCHANGED <<runtimeVars, bound, request, clientVars, histories>>

WorkerReports(m) ==
  /\ row[m[2]] # "none"
  /\ m \notin reported /\ <<"worker_done", m[2]>> \notin reported
  /\ queue' = queue \cup {m} /\ reported' = reported \cup {m}
  /\ UNCHANGED <<out, consumer, bound, row, pc, request, clientVars, disturbances, seen, taken, missed>>

-----------------------------------------------------------------------------
(* A request to await or to check, with the deliveryId of the last answer to
   acknowledge it, with the id of a message instead, or with neither.  A
   deliveryId that is void already is told apart for the properties only. *)

(* A bug planAwaitBindAndAck is written against (NAS-271 bug 3): an ack, too, binds
   the run whenever that is not known to be bound. *)
NeedsRunUseForAck(c, o, k) == c \notin bound

(* planAwaitBindAndAck spares an ack, action=check does not. *)
NeedsRunUse(c, o, k) == c \notin bound /\ (o = "await" => k = "none")

Ask(c, o, k) ==
  /\ pc[c] = "idle"
  /\ k # "none" => token[c].batch # {}
  /\ IF c \in Keepers /\ o = "await" /\ k # "message"
     THEN UNCHANGED disturbances ELSE Disturb
  /\ op' = [op EXCEPT ![c] = o]
  /\ ack' = [ack EXCEPT ![c] = IF k = "delivery" /\ token[c].state = "void" THEN "void" ELSE k]
  /\ hint' = [hint EXCEPT ![c] = NoDispatch]
  /\ Goto(c, IF NeedsRunUse(c, o, k) THEN "binding" ELSE "checking")
  /\ UNCHANGED <<runtimeVars, bound, row, answer, token, histories>>

AfterBinding(c) == Goto(c, IF pc[c] = "binding" THEN "checking" ELSE "rechecking")

BindRun(c) ==
  /\ pc[c] \in {"binding", "rebinding"}
  /\ AfterBinding(c)
  /\ RunUse(c)
  /\ UNCHANGED <<queue, row, op, ack, hint, disturbances, histories>>

BindFails(c) ==
  /\ pc[c] \in {"binding", "rebinding"}
  /\ AfterBinding(c)
  /\ Disturb
  /\ UNCHANGED <<runtimeVars, bound, row, request, clientVars, histories>>

DropAck(c) == ack' = [ack EXCEPT ![c] = IF @ = "none" THEN "none" ELSE "dropped"]

Checking == {"checking", "waiting", "rechecking"}

(* A bug the fence handling could have: it reports the fence and leaves it. *)
FencedGivesUp(c) ==
  /\ pc[c] \in Checking /\ c \notin consumer
  /\ Goto(c, "failed")
  /\ UNCHANGED <<runtimeVars, bound, row, request, clientVars, disturbances, histories>>

(* consumer_fenced: an await binds the run once more and drops its ack; if that
   was of no use, and in action=check at once, the answer is an error. *)
Fenced(c) ==
  /\ pc[c] \in Checking /\ c \notin consumer
  /\ IF op[c] = "await" /\ pc[c] # "rechecking"
     THEN Goto(c, "rebinding") /\ DropAck(c)
     ELSE Goto(c, "failed") /\ UNCHANGED ack
  /\ UNCHANGED <<runtimeVars, bound, row, op, answer, clientVars, disturbances, histories>>

(* stale_delivery: an await takes the deliveryId for one it has acknowledged
   before (decideStaleAckAction); a message id, and any ack of action=check, is
   dropped and the check done again. *)
StaleAck(c) ==
  /\ pc[c] = "checking" /\ c \in consumer
  /\ ack[c] = "message" \/ (ack[c] \in {"delivery", "void"} /\ token[c].state # "out")
  /\ IF op[c] = "await" /\ ack[c] # "message"
     THEN Goto(c, "answered") /\ UNCHANGED ack
     ELSE Goto(c, "rechecking") /\ DropAck(c)
  /\ UNCHANGED <<runtimeVars, bound, row, op, answer, clientVars, disturbances, histories>>

(* check --ack of the delivery that is out. *)
Consume(c) ==
  /\ pc[c] = "checking" /\ c \in consumer /\ ack[c] = "delivery"
  /\ token[c].state = "out"
  /\ queue' = queue \ out /\ out' = {}
  /\ token' = Withdraw(token, "consumed") /\ answer' = Withdraw(answer, "consumed")
  /\ taken' = taken \cup {m \in out : ownerOf[m[2]] # c}
  /\ Goto(c, "waiting")
  /\ UNCHANGED <<consumer, bound, row, op, ack, hint, disturbances, reported, seen, missed>>

MayReceive(c) ==
  /\ c \in consumer
  /\ pc[c] \in {"waiting", "rechecking"} \/ (pc[c] = "checking" /\ ack[c] = "none")

(* The delivery that is out comes again; if there is none, all reports go out. *)
Deliver(c) ==
  LET batch == IF out = {} THEN queue ELSE out
  IN  /\ MayReceive(c) /\ queue # {}
      /\ out' = batch
      /\ answer' = [answer EXCEPT ![c] = [batch |-> batch, state |-> "out"]]
      /\ Goto(c, "answered")
      /\ UNCHANGED <<queue, consumer, bound, row, op, ack, clientVars, disturbances, histories>>

TimesOut(c) ==
  /\ MayReceive(c) /\ queue = {}
  /\ Goto(c, "answered")
  /\ UNCHANGED <<runtimeVars, bound, row, request, clientVars, disturbances, histories>>

(* A bug partitionMailbox could have: next to a foreign message nothing is the
   client's. *)
OwnUnlessMixed(c, batch) ==
  IF \E m \in batch : m[2] \notin Owned(c) THEN {} ELSE batch

(* partitionMailbox: what is not of a dispatch the client owns is foreign. *)
Own(c, batch) == {m \in batch : m[2] \in Owned(c)}

(* A bug the update of a row could have: a status of its own for worker_done. *)
RowAfterDone(own, d) ==
  IF <<"worker_done", d>> \in own THEN "done"
  ELSE IF <<"question", d>> \in own THEN "question" ELSE row[d]

(* The row takes the type of the dispatch's last message. *)
RowAfter(own, d) ==
  IF <<"worker_done", d>> \in own THEN "worker_done"
  ELSE IF <<"question", d>> \in own THEN "question" ELSE row[d]

(* The answer reaches the client.  An await answers the client's own messages as
   such, notes them in their rows and hints at the release of a worker that is
   done; what is of a dispatch that is not in its rows it is answered as foreign.
   action=check answers what the runtime gave it. *)
Respond(c) ==
  LET batch == answer[c].batch
      own   == IF op[c] = "await" THEN Own(c, batch) ELSE {}
      done  == {d \in Dispatches : <<"worker_done", d>> \in own}
  IN  /\ pc[c] = "answered"
      /\ End(c)
      /\ token' = [token EXCEPT ![c] = answer[c]]
      /\ row' = [d \in Dispatches |-> RowAfter(own, d)]
      /\ \E d \in IF done = {} THEN {NoDispatch} ELSE done : hint' = [hint EXCEPT ![c] = d]
      /\ seen' = seen \cup {m \in IF op[c] = "await" THEN own ELSE batch : ownerOf[m[2]] = c}
      /\ missed' = missed \cup {m \in IF op[c] = "await" THEN batch \ own ELSE {} :
                                  ownerOf[m[2]] = c}
      /\ UNCHANGED <<runtimeVars, bound, disturbances, reported, taken>>

(* An error is answered; the client keeps its deliveryId. *)
RespondError(c) ==
  /\ pc[c] = "failed"
  /\ End(c)
  /\ UNCHANGED <<runtimeVars, bound, row, clientVars, disturbances, histories>>

(* The client is gone, or the CLI call fails or is killed: whatever was done at
   the runtime stays done, the answer is lost. *)
Lose(c) ==
  /\ pc[c] \notin {"idle", "dispatching"}
  /\ Disturb
  /\ End(c)
  /\ UNCHANGED <<runtimeVars, bound, row, clientVars, histories>>

(* The bridge restarts: runs count as not bound, the rows are the persisted ones,
   or none if the ownership file is rejected (module DispatchOwnership). *)
Restart ==
  /\ Disturb
  /\ pc' = [c \in Clients |-> "idle"] /\ op' = [c \in Clients |-> "await"]
  /\ ack' = [c \in Clients |-> "none"] /\ answer' = [c \in Clients |-> NoToken]
  /\ bound' = {}
  /\ \E restored \in BOOLEAN :
       row' = [d \in Dispatches |-> IF row[d] = "none" THEN "none"
                                    ELSE IF row[d] \in Listed /\ restored THEN "running"
                                    ELSE "lost"]
  /\ UNCHANGED <<runtimeVars, clientVars, histories>>

-----------------------------------------------------------------------------

AwaitStep(c) ==
  \/ BindRun(c) \/ Fenced(c) \/ StaleAck(c) \/ Consume(c) \/ Deliver(c) \/ TimesOut(c)
  \/ Respond(c) \/ RespondError(c)

Next ==
  \/ \E c \in Clients : AwaitStep(c) \/ BindFails(c) \/ Lose(c)
  \/ \E c \in Clients, d \in Dispatches : 
       Place(c, d) \/ Register(c, d) \/ AbortDispatch(c, d) \/ DispatchFails(c, d)
  \/ \E d \in Dispatches : LateEnd(d)
  \/ \E c \in Clients, o \in {"await", "check"}, k \in {"none", "delivery", "message"} :
       Ask(c, o, k)
  \/ \E m \in Reports : WorkerReports(m)
  \/ Restart

Spec == Init /\ [][Next]_vars

(* The bridge goes on with a request, a dispatch ends, and a keeper asks again and
   acknowledges what it was answered ("loop await ... ack",
   lib/coordinator-doctrine.mjs). *)
Fairness ==
  /\ \A c \in Clients : WF_vars(AwaitStep(c))
  /\ \A c \in Clients : WF_vars(\E d \in Dispatches : Register(c, d))
  /\ \A c \in Keepers : WF_vars(\E k \in {"none", "delivery"} : Ask(c, "await", k))
  /\ \A c \in Keepers : SF_vars(Ask(c, "await", "delivery"))

FairSpec == Spec /\ Fairness

-----------------------------------------------------------------------------

(* Every variable stays in its type. *)
TypeOK ==
  /\ queue \subseteq Reports /\ out \subseteq queue
  /\ consumer \subseteq Clients /\ bound \subseteq Clients
  /\ row \in [Dispatches -> {"none", "placed", "adrift", "lost"} \cup Listed]
  /\ pc \in [Clients -> {"idle", "dispatching", "binding", "rebinding", "answered", "failed"}
                        \cup Checking]
  /\ op \in [Clients -> {"await", "check"}]
  /\ ack \in [Clients -> {"none", "delivery", "void", "message", "dropped"}]
  /\ answer \in [Clients -> Deliveries] /\ token \in [Clients -> Deliveries]
  /\ hint \in [Clients -> Dispatches \cup {NoDispatch}]
  /\ disturbances \in 0..MaxDisturbances
  /\ reported \subseteq Reports /\ seen \subseteq Reports /\ taken \subseteq Reports
  /\ missed \subseteq Reports

(* "next.action never targets another coordinator's worker": a hint to release is
   about a dispatch of the client that reported worker_done to it (partitionMailbox,
   nextStepForAwait). *)
ReleaseHintIsOwn ==
  \A c \in Clients : hint[c] # NoDispatch =>
    ownerOf[hint[c]] = c /\ <<"worker_done", hint[c]>> \in seen

(* An ack that is answered with ok has consumed its delivery, or repeats one that did
   and whose answer was lost, unless run-use had made the delivery void when the
   ack was sent (planAwaitBindAndAck, decideStaleAckAction). *)
AckedLeavesMailbox ==
  [][\A c \in Clients :
       Respond(c) /\ ack[c] = "delivery" => token[c].batch \cap queue = {}]_vars

(* The same of every ack that is answered with ok. *)
AckIsFinal ==
  [][\A c \in Clients :
       Respond(c) /\ ack[c] \in {"delivery", "void"} => token[c].batch \cap queue = {}]_vars

(* No report leaves the mailbox before the owner of its dispatch was answered it,
   as its own or, while the dispatch was in no row, as foreign, unless another
   client acknowledged it (awaitDispatch, partitionMailbox). *)
ReportsAreNotLost == reported \ queue \subseteq seen \cup taken \cup missed

(* Await, with all its fences, repeated acks and lost answers, is an inbox that
   tells every report at least once (module ReportLedger): a client's ack settles
   only what the client was answered, and nothing settled comes back.  A report is
   answered to its owner as foreign only while its dispatch is in no row: after a
   failed dispatch, after a restart, or before a late bind (awaitDispatch,
   partitionMailbox, decideStaleAckAction, runWithAbortSignal). *)
Ledger == INSTANCE ReportLedger WITH
  inbox <- queue, arrived <- reported, told <- seen,
  listed <- {d \in Dispatches : row[d] \in Listed}
IsReportLedger == Ledger!LedgerSpec

(* Once nothing disturbs them any more, keepers are answered every report of their
   workers that nobody else acknowledges: fences, void acks, lost answers and
   aborted dispatches are got over. *)
ReportReachesOwner ==
  \A m \in Reports :
    m \in queue /\ ownerOf[m[2]] \in Keepers
      ~> m \in seen \cup taken \cup missed
=============================================================================
