----------------------------- MODULE WorkerVerdicts -----------------------------
(***************************************************************************)
(* What an await makes of its window: the summary and the next step        *)
(* (lib/await-summary.mjs), the liveness of a worker that says nothing     *)
(* (lib/runtime-guard.mjs), and the registry rows of the client's workers  *)
(* (awaitDispatch in server.mjs, createDispatchRegistry in lib/audit.mjs). *)
(*                                                                         *)
(* The rows of two coordinators have nothing in common, so the module      *)
(* follows one; the others share the run, send it their workers' messages  *)
(* and take its.  What it shows of module AwaitMailbox is that a window    *)
(* gets everything in the mailbox, and the same again until it is          *)
(* acknowledged or the delivery is void.                                   *)
(* Requests of one client are serialised (module OrchLock).  Time is       *)
(* counted in units of its own, ages and counters as far as the thresholds *)
(* tell them apart.                                                        *)
(***************************************************************************)
EXTENDS Naturals, FiniteSets, Sequences

CONSTANTS
  Dispatches,              (* the dispatches the client makes                *)
  Foreign,                 (* those of the other coordinators of the run      *)
  NoDispatch,
  Undated,                 (* dispatches with a terminal that does not tell   *)
                           (* the time of its last output                     *)
  Letters,                 (* what the workers may send                      *)
  MaxSent,                 (* bound on how many of them they send             *)
  MaxOutputs,              (* bound on the outputs the probes find            *)
  ActiveAge, StalledAge,   (* activeMs, stalledMs                            *)
  ActiveEmptyMax, StalledEmptyMin, StalledEmptyWithQuiet

Verdicts == {"worker_done", "fake_worker_done", "rejected_worker_done"}

(* A message of a worker: its type, the dispatch it is about, where it says so
   ("field": in the message or its payload object; "string": in a payload that
   is a JSON string; "nowhere"), and of a worker_done what is to be made of it. *)
Letter == [type : {"worker_done", "question", "escalation", "status"},
           about : Dispatches \cup Foreign,
           says : {"field", "string", "nowhere"},
           verdict : Verdicts]

ASSUME VerdictsAssumption ==
  /\ Dispatches \cap Foreign = {} /\ NoDispatch \notin Dispatches \cup Foreign
  /\ Undated \subseteq Dispatches /\ Letters \subseteq Letter
  /\ MaxSent \in Nat /\ MaxOutputs \in Nat
  /\ ActiveAge \in Nat /\ StalledAge \in Nat /\ ActiveAge < StalledAge
  /\ ActiveEmptyMax \in Nat /\ StalledEmptyWithQuiet \in Nat
  /\ StalledEmptyMin \in Nat /\ ActiveEmptyMax < StalledEmptyMin
  /\ StalledEmptyWithQuiet < StalledEmptyMin

VARIABLES
  mail,      (* runtime: the messages of the run, in order                    *)
  out,       (* runtime: how many of them are in the delivery that is out     *)
  sent,      (* history: the messages the workers have sent                  *)
  outputs,   (* outputs the probes have found so far                         *)
  shows,     (* terminals: the undated screens with the look of work           *)
             (* (looksWorking)                                                *)
  row,       (* registry: status, empty windows, age of the last activity      *)
  newer,     (* registry: pairs of rows, the first updated after the second    *)
             (* (updatedAt, in milliseconds)                                  *)
  next       (* the next step the client was told last                        *)

terminals == <<outputs, shows>>
registry  == <<row, newer>>
mailbox   == <<mail, out>>
vars == <<mailbox, sent, terminals, registry, next>>

Statuses == {"none", "running", "released", "question", "escalation", "status"} \cup Verdicts
Actions  == {"none", "await", "diagnose", "release", "diagnose_fake_worker_done",
             "diagnose_rejected_worker_done", "reply_then_await", "reply_then_ack",
             "process_messages"}

Step(action, d) == [action |-> action, dispatch |-> d]
Heard(status)   == [status |-> status, empties |-> 0, quiet |-> 0]

Init ==
  /\ mail = <<>> /\ out = 0 /\ sent = {} /\ outputs = 0 /\ shows = {}
  /\ row = [d \in Dispatches |-> Heard("none")] /\ newer = {}
  /\ next = Step("none", NoDispatch)

Lesser(i, j) == IF i < j THEN i ELSE j

(* clientOwnership: a dispatch stays the client's when it is released. *)
Owned == {d \in Dispatches : row[d].status # "none"}

(* A bug the update of a row could have: what was updated after it stays so. *)
TouchKeeping(ds) == newer \cup (ds \X (Owned \ ds))

(* updatedAt: the other rows of the client are older. Rows updated in one pass
   have the same time, or times a millisecond apart: either of them may come first. *)
Touch(ds) == {p \in newer : p[1] \notin ds /\ p[2] \notin ds} \cup (ds \X (Owned \ ds))

-----------------------------------------------------------------------------
(* The workers and their coordinators. *)

(* dispatchWorker uses the run anew, which voids the delivery that is out, and
   binds the dispatch (bindOwnedDispatch). *)
Bind(d) ==
  /\ row[d].status = "none"
  /\ out' = 0
  /\ row' = [row EXCEPT ![d] = Heard("running")]
  /\ newer' = Touch({d})
  /\ UNCHANGED <<mail, sent, terminals, next>>

(* The row of a worker that was released (module WorkerCaps) is only marked. *)
Release(d) ==
  /\ row[d].status \notin {"none", "released"}
  /\ row' = [row EXCEPT ![d].status = "released"]
  /\ newer' = Touch({d})
  /\ UNCHANGED <<mailbox, sent, terminals, next>>

Send(m) ==
  /\ m \in Letters \ sent /\ Cardinality(sent) < MaxSent
  /\ m.about \in Dispatches => row[m.about].status \notin {"none", "released"}
  /\ mail' = Append(mail, m) /\ sent' = sent \cup {m}
  /\ UNCHANGED <<out, terminals, registry, next>>

Without(n) == SubSeq(mail, n + 1, Len(mail))

(* Another coordinator uses the run, and acknowledges a delivery it got. *)
OthersTakeRun(n) ==
  /\ out > 0 \/ n > 0
  /\ out' = 0 /\ mail' = Without(n)
  /\ UNCHANGED <<sent, terminals, registry, next>>

Tick ==
  /\ row' = [d \in Dispatches |-> IF d \in Owned
                THEN [row[d] EXCEPT !.quiet = Lesser(@ + 1, StalledAge)] ELSE row[d]]
  /\ row' # row
  /\ UNCHANGED <<mailbox, sent, terminals, newer, next>>

-----------------------------------------------------------------------------
(* The summary of a window. *)

(* partitionMailbox, and the rows, take the id from the message or from an object;
   summarizeMessages also from a string (coercePayload). *)
SeenId(m)   == IF m.says = "field" THEN m.about ELSE NoDispatch
ParsedId(m) == IF m.says = "nowhere" THEN NoDispatch ELSE m.about

(* How many messages a window gets: those of the delivery that is out, or all. *)
Batch == IF out > 0 THEN out ELSE Len(mail)

(* partitionMailbox: the positions of the own messages of the batch. *)
Own ==
  {i \in 1..Batch : Owned # {} /\ SeenId(mail[i]) \in Owned \cup {NoDispatch}}

Of(type) == {i \in Own : mail[i].type = type}

First(at) == CHOOSE i \in at : \A j \in at : i <= j
Last(at)  == CHOOSE i \in at : \A j \in at : j <= i

(* A bug summarizeMessages could have: it looks for any worker_done that passes. *)
VerdictOfBest(done) ==
  IF \E i \in done : mail[i].verdict = "worker_done"
  THEN "worker_done" ELSE mail[First(done)].verdict

(* Of the worker_done messages the first counts. *)
Verdict(done) == mail[First(done)].verdict

(* summary.status. *)
Status ==
  IF Of("worker_done") # {} THEN Verdict(Of("worker_done"))
  ELSE IF Of("escalation") # {} THEN "escalation"
  ELSE IF Of("question") # {} THEN "question"
  ELSE "messages"

(* summary.worker_done.dispatchId, dropped if it is not the client's. *)
DoneId ==
  IF Of("worker_done") # {} /\ ParsedId(mail[First(Of("worker_done"))]) \in Owned
  THEN ParsedId(mail[First(Of("worker_done"))]) ELSE NoDispatch

(* nextStepForAwait of a window with messages. *)
StepFor(status, d) ==
  CASE status = "worker_done"          -> Step("release", d)
    [] status = "fake_worker_done"     -> Step("diagnose_fake_worker_done", NoDispatch)
    [] status = "rejected_worker_done" -> Step("diagnose_rejected_worker_done", d)
    [] status = "question"             -> Step("reply_then_await", NoDispatch)
    [] status = "escalation"           -> Step("reply_then_ack", NoDispatch)
    [] status = "messages"             -> Step("process_messages", NoDispatch)

-----------------------------------------------------------------------------
(* The rows after a window with messages. *)

(* A bug the update of the rows could have: a message that does not say which
   dispatch it is about goes to the worker that is being watched. *)
PutToLatest(m) ==
  IF SeenId(m) # NoDispatch THEN SeenId(m)
  ELSE CHOOSE d \in Owned : \A e \in Owned : <<e, d>> \notin newer

(* A message that does not say which dispatch it is about goes to that of the
   summary, if there is one. *)
PutTo(m) == IF SeenId(m) # NoDispatch THEN SeenId(m) ELSE DoneId

(* The messages that are put down to a row, in the order of the mailbox. *)
Notes(d) == {i \in Own : PutTo(mail[i]) = d}

(* After them comes the worker the summary says is done. *)
IsDone(d) == Status = "worker_done" /\ d = DoneId

(* What a message leaves in its row. *)
Noted(m) ==
  IF m.type # "worker_done" THEN m.type
  ELSE IF Status \in Verdicts THEN Status
  ELSE "worker_done"

RowAfter(d) ==
  IF IsDone(d) THEN Heard("worker_done")
  ELSE IF Notes(d) # {} THEN Heard(Noted(mail[Last(Notes(d))]))
  ELSE row[d]

-----------------------------------------------------------------------------
(* A window without. *)

(* The entries the window may be put down to: running ones, if there are any,
   that none of the others was updated after. *)
Primaries ==
  LET running == {d \in Owned : row[d].status = "running"}
      listed  == IF running # {} THEN running ELSE Owned
  IN  {d \in listed : \A e \in listed : <<e, d>> \notin newer}

(* The probe of the terminal fails; or it sees output of some age, which leaves a
   count of turns or of tool calls on the screen; or nothing new. *)
Probe(d, seen) ==
  \/ seen \in {{}, {StalledAge}} /\ UNCHANGED terminals
  \/ /\ \E age \in seen : age < row[d].quiet
     /\ outputs < MaxOutputs /\ outputs' = outputs + 1
     /\ shows' = shows \cup ({d} \cap Undated)

(* A bug the window could have: every probe that succeeds is activity. *)
QuietAfterAnyProbe(d, seen) == IF seen = {} THEN row[d].quiet ELSE 0

(* pickLastActivityAt: the row's last activity, or the last output the probe has
   seen. A terminal that does not tell its time counts as active now if it has the
   look of work. *)
QuietAfter(d, seen) ==
  IF d \in Undated
  THEN IF seen # {} /\ d \in shows' THEN 0 ELSE row[d].quiet
  ELSE IF \E age \in seen : age < row[d].quiet THEN CHOOSE age \in seen : TRUE
  ELSE row[d].quiet

(* computeLiveness of a row, which has a dispatch and a last activity. *)
Liveness(quiet, empties) ==
  IF quiet <= ActiveAge THEN "active"
  ELSE IF \/ empties >= StalledEmptyMin
          \/ quiet >= StalledAge /\ empties >= StalledEmptyWithQuiet
       THEN "stalled"
  ELSE IF empties <= ActiveEmptyMax /\ quiet < StalledAge THEN "active"
  ELSE "idle"

-----------------------------------------------------------------------------
(* await: the client acknowledges what it is answered, or gets it again. *)

Acknowledge(acked) ==
  IF acked THEN mail' = Without(Batch) /\ out' = 0 ELSE out' = Batch /\ UNCHANGED mail

HearOwn(acked) ==
  /\ Own # {}
  /\ Acknowledge(acked)
  /\ row' = [d \in Dispatches |-> RowAfter(d)]
  /\ newer' = Touch({d \in Dispatches : IsDone(d) \/ Notes(d) # {}})
  /\ next' = StepFor(Status, DoneId)
  /\ UNCHANGED <<sent, terminals>>

(* Nothing, or foreign messages only, while there is a row to put it down to. *)
HearNothing(acked, d, seen) ==
  LET quiet   == QuietAfter(d, seen)
      empties == Lesser(row[d].empties + 1, StalledEmptyMin)
      stalled == mail = <<>> /\ Liveness(quiet, empties) = "stalled"
  IN  /\ Own = {}
      /\ Acknowledge(acked) /\ UNCHANGED sent
      /\ Probe(d, seen)
      /\ next' = Step(IF stalled THEN "diagnose" ELSE "await", NoDispatch)
      /\ row' = [row EXCEPT ![d].empties = empties, ![d].quiet = quiet]
      /\ newer' = Touch({d})

HearWithoutWorkers(acked) ==
  /\ Owned = {}
  /\ Acknowledge(acked)
  /\ next' = Step("await", NoDispatch)
  /\ UNCHANGED <<sent, terminals, registry>>

Probes == {{}} \cup {{age} : age \in 0..StalledAge}

Await(acked) ==
  \/ HearOwn(acked) \/ HearWithoutWorkers(acked)
  \/ \E d \in Primaries, seen \in Probes : HearNothing(acked, d, seen)

Next ==
  \/ \E d \in Dispatches : Bind(d) \/ Release(d)
  \/ \E m \in Letters : Send(m)
  \/ \E n \in 0..Len(mail) : OthersTakeRun(n)
  \/ Tick
  \/ \E acked \in BOOLEAN : Await(acked)

Spec == Init /\ [][Next]_vars

(* Time passes, and the client calls await again and acknowledges what it got
   ("loop await ... ack", lib/coordinator-doctrine.mjs). *)
Fairness == WF_vars(Tick) /\ WF_vars(Await(TRUE))

FairSpec == Spec /\ Fairness

-----------------------------------------------------------------------------

(* Every variable stays in its type, and the times of the client's rows are ordered. *)
TypeOK ==
  /\ mail \in Seq(sent) /\ out \in 0..Len(mail) /\ sent \subseteq Letters
  /\ outputs \in 0..MaxOutputs /\ shows \subseteq Undated
  /\ row \in [Dispatches -> [status : Statuses, empties : 0..StalledEmptyMin,
                             quiet : 0..StalledAge]]
  /\ newer \subseteq Owned \X Owned
  /\ \A d, e \in Owned : <<d, e>> \in newer => <<e, d>> \notin newer
  /\ \A d, e, f \in Owned : <<d, e>> \in newer /\ <<e, f>> \in newer => <<d, f>> \in newer
  /\ next \in [action : Actions, dispatch : Dispatches \cup {NoDispatch}]

(* The client is told to release a worker only after that worker, which is its own,
   has sent a worker_done that is neither a template nor rejected: whatever the
   batch holds besides, foreign messages among it, and in whatever payload the
   ids are ("never releases another coordinator's worker", "Do not treat as
   success"; partitionMailbox, summarizeMessages, awaitDispatch). *)
ReleaseIsEarned ==
  next.action = "release" /\ next.dispatch # NoDispatch =>
    \E m \in sent : /\ m.about = next.dispatch /\ m.type = "worker_done"
                    /\ m.verdict = "worker_done"

(* A row that says its worker is done, faked it or was rejected is that of a
   worker that has sent a worker_done: no other worker's is put down to it (the
   rows awaitDispatch updates). *)
DoneRowsHaveReported ==
  \A d \in Dispatches :
    row[d].status \in Verdicts => \E m \in sent : m.about = d /\ m.type = "worker_done"

(* "Escalate when liveness=stalled": the client is told to diagnose once its
   running workers have gone silent, foreign traffic, failed probes and restarted
   counts notwithstanding, if no terminal without the time of its last output has
   the look of work (computeLiveness, pickLastActivityAt, awaitDispatch). *)
SilenceIsTold ==
  LET running == {d \in Dispatches : row[d].status = "running"}
  IN  running # {} /\ shows = {}
        ~> next.action = "diagnose" \/ running = {} \/ shows # {}
=============================================================================
