------------------------------ MODULE CommandGate ------------------------------
(***************************************************************************)
(* One action=cli request (server.mjs, callTool): the toolset gate, the      *)
(* policy under the orchestration lock, the sender tab injected, the run of  *)
(* the CLI, the redaction of its answer, and for a reply to a worker the     *)
(* second route into the mailbox of its dispatch.                            *)
(*                                                                         *)
(* Between two steps of a request the tables go on changing: dispatches are  *)
(* bound and released, runs bound, pins made and lost by other requests (see *)
(* DispatchOwnership, SenderPins).  The CLI and the runtime are external.    *)
(***************************************************************************)
EXTENDS CliPolicy

CONSTANTS
  Callers,       (* the clients that send action=cli                         *)
  Argvs,         (* what they send                                           *)
  Settings,      (* the settings a bridge is started with                    *)
  tabOwner,      (* the client a coordinator tab is made for                 *)
  writerOf,      (* the dispatch whose worker writes a message               *)
  MaxChanges     (* bound on the changes of the tables and the messages     *)

ASSUME GateAssumption ==
  /\ Callers \subseteq Clients
  /\ Argvs \subseteq [cmd : STRING, spelled : Spellings,
                    pairs : SUBSET ((FlagTable \cup {"bogus"}) \X Values)]
  /\ \A s \in Settings : s.readOnly \in BOOLEAN /\ s.cliAdmin \in BOOLEAN
  /\ tabOwner \in [Tabs -> Clients]
  /\ writerOf \in [Messages -> Dispatches]
  /\ \A d, e \in Dispatches : terminalOf[d] = terminalOf[e] => d = e
  /\ MaxChanges \in Nat

VARIABLES
  settings,   (* CLI_POLICY and TOOLSET_GATE, fixed at the start             *)
  tables,     (* the ownership tables of the bridge                          *)
  runsUsed,   (* history: the runs a client has bound                        *)
  posted,     (* what a worker wrote, if it did                              *)
  pc, argv,   (* where a request stands, and what it asks                    *)
  sender,     (* the tab its command is sent from                            *)
  original,   (* the message its reply answers, once looked up               *)
  answer,     (* what it is answered                                         *)
  shown,      (* the nodes of the answer shown with their content            *)
  ran,        (* history: the argv its command was run with                  *)
  sent,       (* history: <<route, dispatch>> of its reply, by mailbox       *)
  gone,       (* clients that have left: the calls of their requests fail    *)
  changes     (* changes of the tables so far                                *)

worldVars   == <<settings, tables, runsUsed, posted, changes>>
replyVars   == <<original, sent>>
requestVars == <<pc, argv, sender, answer, shown, ran, replyVars, gone>>
vars == <<worldVars, requestVars>>

Notes  == {"none", "escalation", "bare escalation", "question"}
Nobody == [c \in Clients |-> NoValue]
NoArgv == [cmd |-> "none", spelled |-> "literal", pairs |-> {}]
Answered(code, detail) == [code |-> code, detail |-> detail, route |-> "none"]

Init ==
  /\ settings \in Settings
  /\ tables = [rows |-> {}, cleared |-> {}, partial |-> {}, pin |-> Nobody,
               boundSender |-> Nobody, boundRun |-> Nobody, coordinators |-> {}]
  /\ runsUsed = [c \in Clients |-> {}]
  /\ posted = [m \in Messages |-> "none"]
  /\ pc = [c \in Clients |-> "idle"]
  /\ argv = [c \in Clients |-> NoArgv]
  /\ sender = Nobody
  /\ original = Nobody
  /\ answer = [c \in Clients |-> Answered("none", "none")]
  /\ shown = [c \in Clients |-> {}]
  /\ ran = [c \in Clients |-> NoArgv]
  /\ sent = [c \in Clients |-> {}]
  /\ gone = {}
  /\ changes = 0

-----------------------------------------------------------------------------
(* The tables change under a request.  A request whose first word is "orchestration"
   to the letter holds the lock of its client: dispatch, await, check and release of
   the client wait for it.  Any other spelling runs without it (needsOrchLock). *)

Orchestration == FromCommands \cup MailboxCommands \cup DispatchCommands \cup ListCommands
Locks(a)   == a.cmd \in Orchestration /\ a.spelled \in {"literal", "folded", "split"}
Holding(c) == pc[c] \notin {"idle", "over"} /\ Locks(argv[c])

Change(t) ==
  /\ changes < MaxChanges
  /\ changes' = changes + 1
  /\ tables' = t
  /\ UNCHANGED <<settings, posted, requestVars>>

(* bindOwnedDispatch: a row and the registry of the client; without an id from
   the runtime, its run, task and terminal only. *)
Bind(d) ==
  /\ ~Holding(dispatcherOf[d]) /\ d \notin tables.rows \cup tables.partial
  /\ Change([tables EXCEPT !.rows = @ \cup {d}])
  /\ UNCHANGED runsUsed

BindWithoutId(d) ==
  /\ ~Holding(dispatcherOf[d]) /\ d \notin tables.rows \cup tables.partial
  /\ Change([tables EXCEPT !.partial = @ \cup {d}])
  /\ UNCHANGED runsUsed

(* A release clears the terminal of the row. *)
ClearRow(d) ==
  /\ ~Holding(dispatcherOf[d]) /\ d \in tables.rows \ tables.cleared
  /\ Change([tables EXCEPT !.cleared = @ \cup {d}])
  /\ UNCHANGED runsUsed

(* markRunBound, after a run-use by dispatch, await or check. *)
BindRun(c, r) ==
  /\ ~Holding(c) /\ tables.pin[c] # NoValue
  /\ Change([tables EXCEPT !.boundRun[c] = r, !.boundSender[c] = tables.pin[c]])
  /\ runsUsed' = [runsUsed EXCEPT ![c] = @ \cup {r}]

(* A new tab for a client without a pin; a failed revalidation forgets one.
   A bug the code could have: the tab is pinned and not remembered. *)
PinnedUnremembered(t, c, h) == [t EXCEPT !.pin[c] = h]
Pinned(t, c, h) == [t EXCEPT !.pin[c] = h, !.coordinators = @ \cup {h}]
MakeTab(c, h) ==
  /\ ~Holding(c) /\ tables.pin[c] = NoValue
  /\ h \notin tables.coordinators /\ tabOwner[h] = c
  /\ Change(Pinned(tables, c, h))
  /\ UNCHANGED runsUsed

LosePin(c) ==
  /\ ~Holding(c) /\ tables.pin[c] # NoValue
  /\ Change([tables EXCEPT !.pin[c] = NoValue])
  /\ UNCHANGED runsUsed

(* A worker writes to its coordinator, one that sends commands (nobody else could
   reply); an escalation may lack the dispatch id. *)
Post(m) ==
  /\ posted[m] = "none" /\ writerOf[m] \in tables.rows
  /\ dispatcherOf[writerOf[m]] \in Callers
  /\ changes < MaxChanges
  /\ changes' = changes + 1
  /\ \E note \in Notes \ {"none"} : posted' = [posted EXCEPT ![m] = note]
  /\ UNCHANGED <<settings, tables, runsUsed, requestVars>>

World ==
  \/ \E d \in Dispatches : Bind(d) \/ BindWithoutId(d) \/ ClearRow(d)
  \/ \E c \in Clients : LosePin(c) \/ (\E r \in Runs : BindRun(c, r))
                                   \/ (\E h \in Tabs : MakeTab(c, h))
  \/ \E m \in Messages : Post(m)

-----------------------------------------------------------------------------
(* A request. *)

(* withSender and injectSenderArgv compare both words to the letter: in another
   spelling a command that passed the policy is run as the caller wrote it. *)
NeedsSender(a) == a.spelled = "literal" /\ a.cmd \in FromCommands \cup MailboxCommands

(* injectSenderArgv: the caller's own --from or --terminal gives way to the pin. *)
Inject(a, h) ==
  LET Put(flag) == [a EXCEPT !.pairs = {p \in @ : p[1] # flag} \cup {<<flag, h>>}]
  IN  CASE NeedsSender(a) /\ a.cmd \in FromCommands -> Put("from")
        [] NeedsSender(a) /\ a.cmd \in MailboxCommands -> Put("terminal")
        [] OTHER -> a

Goto(c, stage) == pc' = [pc EXCEPT ![c] = stage]
Answer(c, result) == Goto(c, "over") /\ answer' = [answer EXCEPT ![c] = result]

(* callTool: the toolset is asked before the lock is waited for. *)
Submit(c, a) ==
  /\ pc[c] = "idle"
  /\ argv' = [argv EXCEPT ![c] = a]
  /\ \/ ToolsetAllows(settings, a) /\ Goto(c, "locked") /\ UNCHANGED answer
     \/ ~ToolsetAllows(settings, a) /\ Answer(c, Answered("toolset_denied", "none"))
  /\ UNCHANGED <<worldVars, sender, shown, ran, replyVars, gone>>

Decide(c) ==
  /\ pc[c] = "locked"
  /\ LET decision == Evaluate(tables, settings, c, argv[c])
     IN  \/ ~decision.ok /\ Answer(c, Answered(decision.code, decision.detail))
         \/ /\ decision.ok
            /\ Goto(c, IF NeedsSender(argv[c]) THEN "resolving" ELSE "spawning")
            /\ UNCHANGED answer
  /\ UNCHANGED <<worldVars, argv, sender, shown, ran, replyVars, gone>>

(* A bug the code could have: a tab is waited for. *)
ResolveInsists(c) ==
  /\ pc[c] = "resolving"
  /\ \E h \in {x \in Tabs : tabOwner[x] = c} :
       /\ h = tables.pin[c] \/ (h \notin tables.coordinators /\ c \notin gone)
       /\ tables' = Pinned(tables, c, h)
       /\ sender' = [sender EXCEPT ![c] = h]
  /\ Goto(c, "spawning")
  /\ UNCHANGED <<settings, runsUsed, posted, changes, argv, answer, shown, ran, replyVars, gone>>

(* withSender: the tab pinned for the client, a new one, or none at all. *)
Resolve(c) ==
  /\ pc[c] = "resolving"
  /\ \/ /\ tables.pin[c] # NoValue
        /\ sender' = [sender EXCEPT ![c] = tables.pin[c]]
        /\ Goto(c, "spawning") /\ UNCHANGED <<tables, answer>>
     \/ \E h \in Tabs \ tables.coordinators :
          /\ tabOwner[h] = c /\ c \notin gone
          /\ tables' = Pinned(tables, c, h)
          /\ sender' = [sender EXCEPT ![c] = h]
          /\ Goto(c, "spawning") /\ UNCHANGED answer
     \/ /\ tables' = [tables EXCEPT !.pin[c] = NoValue]
        /\ Answer(c, Answered("no_sender_terminal", "none")) /\ UNCHANGED sender
  /\ UNCHANGED <<settings, runsUsed, posted, changes, argv, shown, ran, replyVars, gone>>

Spawn(c) ==
  /\ pc[c] = "spawning"
  /\ ran' = [ran EXCEPT ![c] = Inject(argv[c], sender[c])]
  /\ Goto(c, "running")
  /\ UNCHANGED <<worldVars, argv, sender, answer, shown, replyVars, gone>>

IsReply(a) == a.cmd = "orchestration reply"
FollowedUp(a) == IsReply(a) /\ a.spelled \in {"literal", "folded"}
RepliedTo(a) == {m \in Messages : <<"id", m>> \in a.pairs}

(* The CLI answers and the content of others is taken out of its answer.  A reply
   goes to the writer's terminal, the answer of a question to the mailbox of its
   dispatch; one from the pinned tab is taken for the caller's own workers only.
   Whether it was a question is read off the redacted result: without a handle it is
   a node that nobody owns (applyCliOwnershipRedaction, then
   dualRouteNonQuestionReply up to its first call).  The follow-up is asked for by
   the first word to the letter and the second in any case. *)
Show(c) ==
  \E walkable \in BOOLEAN :
    shown' = [shown EXCEPT ![c] = Redact(OwnedHandles(tables, c), Nodes, walkable)]
LeftOf(result) == {k \in result : KeepsUnowned(k)}
Ok(route) == [Answered("ok", "none") EXCEPT !.route = route]

Fail(c) ==
  /\ pc[c] = "running"
  /\ Answer(c, Answered("failed", "none"))
  /\ UNCHANGED <<worldVars, argv, sender, shown, ran, replyVars, gone>>

Return(c) ==
  /\ pc[c] = "running" /\ ~IsReply(argv[c]) /\ c \notin gone
  /\ Show(c)
  /\ Answer(c, Ok("none"))
  /\ UNCHANGED <<worldVars, argv, sender, ran, replyVars, gone>>

ReturnReply(c) ==
  /\ pc[c] = "running" /\ IsReply(argv[c]) /\ c \notin gone
  /\ Show(c)
  /\ \E m \in RepliedTo(argv[c]) :
       LET asked == posted[m] = "question"
           keys  == LeftOf(IF asked THEN ReplyKeys ELSE {"message"})
       IN  /\ posted[m] # "none"
           /\ NeedsSender(argv[c]) => dispatcherOf[writerOf[m]] = c
           /\ sent' = [sent EXCEPT ![c] = IF asked THEN {<<"native", writerOf[m]>>} ELSE {}]
           /\ IF ~FollowedUp(argv[c]) THEN Answer(c, Ok("none"))
              ELSE IF "question" \in keys THEN Answer(c, Ok("question_answer"))
              ELSE Goto(c, "lookup") /\ UNCHANGED answer
  /\ UNCHANGED <<worldVars, argv, sender, ran, original, gone>>

(* The inbox of the client has the message, or it is not among the last hundred. *)
Lookup(c) ==
  /\ pc[c] = "lookup"
  /\ \/ c \notin gone /\ \E m \in RepliedTo(argv[c]) : original' = [original EXCEPT ![c] = m]
     \/ UNCHANGED original
  /\ Goto(c, "routing")
  /\ UNCHANGED <<worldVars, argv, sender, answer, shown, ran, sent, gone>>

(* A bug the code could have: any worker listed will do. *)
WorkerAnyListed(m, listed) ==
  IF posted[m] \in {"escalation", "question"} THEN {writerOf[m]} ELSE listed

(* resolveWorkerDispatchId: the id on the message, else the worker of its terminal;
   listed is what worker-list answers. *)
WorkerAddressed(m, listed) ==
  IF posted[m] \in {"escalation", "question"} THEN {writerOf[m]}
  ELSE {d \in listed : terminalOf[d] = terminalOf[writerOf[m]]}

Route(c) ==
  /\ pc[c] = "routing"
  /\ \E listed \in {{}, IF c \in gone THEN {} ELSE tables.rows} :
       LET found == IF original[c] = NoValue THEN {} ELSE WorkerAddressed(original[c], listed)
       IN  \/ /\ found = {}
              /\ Answer(c, Ok("dispatch_id_unresolved"))
              /\ UNCHANGED sent
           \/ \E d \in found :
                /\ c \notin gone
                /\ Answer(c, Ok("dual_routed"))
                /\ sent' = [sent EXCEPT ![c] = @ \cup {<<"followup", d>>}]
           \/ /\ found # {}
              /\ Answer(c, Ok("not_routed"))
              /\ UNCHANGED sent
  /\ UNCHANGED <<worldVars, argv, sender, shown, ran, original, gone>>

(* The caller leaves while a call is out: the calls of its request fail from then on. *)
Leave(c) ==
  /\ pc[c] \in {"resolving", "running", "lookup", "routing"} /\ c \notin gone
  /\ gone' = gone \cup {c}
  /\ UNCHANGED <<worldVars, pc, argv, sender, answer, shown, ran, replyVars>>

(* The answer is out; nothing of the request stays. *)
Finish(c) ==
  /\ pc[c] = "over"
  /\ Goto(c, "idle")
  /\ argv' = [argv EXCEPT ![c] = NoArgv]
  /\ ran' = [ran EXCEPT ![c] = NoArgv]
  /\ answer' = [answer EXCEPT ![c] = Answered("none", "none")]
  /\ sender' = [sender EXCEPT ![c] = NoValue]
  /\ original' = [original EXCEPT ![c] = NoValue]
  /\ shown' = [shown EXCEPT ![c] = {}]
  /\ sent' = [sent EXCEPT ![c] = {}]
  /\ gone' = gone \ {c}
  /\ UNCHANGED worldVars

RequestStep(c) == Decide(c) \/ Resolve(c) \/ Spawn(c) \/ Fail(c) \/ Return(c)
                    \/ ReturnReply(c) \/ Lookup(c) \/ Route(c) \/ Finish(c)

Next ==
  \/ World
  \/ \E c \in Callers : (\E a \in Argvs : Submit(c, a)) \/ RequestStep(c) \/ Leave(c)

Spec     == Init /\ [][Next]_vars
FairSpec == Spec /\ \A c \in Callers : WF_vars(RequestStep(c))

-----------------------------------------------------------------------------
(* Properties. *)

(* The variables keep their types, senders are tabs, and a command spelled as in the
   specifications that needs a sender has one when it runs (withSender). *)
TypeOK ==
  /\ settings \in Settings
  /\ tables.rows \subseteq Dispatches /\ tables.partial \subseteq Dispatches \ tables.rows
  /\ tables.cleared \subseteq tables.rows
  /\ tables.pin \in [Clients -> Tabs \cup {NoValue}]
  /\ tables.boundSender \in [Clients -> Tabs \cup {NoValue}]
  /\ tables.boundRun \in [Clients -> Runs \cup {NoValue}]
  /\ tables.coordinators \subseteq Tabs
  /\ \A c \in Clients : tables.pin[c] # NoValue => tables.pin[c] \in tables.coordinators
  /\ runsUsed \in [Clients -> SUBSET Runs]
  /\ posted \in [Messages -> Notes]
  /\ argv \in [Clients -> Argvs \cup {NoArgv}]
  /\ sender \in [Clients -> Tabs \cup {NoValue}]
  /\ \A c \in Clients :
       NeedsSender(argv[c]) /\ pc[c] \in {"spawning", "running"} => sender[c] # NoValue

(* Every object a client has ever been given: its tabs, what it dispatched, and the
   runs it has used. *)
Given(c) ==
  {h \in tables.coordinators : tabOwner[h] = c}
    \cup (UNION {{terminalOf[d], taskOf[d], runOf[d]} : d \in PlacedOf(tables, c)})
    \cup (UNION {{d, worktreeOf[d]} : d \in RowsOf(tables, c)})
    \cup runsUsed[c]

(* The objects a command runs on: its targets, its sender if the bridge puts it in,
   a path it opens.  In another spelling the --from is the caller's own words: it is
   no target to the policy, and nothing replaces it. *)
TouchedBy(a) ==
  Objects \cap ValuesOf(a, TargetFlags
                             \cup (IF NeedsSender(a) /\ a.cmd \in FromCommands
                                   THEN {"from"} ELSE {})
                             \cup (IF a.cmd = "file open" THEN {"path"} ELSE {}))

Stage(c) == CASE pc[c] = "idle" -> "idle"
              [] pc[c] \in {"locked", "resolving", "spawning"} -> "asked"
              [] OTHER -> "over"

(* The gate is a reference monitor: every object a command is run on had been given
   to its caller, whatever flags it was named by, however it was spelled, and however
   the tables moved between the decision and the run (evaluateCliArgv, withSender,
   cli-policy.mjs 1602).  The one exception is the --from of a command that withSender
   does not recognise: see TouchedBy. *)
Monitor == INSTANCE ReferenceMonitor
             WITH Clients <- Clients, Objects <- Objects,
                  may <- [c \in Clients |-> Given(c)],
                  stage <- [c \in Clients |-> Stage(c)],
                  touched <- [c \in Clients |-> TouchedBy(ran[c])]
IsReferenceMonitor == Monitor!MonitorSpec

(* The tables as a client alone would have them. *)
OwnPart(t, c) ==
  LET Mine(f) == [x \in Clients |-> IF x = c THEN f[x] ELSE NoValue]
  IN  [rows |-> RowsOf(t, c), cleared |-> t.cleared,
       partial |-> {d \in t.partial : dispatcherOf[d] = c},
       pin |-> Mine(t.pin), boundSender |-> Mine(t.boundSender),
       boundRun |-> Mine(t.boundRun), coordinators |-> {}]

(* Nobody can find out what others have: every decision is the one the caller would
   get if the bridge had no other client (denyOwnership, cli-policy.mjs 1709). *)
OthersAreInvisible ==
  [][\A c \in Callers :
       pc[c] = "locked" /\ pc'[c] # "locked" =>
         LET alone == Evaluate(OwnPart(tables, c), settings, c, argv[c])
         IN  IF alone.ok THEN pc'[c] # "over"
             ELSE answer'[c] = Answered(alone.code, alone.detail)]_<<pc, answer>>

(* What each flag is for when it is used right; a parent worktree is no scope of a list. *)
Fits(c, p) ==
  LET mine == RowsOf(tables, c)
  IN  CASE p[1] \in {"terminal", "to"} ->
             p[2] \in {terminalOf[d] : d \in mine} \cup ({tables.pin[c]} \ {NoValue})
        [] p[1] \in {"dispatch", "retry-of"} -> p[2] \in mine
        [] p[1] \in {"task", "parent"} -> p[2] \in {taskOf[d] : d \in mine}
        [] p[1] = "run" -> p[2] \in {runOf[d] : d \in mine}
        [] p[1] = "worktree" -> p[2] \in {worktreeOf[d] : d \in mine}
        [] p[1] = "parent-worktree" ->
             p[2] \in {worktreeOf[d] : d \in mine} /\ argv[c].cmd \notin ListCommands
        [] p[1] = "id" -> p[2] \in {runOf[d] : d \in mine}
        [] OTHER -> p[1] \in {"limit", "from", "peek", "agent"}

(* A client is never refused its own workers: a command whose targets are all of a
   row it has is not told it does not own them, a row whose terminal a release has
   cleared included (collectTerminalHandleSets, state-ownership.mjs 397). A list
   whose only scope is a --parent-worktree is left out: it is refused as unscoped,
   whoever owns the worktree (cli-policy.mjs 1971). *)
OwnersAreServed ==
  [][\A c \in Callers :
       /\ pc[c] = "locked" /\ pc'[c] # "locked"
       /\ \E p \in argv[c].pairs : p[1] \in TargetFlags
       /\ \A p \in argv[c].pairs : Fits(c, p)
       /\ ImpliedTargets(argv[c]) = {}
       => answer'[c].code # "handle_not_owned"]_<<pc, answer>>

(* Content of a terminal is shown to a client that has been given the terminal, and
   of a node without one to who has been given the terminal around it
   (redactOwnershipContent, state-ownership.mjs 1860). *)
ContentStaysWithOwner ==
  \A c \in Callers, n \in Nodes :
    n \in shown[c] => (IF n.handle = NoValue THEN n.around ELSE n.handle) \in Given(c)

(* A reply goes to the mailbox of the worker that wrote the message and to no other,
   and only a reply that went there is answered dual_routed (server.mjs 1010). *)
RepliesReachTheirWorker ==
  \A c \in Callers :
    LET writers == {writerOf[m] : m \in RepliedTo(argv[c])}
    IN  /\ \A s \in sent[c] : s[2] \in writers
        /\ answer[c].route = "dual_routed" => \E d \in writers : <<"followup", d>> \in sent[c]

(* Every request is answered, whatever fails and whoever leaves. *)
RequestsAreAnswered == \A c \in Callers : pc[c] = "locked" ~> pc[c] = "over"
=============================================================================
