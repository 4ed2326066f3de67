------------------------------- MODULE CliPolicy -------------------------------
(***************************************************************************)
(* What action=cli may run (lib/cli-policy.mjs, lib/state-ownership.mjs,     *)
(* lib/toolsets.mjs): the toolset of a command, the exact forms allowed, the *)
(* objects an argv names, and who owns them.  Every operator is a function   *)
(* of the argv, of the settings and of the ownership tables.                 *)
(*                                                                         *)
(* An argv is a command, how it is spelled, and a set of <<flag, value>>     *)
(* pairs: a flag given twice has two.  Positionals are promoted to flags     *)
(* before anything is decided, so they are pairs too.  Of content flags only *)
(* "limit" is kept; "bogus" is a flag that no specification of the CLI has.  *)
(***************************************************************************)
EXTENDS Naturals, FiniteSets

CONSTANTS
  Clients, Dispatches,
  Tabs, Terminals,         (* terminals of coordinators, and of workers      *)
  Tasks, Runs, Worktrees, Messages,
  NoValue,                 (* a flag without a value; an absent table entry  *)
  dispatcherOf, terminalOf, taskOf, runOf, worktreeOf  (* of a dispatch      *)

Handles == Tabs \cup Terminals
Objects == Handles \cup Dispatches \cup Tasks \cup Runs \cup Worktrees

(* Values that name none of the objects above: an id of another kind, a browser
   page, the selectors new-child and active, a group address, a plain word. *)
Words  == {"token", "page_1", "new-child", "active", "@all", "word"}
Values == Objects \cup Messages \cup Words \cup {NoValue}

ASSUME PolicyAssumption ==
  /\ dispatcherOf \in [Dispatches -> Clients]
  /\ terminalOf \in [Dispatches -> Terminals]
  /\ taskOf \in [Dispatches -> Tasks]
  /\ runOf \in [Dispatches -> Runs]
  /\ worktreeOf \in [Dispatches -> Worktrees]
  /\ NoValue \notin Objects \cup Messages \cup Words
  /\ (Messages \cup Words) \cap Objects = {}
  /\ Handles \cap Dispatches = {} /\ (Handles \cup Dispatches) \cap Tasks = {}
  /\ (Handles \cup Dispatches \cup Tasks) \cap Runs = {}
  /\ (Handles \cup Dispatches \cup Tasks \cup Runs) \cap Worktrees = {}

-----------------------------------------------------------------------------
(* The settings of the bridge: toolsets and the switch of the allowlist. *)

Tiers == {"status", "dispatch", "admin"}

(* The words of ORCA_BRIDGE_TOOLSETS: none is every tier; unknown words are ignored,
   and only unknown words are status alone. *)
Asked(words) ==
  IF words = {} THEN Tiers
  ELSE IF words \cap Tiers = {} THEN {"status"} ELSE words \cap Tiers

(* resolveToolsetsConfig: --read-only wins over the words and over
   ORCA_BRIDGE_CLI_ADMIN. *)
Enabled(s) ==
  IF s.readOnly THEN {"status"}
  ELSE Asked(s.words) \cup IF s.cliAdmin THEN {"admin"} ELSE {}

(* ORCA_BRIDGE_CLI_HARDENING: only an explicit off turns the allowlist off. *)
Hardened(s) == s.hardening # "off"

-----------------------------------------------------------------------------
(* The commands of the CLI that matter here, with their specified flags. *)

Form(cmd, tier, flags) == [cmd |-> cmd, tier |-> tier, flags |-> flags]

(* DERIVED_CLI_COMMAND_FORMS: the specifications of the doctrine's commands. *)
Forms == {
  Form("orchestration reply", "ok", {"id", "run", "from", "limit"}),
  Form("orchestration check", "ok", {"terminal", "run", "ack", "peek", "all", "limit"}),
  Form("orchestration worker-show", "ok", {"dispatch"}),
  Form("orchestration worker-read", "ok", {"dispatch", "limit"}),
  Form("orchestration dispatch-show", "ok", {"task", "limit", "from"}),
  Form("skills get", "ok", {"limit"}), Form("skills show", "ok", {"limit"}),
  Form("status", "ok", {}),
  Form("worktree show", "ok", {"worktree"}),
  Form("worktree list", "ok", {"limit"}),
  Form("terminal list", "ok", {"worktree", "limit"}),
  Form("terminal read", "ok", {"terminal", "limit"}),
  Form("terminal close", "ok", {"terminal", "limit"}),
  Form("terminal send", "admin", {"terminal", "limit"}),
  Form("terminal create", "admin", {"worktree", "limit"}),
  Form("orchestration send", "admin", {"to", "run", "from", "task-id", "dispatch-id", "limit"}),
  Form("orchestration task-create", "admin", {"parent", "run", "from", "limit"}),
  Form("orchestration dispatch", "admin", {"task", "to", "from", "run", "limit"}),
  Form("orchestration run-create", "admin", {"from", "limit"}),
  Form("orchestration run-use", "admin", {"id", "from", "limit"}),
  Form("orchestration worker-start", "admin",
       {"task", "worktree", "agent", "terminal", "retry-of", "run", "from", "limit"}),
  Form("worktree create", "admin", {"parent-worktree", "agent", "prompt", "limit"}),
  Form("worktree rm", "admin", {"worktree", "limit"}),
  Form("worktree remove", "admin", {"worktree", "limit"}) }

ListCommands   == {"orchestration run-list", "orchestration worker-list",
                   "orchestration task-list", "orchestration gate-list"}
PinScopedLists == {"orchestration task-list", "orchestration gate-list"}
HandleCommands == {"terminal read", "terminal close", "terminal send", "terminal show",
                   "terminal wait", "terminal switch", "terminal rename", "terminal split",
                   "terminal focus"}
DispatchCommands == {"orchestration worker-read", "orchestration worker-show",
                     "orchestration worker-release", "orchestration worker-stop",
                     "orchestration worker-abandon", "orchestration worker-retain"}
CreateCommands == {"worktree create", "orchestration worker-start"}

(* CLI_PREFIX_TIERS; a command on neither list is admin. *)
TierOf(cmd) ==
  CASE cmd \in {"orchestration reply", "terminal close"} -> "dispatch"
    [] cmd \in {"orchestration check", "orchestration worker-show", "orchestration worker-read",
                "orchestration dispatch-show", "skills get", "status", "worktree show",
                "worktree list", "terminal list", "terminal read"} -> "status"
    [] OTHER -> "admin"

FromCommands == {"orchestration run-create", "orchestration run-use",
                 "orchestration task-create", "orchestration dispatch",
                 "orchestration dispatch-show", "orchestration reply", "orchestration send",
                 "orchestration worker-start", "orchestration ask", "orchestration task-update",
                 "orchestration gate-create", "orchestration gate-resolve"}
MailboxCommands == {"orchestration check", "orchestration inbox"}

(* How a command is spelled: as in the specifications; with its last word, or its
   first, in another case; with a flag such as --json between its words, or before
   them.  The CLI and the forms fold case and skip flags, so it is one command. *)
Spellings == {"literal", "folded", "upper", "split", "led"}

(* commandTokens: folds case, and ends at the first flag. *)
ReadOffTokens(a) == a.spelled \in {"literal", "folded", "upper"}

-----------------------------------------------------------------------------
(* The flags: FLAG_TABLE, and the kind of object a target flag names. *)

ValueTyped   == {"to", "ack", "retry-of", "parent", "resume"}
ContentFlags == {"limit", "path", "peek", "all", "agent", "prompt"}
AdminFlags   == {"from"}
NamedFlags == [handle |-> {"terminal", "pane"}, dispatch |-> {"dispatch", "dispatch-id"},
               worktree |-> {"worktree", "workspace"}, parent_worktree |-> {"parent-worktree"},
               task |-> {"task", "task-id"}, run |-> {"run"}, id |-> {"id"},
               page |-> {"page"}]
TargetFlags == ValueTyped \cup (UNION {NamedFlags[k] : k \in DOMAIN NamedFlags})
FlagTable   == ContentFlags \cup AdminFlags \cup TargetFlags

FlagNames(a)        == {p[1] : p \in a.pairs}
ValuesOf(a, flags)  == {p[2] : p \in {q \in a.pairs : q[1] \in flags}}

(* classifyValueOwnershipKind: the kind of object a value is by its grammar. *)
KindOf(v) ==
  CASE v \in Handles -> "handle"
    [] v \in Dispatches -> "dispatch"
    [] v \in Tasks -> "task"
    [] v \in Runs -> "run"
    [] v \in Worktrees -> "worktree"
    [] v \in Messages \cup {"token"} -> "id"
    [] v = "page_1" -> "page"
    [] OTHER -> "none"

(* filterWorktreeGrammarValues: plain words on --workspace and --path are not
   selectors of a worktree; a flag without a value stays. *)
WorktreeGrammar(vals) == {v \in vals : v = NoValue \/ KindOf(v) # "none"}

-----------------------------------------------------------------------------
(* What an argv names: pairs <<kind, value>>, each to be proven owned. *)

(* Flags whose name says the kind.  An --id counts if its value has the grammar
   of an id, and is a worktree if it has that of one. *)
NamedTargets(a) ==
  LET ids == ValuesOf(a, NamedFlags["id"])
      OfKind(k) == {<<k, v>> : v \in ValuesOf(a, NamedFlags[k])}
  IN  (UNION {OfKind(k) : k \in {"handle", "dispatch", "parent_worktree", "task", "run", "page"}})
      \cup {<<"id", v>> : v \in {w \in ids : w = NoValue \/ KindOf(w) \notin {"none", "worktree"}}}
      \cup {<<"worktree", v>> : v \in {w \in ids : KindOf(w) = "worktree"}}

(* A bug the code could have: the alias of a flag names nothing. *)
WorktreeTargetsByName(a) == {<<"worktree", v>> : v \in ValuesOf(a, {"worktree"})}

(* One collector for every flag of the worktree class, and the paths of file open. *)
WorktreeTargets(a) ==
  LET paths == IF a.cmd \in {"file open", "file diff"} THEN ValuesOf(a, {"path"}) ELSE {}
      sels  == ValuesOf(a, {"worktree"}) \cup WorktreeGrammar(ValuesOf(a, {"workspace"}) \cup paths)
  IN  {<<"worktree", v>> : v \in sels}

(* Flags whose value alone says the kind: --to, --ack, --retry-of, --parent, --resume. *)
ValueTargets(a) ==
  {<<KindOf(v), v>> : v \in {w \in ValuesOf(a, ValueTyped) : KindOf(w) # "none"}}

(* A group address or a value without a grammar there is refused; an --ack is let be. *)
BadAddress(a) ==
  \E p \in a.pairs :
    /\ p[1] \in ValueTyped
    /\ \/ p[2] = "@all"
       \/ /\ KindOf(p[2]) = "none"
          /\ p[2] # NoValue
          /\ p[1] # "ack"

Unclassified(a) == \E f \in FlagNames(a) : f \notin FlagTable

(* A command about a terminal or a worker that names none is asked for one; one
   about a worker is told by its tokens (isDispatchOwnershipGatedArgv). *)
ImpliedTargets(a) ==
  LET named == NamedTargets(a) \cup ValueTargets(a)
      Lacks(kind) == \A t \in named : t[1] # kind
  IN  (IF a.cmd \in HandleCommands /\ Lacks("handle") THEN {<<"handle", NoValue>>} ELSE {})
      \cup
      (IF a.cmd \in DispatchCommands /\ ReadOffTokens(a) /\ Lacks("dispatch")
       THEN {<<"dispatch", NoValue>>} ELSE {})

(* The answer to reply and ask goes by message id: the sender is pinned instead. *)
Exempt(a, t) ==
  t[1] = "id" /\ t[2] \in Messages /\ a.cmd \in {"orchestration reply", "orchestration ask"}

Targets(a) ==
  {t \in NamedTargets(a) \cup WorktreeTargets(a) \cup ValueTargets(a) \cup ImpliedTargets(a) :
     ~Exempt(a, t)}

(* A list of the whole host needs a scope; two lists are scoped by the sender. *)
Unscoped(a) ==
  /\ a.cmd \in ListCommands \ PinScopedLists
  /\ \A t \in NamedTargets(a) \cup WorktreeTargets(a) \cup ValueTargets(a) :
       t[1] \notin {"run", "id", "task", "handle", "dispatch", "worktree"}

-----------------------------------------------------------------------------
(* The ownership tables: t.rows, dispatches with a row of the registry; t.cleared,
   rows whose terminal a release has cleared; t.partial, dispatches registered
   without their id; t.pin, t.boundSender and t.boundRun of every client;
   t.coordinators, every tab ever pinned. *)

RowsOf(t, c)   == {d \in t.rows : dispatcherOf[d] = c}
PlacedOf(t, c) == {d \in t.rows \cup t.partial : dispatcherOf[d] = c}

(* A bug the code could have: the terminal of a worker is looked up in its row alone. *)
OwnedHandlesOfRows(t, c) ==
  ({t.pin[c], t.boundSender[c]} \ {NoValue})
    \cup {terminalOf[d] : d \in RowsOf(t, c) \ t.cleared}

(* collectTerminalHandleSets: pin, bound sender, workerHandles, rows. *)
OwnedHandles(t, c) ==
  ({t.pin[c], t.boundSender[c]} \ {NoValue})
    \cup {terminalOf[d] : d \in PlacedOf(t, c)}
    \cup {terminalOf[d] : d \in RowsOf(t, c) \ t.cleared}

OwnedDispatches(t, c) == RowsOf(t, c)
OwnedTasks(t, c)      == {taskOf[d] : d \in PlacedOf(t, c)}
OwnedRuns(t, c)       == {runOf[d] : d \in PlacedOf(t, c)} \cup ({t.boundRun[c]} \ {NoValue})
OwnedWorktrees(t, c)  == {worktreeOf[d] : d \in RowsOf(t, c)}

Owned(t, c, kind) ==
  CASE kind = "handle" -> OwnedHandles(t, c)
    [] kind = "dispatch" -> OwnedDispatches(t, c)
    [] kind = "task" -> OwnedTasks(t, c)
    [] kind = "run" -> OwnedRuns(t, c)
    [] kind \in {"worktree", "parent_worktree"} -> OwnedWorktrees(t, c)
    [] OTHER -> {}

Known(t, kind) ==
  (UNION {Owned(t, c, kind) : c \in Clients})
    \cup (IF kind = "handle" THEN t.coordinators ELSE {})

StatusIn(t, c, kind, v) ==
  CASE v \in Owned(t, c, kind) -> "owned"
    [] v \in Known(t, kind) \ Owned(t, c, kind) -> "not-owned"
    [] OTHER -> "unknown"

(* resolveGenericIdOwnership: by the prefix of the id; messages and deliveries
   are in no table. *)
IdStatus(t, c, v) ==
  IF KindOf(v) \in {"task", "run", "dispatch"} THEN StatusIn(t, c, KindOf(v), v) ELSE "unknown"

(* resolveWorktreeOwnership: new-child is the caller's own to create. *)
WorktreeStatus(t, c, v, mayCreate) ==
  IF v = "new-child" THEN (IF mayCreate THEN "owned" ELSE "unknown")
  ELSE StatusIn(t, c, "worktree", v)

(* The resolvers of server.mjs: one for every kind of target. *)
Status(t, c, a, x) ==
  CASE x[1] = "id" -> IdStatus(t, c, x[2])
    [] x[1] = "worktree" -> WorktreeStatus(t, c, x[2], a.cmd \in CreateCommands)
    [] x[1] = "parent_worktree" -> WorktreeStatus(t, c, x[2], FALSE)
    [] OTHER -> StatusIn(t, c, x[1], x[2])

-----------------------------------------------------------------------------
(* The decision. *)

(* isForbiddenHandoffArgv: a worker nobody would hear of again; looks at the first
   two words in any case. *)
ForbiddenHandoff(a) ==
  /\ a.cmd = "worktree create" /\ ReadOffTokens(a)
  /\ {"agent", "prompt"} \subseteq FlagNames(a)

(* matchExactCliForm: the very command, only its flags, check --peek or --all. *)
MatchedForms(a) ==
  {f \in Forms :
     /\ f.cmd = a.cmd
     /\ FlagNames(a) \subseteq f.flags
     /\ a.cmd = "orchestration check" => ~({"peek", "all"} \subseteq FlagNames(a))}

FormAllowed(s, a) == \E f \in MatchedForms(a) : f.tier = "ok" \/ "admin" \in Enabled(s)

(* runChecker: the values not proven; kinds are asked in this order, and the audit
   reads the worst status of the first kind refused. *)
Unproven(t, c, a) == {x \in Targets(a) : Status(t, c, a, x) # "owned"}
KindOrder == <<"handle", "dispatch", "worktree", "parent_worktree", "task", "run", "id", "page">>
AuditedStatus(t, c, a) ==
  LET refused == {i \in DOMAIN KindOrder : \E x \in Unproven(t, c, a) : x[1] = KindOrder[i]}
      first   == CHOOSE i \in refused : \A j \in refused : i <= j
  IN  IF \E x \in Unproven(t, c, a) :
           x[1] = KindOrder[first] /\ Status(t, c, a, x) = "not-owned"
      THEN "not-owned" ELSE "unknown"

Refusal(code, detail) == [ok |-> FALSE, code |-> code, detail |-> detail]
Permit(code)          == [ok |-> TRUE, code |-> code, detail |-> "none"]

(* A bug the code could have: the caller is told whether someone else has the target. *)
OwnershipRefusalSaysWhy(status) == Refusal("handle_not_owned", status)

(* ownershipDecision: the caller is told the same whatever the reason; the
   status goes to the warning of the audit only. *)
OwnershipRefusal(status) == Refusal("handle_not_owned", "target_not_owned")

(* evaluateCliArgv: what the allowlist says is only asked once every target is
   proven; hardening off softens the allowlist and nothing else. *)
Evaluate(t, s, c, a) ==
  IF ForbiddenHandoff(a) THEN Refusal("forbidden_handoff", "none")
  ELSE IF Unclassified(a) THEN Refusal("handle_not_owned", "unclassified_flag")
  ELSE IF BadAddress(a) THEN Refusal("handle_not_owned", "bad_address")
  ELSE IF Unscoped(a) THEN Refusal("handle_not_owned", "unscoped_list")
  ELSE IF Unproven(t, c, a) # {} THEN OwnershipRefusal(AuditedStatus(t, c, a))
  ELSE IF FormAllowed(s, a) THEN Permit("allow")
  ELSE IF Hardened(s) THEN Refusal("cli_policy_denied", "form")
  ELSE Permit("allow_with_warning")

(* evaluateToolsetAccess, asked before the lock and the policy; a command its tokens
   do not tell is admin. *)
ToolsetAllows(s, a) == (IF ReadOffTokens(a) THEN TierOf(a.cmd) ELSE "admin") \in Enabled(s)

-----------------------------------------------------------------------------
(* What of an answer the caller sees. *)

(* A node of the answer: the handle on it, if any, and that of the node around. *)
Nodes == [handle : Handles \cup {NoValue}, around : Handles \cup {NoValue}]

(* A bug the code could have: what is under an own node is shown. *)
ShownInherited(owned, node) == node.around \in owned \/ node.handle \in owned

(* redactOwnershipContent: a node with a handle shows its content to the owner of
   the handle; one without does as the node around it, and hides at the top. *)
Shown(owned, node) ==
  IF node.handle # NoValue THEN node.handle \in owned ELSE node.around \in owned

(* applyOwnershipListRedaction: an answer that is no JSON is withheld. *)
Redact(owned, nodes, walkable) == {n \in nodes : walkable /\ Shown(owned, n)}

(* Keys of the result of a reply, and those that a node nobody owns keeps. *)
ReplyKeys      == {"message", "question"}
InventoryKeys  == {"message", "result", "id", "status"}
NeverUnowned   == {"message", "title", "path", "name", "branch"}
KeepsUnowned(key) == key \in InventoryKeys /\ key \notin NeverUnowned
=============================================================================
