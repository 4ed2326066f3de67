--------------------------- MODULE CommandGateProofs ---------------------------
(***************************************************************************)
(* The gate of action=cli for any clients, workers, command lines and changes *)
(* of the tables: a command runs only on what its caller has been given, the  *)
(* caller learns nothing of others, and a reply reaches its worker only.      *)
(***************************************************************************)
EXTENDS CommandGate, TLAPS

-----------------------------------------------------------------------------
(* The inductive invariant. *)

Tables == [rows : SUBSET Dispatches, cleared : SUBSET Dispatches, partial : SUBSET Dispatches,
           pin : [Clients -> Tabs \cup {NoValue}], boundSender : [Clients -> Tabs \cup {NoValue}],
           boundRun : [Clients -> Runs \cup {NoValue}], coordinators : SUBSET Tabs]

Stages == {"idle", "locked", "resolving", "spawning", "running", "lookup", "routing", "over"}

(* Whatever the tables hold for a client it has been given. *)
TablesInv ==
  /\ tables \in Tables
  /\ tables.partial \cap tables.rows = {} /\ tables.cleared \subseteq tables.rows
  /\ runsUsed \in [Clients -> SUBSET Runs] /\ posted \in [Messages -> Notes]
  /\ \A c \in Clients :
       /\ {tables.pin[c], tables.boundSender[c]} \ {NoValue} \subseteq
            {h \in tables.coordinators : tabOwner[h] = c}
       /\ tables.boundRun[c] # NoValue => tables.boundRun[c] \in runsUsed[c]

RequestTypes ==
  /\ settings \in Settings
  /\ pc \in [Clients -> Stages] /\ argv \in [Clients -> Argvs \cup {NoArgv}]
  /\ sender \in [Clients -> Tabs \cup {NoValue}]
  /\ original \in [Clients -> Messages \cup {NoValue}]
  /\ DOMAIN answer = Clients /\ DOMAIN shown = Clients
  /\ DOMAIN ran = Clients /\ DOMAIN sent = Clients

(* The objects an argv names, its sender aside. *)
Named(a) == Objects \cap ValuesOf(a, TargetFlags \cup IF a.cmd = "file open" THEN {"path"} ELSE {})

(* From the decision to the run, the argv names nothing that was not given. *)
Approved(c) ==
  /\ pc[c] \in {"resolving", "spawning"} => Named(argv[c]) \subseteq Given(c)
  /\ sender[c] # NoValue => sender[c] \in Given(c)
  /\ pc[c] \in {"spawning", "running"} /\ NeedsSender(argv[c]) => sender[c] # NoValue
  /\ pc[c] \in {"idle", "locked", "resolving", "spawning"} => ran[c] = NoArgv
  /\ pc[c] = "idle" => argv[c] = NoArgv

WritersFor(c) == {writerOf[m] : m \in RepliedTo(argv[c])}

(* A reply goes where its message came from. *)
ReplyRouted(c) ==
  /\ original[c] # NoValue => original[c] \in RepliedTo(argv[c])
  /\ \A s \in sent[c] : s[2] \in WritersFor(c)
  /\ answer[c].route = "dual_routed" => \E d \in WritersFor(c) : <<"followup", d>> \in sent[c]
  /\ pc[c] = "idle" => original[c] = NoValue /\ sent[c] = {}
  /\ pc[c] # "over" => answer[c] = Answered("none", "none")

ContentGiven(c) ==
  \A n \in shown[c] : (IF n.handle = NoValue THEN n.around ELSE n.handle) \in Given(c)

RequestInv == \A c \in Clients : Approved(c) /\ ReplyRouted(c) /\ ContentGiven(c)

GateInv == TablesInv /\ RequestTypes /\ RequestInv

-----------------------------------------------------------------------------
(* The policy. *)

(* Every id has a grammar that tells its kind. *)
LEMMA KindOfObject ==
  ASSUME NEW v \in Objects
  PROVE  /\ KindOf(v) \in {"handle", "dispatch", "task", "run", "worktree"}
         /\ v \in Handles => KindOf(v) = "handle"
         /\ v \in Dispatches => KindOf(v) = "dispatch"
         /\ v \in Tasks => KindOf(v) = "task"
         /\ v \in Runs => KindOf(v) = "run"
         /\ v \in Worktrees => KindOf(v) = "worktree"
         /\ v \notin Messages \cup Words /\ v # NoValue
<1>1. /\ v \notin Messages \cup Words /\ v # NoValue
      /\ v \notin Messages \cup {"token"} /\ v # "page_1"
  BY PolicyAssumption DEF Words
<1>2. v \in Handles \/ v \in Dispatches \/ v \in Tasks \/ v \in Runs \/ v \in Worktrees
  BY DEF Objects
<1>3. CASE v \in Handles
  <2>1. v \notin Dispatches /\ v \notin Tasks /\ v \notin Runs /\ v \notin Worktrees
    BY <1>3, PolicyAssumption
  <2> QED BY <1>1, <1>3, <2>1 DEF KindOf
<1>4. CASE v \in Dispatches
  <2>1. v \notin Handles /\ v \notin Tasks /\ v \notin Runs /\ v \notin Worktrees
    BY <1>4, PolicyAssumption
  <2> QED BY <1>1, <1>4, <2>1 DEF KindOf
<1>5. CASE v \in Tasks
  <2>1. v \notin Handles /\ v \notin Dispatches /\ v \notin Runs /\ v \notin Worktrees
    BY <1>5, PolicyAssumption
  <2> QED BY <1>1, <1>5, <2>1 DEF KindOf
<1>6. CASE v \in Runs
  <2>1. v \notin Handles /\ v \notin Dispatches /\ v \notin Tasks /\ v \notin Worktrees
    BY <1>6, PolicyAssumption
  <2> QED BY <1>1, <1>6, <2>1 DEF KindOf
<1>7. CASE v \in Worktrees
  <2>1. v \notin Handles /\ v \notin Dispatches /\ v \notin Tasks /\ v \notin Runs
    BY <1>7, PolicyAssumption
  <2> QED BY <1>1, <1>7, <2>1 DEF KindOf
<1> QED BY <1>1, <1>2, <1>3, <1>4, <1>5, <1>6, <1>7

LEMMA TargetFlagsAre ==
  TargetFlags = {"to", "ack", "retry-of", "parent", "resume", "terminal", "pane", "dispatch",
                 "dispatch-id", "worktree", "workspace", "parent-worktree", "task", "task-id",
                 "run", "id", "page"}
BY DEF TargetFlags, NamedFlags, ValueTyped

NameKinds == {"handle", "dispatch", "parent_worktree", "task", "run", "page"}

LEMMA NamedTargetsHave ==
  ASSUME NEW a
  PROVE  /\ \A k \in NameKinds, v \in Values :
              v \in ValuesOf(a, NamedFlags[k]) => <<k, v>> \in NamedTargets(a)
         /\ \A v \in ValuesOf(a, NamedFlags["id"]) :
              /\ KindOf(v) \notin {"none", "worktree"} => <<"id", v>> \in NamedTargets(a)
              /\ KindOf(v) = "worktree" => <<"worktree", v>> \in NamedTargets(a)
<1> DEFINE ids == ValuesOf(a, NamedFlags["id"])
           OfKind(k) == {<<k, v>> : v \in ValuesOf(a, NamedFlags[k])}
           ByName == UNION {OfKind(k) : k \in NameKinds}
           Ids == {<<"id", v>> : v \in {w \in ids : w = NoValue \/ KindOf(w) \notin {"none", "worktree"}}}
           Trees == {<<"worktree", v>> : v \in {w \in ids : KindOf(w) = "worktree"}}
<1>1. NamedTargets(a) = ByName \cup Ids \cup Trees
  BY Zenon DEF NamedTargets, NameKinds
<1>2. \A k \in NameKinds, v \in Values : v \in ValuesOf(a, NamedFlags[k]) => <<k, v>> \in ByName
  OBVIOUS
<1>3. \A v \in ids : KindOf(v) \notin {"none", "worktree"} => <<"id", v>> \in Ids
  OBVIOUS
<1>4. \A v \in ids : KindOf(v) = "worktree" => <<"worktree", v>> \in Trees
  OBVIOUS
<1> HIDE DEF ByName, Ids, Trees
<1> QED BY <1>1, <1>2, <1>3, <1>4

(* An object on a target flag is a target, whatever the flag. *)
LEMMA NamedIsTarget ==
  ASSUME NEW a, NEW v \in Named(a)
  PROVE  \E k : <<k, v>> \in Targets(a)
<1>1. v \in Objects /\ KindOf(v) \in {"handle", "dispatch", "task", "run", "worktree"}
      /\ v \notin Messages
  BY KindOfObject DEF Named
<1>2. PICK f \in TargetFlags \cup (IF a.cmd = "file open" THEN {"path"} ELSE {}) :
        v \in ValuesOf(a, {f})
  BY DEF Named, ValuesOf
<1>3. \A k : ~Exempt(a, <<k, v>>)
  BY <1>1 DEF Exempt
<1> DEFINE Found == NamedTargets(a) \cup WorktreeTargets(a) \cup ValueTargets(a)
<1>4. \A k : <<k, v>> \in Found => <<k, v>> \in Targets(a)
  BY <1>3 DEF Targets
<1>5. CASE f \in {"to", "ack", "retry-of", "parent", "resume"}
  <2>1. <<KindOf(v), v>> \in ValueTargets(a)
    BY <1>1, <1>2, <1>5 DEF ValueTargets, ValuesOf, ValueTyped
  <2> QED BY <1>1, <1>4, <2>1
<1>6. CASE f \in {"worktree", "workspace", "path"}
  <2>1. <<"worktree", v>> \in WorktreeTargets(a)
    BY <1>1, <1>2, <1>6, TargetFlagsAre DEF WorktreeTargets, WorktreeGrammar, ValuesOf
  <2> QED BY <1>4, <2>1
<1>7. CASE f = "id"
  <2>1. v \in ValuesOf(a, NamedFlags["id"])
    BY <1>2, <1>7 DEF NamedFlags, ValuesOf
  <2> QED BY <1>1, <1>4, <2>1, NamedTargetsHave
<1>8. CASE f \in {"terminal", "pane", "dispatch", "dispatch-id", "parent-worktree", "task",
                  "task-id", "run", "page"}
  <2>1. PICK k \in NameKinds : f \in NamedFlags[k]
    BY <1>8 DEF NamedFlags, NameKinds
  <2>2. v \in ValuesOf(a, NamedFlags[k]) /\ v \in Values
    BY <1>1, <1>2, <2>1 DEF ValuesOf, Values
  <2> QED BY <1>4, <2>1, <2>2, NamedTargetsHave DEF NameKinds
<1> QED BY <1>2, <1>5, <1>6, <1>7, <1>8, TargetFlagsAre

LEMMA ProvenIsOwned ==
  ASSUME NEW t, NEW c, NEW a, NEW v \in Objects, NEW k,
         Status(t, c, a, <<k, v>>) = "owned"
  PROVE  \E kind : v \in Owned(t, c, kind)
<1>1. v # "new-child"
  BY KindOfObject DEF Words
<1>2. \A kind : StatusIn(t, c, kind, v) = "owned" => v \in Owned(t, c, kind)
  BY DEF StatusIn
<1>3. CASE k = "id"
  BY <1>2, <1>3 DEF Status, IdStatus
<1>4. CASE k \in {"worktree", "parent_worktree"}
  BY <1>1, <1>2, <1>4 DEF Status, WorktreeStatus
<1>5. CASE k \notin {"id", "worktree", "parent_worktree"}
  BY <1>2, <1>5 DEF Status
<1> QED BY <1>3, <1>4, <1>5

(* evaluateCliArgv permits nothing that is not proven. *)
LEMMA PermittedIsProven ==
  ASSUME NEW t, NEW s, NEW c, NEW a, Evaluate(t, s, c, a).ok
  PROVE  Unproven(t, c, a) = {}
BY DEF Evaluate, Refusal, OwnershipRefusal, Permit

(* What a client has been given, by kind. *)
GivenIn(t, used, c) ==
  {h \in t.coordinators : tabOwner[h] = c}
    \cup (UNION {{terminalOf[d], taskOf[d], runOf[d]} : d \in PlacedOf(t, c)})
    \cup (UNION {{d, worktreeOf[d]} : d \in RowsOf(t, c)})
    \cup used[c]

LEMMA GivenInIs ==
  ASSUME NEW t, NEW used, NEW c
  PROVE  /\ {h \in t.coordinators : tabOwner[h] = c} \subseteq GivenIn(t, used, c)
         /\ \A d \in PlacedOf(t, c) : {terminalOf[d], taskOf[d], runOf[d]} \subseteq GivenIn(t, used, c)
         /\ \A d \in RowsOf(t, c) : {d, worktreeOf[d]} \subseteq GivenIn(t, used, c)
         /\ used[c] \subseteq GivenIn(t, used, c)
         /\ \A x \in GivenIn(t, used, c) :
              \/ x \in t.coordinators /\ tabOwner[x] = c
              \/ \E d \in PlacedOf(t, c) : x \in {terminalOf[d], taskOf[d], runOf[d]}
              \/ \E d \in RowsOf(t, c) : x \in {d, worktreeOf[d]}
              \/ x \in used[c]
<1> DEFINE Placed == UNION {{terminalOf[d], taskOf[d], runOf[d]} : d \in PlacedOf(t, c)}
           Rows == UNION {{d, worktreeOf[d]} : d \in RowsOf(t, c)}
<1>1. GivenIn(t, used, c) =
        {h \in t.coordinators : tabOwner[h] = c} \cup Placed \cup Rows \cup used[c]
  BY Zenon DEF GivenIn
<1>2. /\ \A d \in PlacedOf(t, c) : {terminalOf[d], taskOf[d], runOf[d]} \subseteq Placed
      /\ \A x \in Placed : \E d \in PlacedOf(t, c) : x \in {terminalOf[d], taskOf[d], runOf[d]}
  OBVIOUS
<1>3. /\ \A d \in RowsOf(t, c) : {d, worktreeOf[d]} \subseteq Rows
      /\ \A x \in Rows : \E d \in RowsOf(t, c) : x \in {d, worktreeOf[d]}
  OBVIOUS
<1> HIDE DEF Placed, Rows
<1> QED BY <1>1, <1>2, <1>3

LEMMA GivenIs == \A c : Given(c) = GivenIn(tables, runsUsed, c)
BY DEF Given, GivenIn

(* What the tables hold for a client it has been given. *)
LEMMA OwnedIsGiven ==
  ASSUME TablesInv, NEW c \in Clients, NEW kind, NEW v \in Owned(tables, c, kind)
  PROVE  v \in Given(c)
<1>1. RowsOf(tables, c) \subseteq PlacedOf(tables, c)
  BY DEF RowsOf, PlacedOf
<1>2. ({tables.pin[c], tables.boundSender[c]} \ {NoValue}) \subseteq Given(c)
  BY GivenIs, GivenInIs DEF TablesInv
<1>3. CASE kind = "handle"
  BY <1>1, <1>2, <1>3, GivenIs, GivenInIs DEF Owned, OwnedHandles
<1>4. CASE kind = "dispatch"
  BY <1>4, GivenIs, GivenInIs DEF Owned, OwnedDispatches
<1>5. CASE kind = "task"
  BY <1>5, GivenIs, GivenInIs DEF Owned, OwnedTasks
<1>6. CASE kind = "run"
  BY <1>6, GivenIs, GivenInIs DEF Owned, OwnedRuns, TablesInv
<1>7. CASE kind \in {"worktree", "parent_worktree"}
  BY <1>7, GivenIs, GivenInIs DEF Owned, OwnedWorktrees
<1> QED BY <1>3, <1>4, <1>5, <1>6, <1>7 DEF Owned

LEMMA PermittedIsGiven ==
  ASSUME TablesInv, NEW c \in Clients, NEW s, NEW a, Evaluate(tables, s, c, a).ok
  PROVE  Named(a) \subseteq Given(c)
<1> SUFFICES ASSUME NEW v \in Named(a) PROVE v \in Given(c)
  OBVIOUS
<1>1. PICK k : <<k, v>> \in Targets(a)
  BY NamedIsTarget
<1>2. Status(tables, c, a, <<k, v>>) = "owned"
  BY <1>1, PermittedIsProven DEF Unproven
<1>3. v \in Objects
  BY DEF Named
<1> QED BY <1>2, <1>3, ProvenIsOwned, OwnedIsGiven

-----------------------------------------------------------------------------
(* The tables change. *)

(* What a client has been given it keeps. *)
Keeps(c) == Given(c) \subseteq Given(c)'

LEMMA GivenGrows ==
  ASSUME NEW c, tables.coordinators \subseteq tables'.coordinators,
         tables.rows \subseteq tables'.rows,
         tables.rows \cup tables.partial \subseteq tables'.rows \cup tables'.partial,
         runsUsed[c] \subseteq runsUsed'[c]
  PROVE  Keeps(c)
<1>1. Given(c) = GivenIn(tables, runsUsed, c) /\ Given(c)' = GivenIn(tables', runsUsed', c)
  BY DEF Given, GivenIn
<1>2. PlacedOf(tables, c) \subseteq PlacedOf(tables', c) /\ RowsOf(tables, c) \subseteq RowsOf(tables', c)
  BY DEF PlacedOf, RowsOf
<1> SUFFICES ASSUME NEW x \in GivenIn(tables, runsUsed, c) PROVE x \in GivenIn(tables', runsUsed', c)
  BY <1>1 DEF Keeps
<1>3. CASE x \in tables.coordinators /\ tabOwner[x] = c
  BY <1>3, GivenInIs
<1>4. CASE \E d \in PlacedOf(tables, c) : x \in {terminalOf[d], taskOf[d], runOf[d]}
  BY <1>2, <1>4, GivenInIs
<1>5. CASE \E d \in RowsOf(tables, c) : x \in {d, worktreeOf[d]}
  BY <1>2, <1>5, GivenInIs
<1>6. CASE x \in runsUsed[c]
  BY <1>6, GivenInIs
<1> QED BY <1>3, <1>4, <1>5, <1>6, GivenInIs

(* What a change of the tables leaves true. *)
Changed ==
  TablesInv' /\ (\A c \in Clients : Keeps(c)) /\ settings' = settings
  /\ UNCHANGED requestVars

LEMMA RowsStep ==
  ASSUME TablesInv, NEW d \in Dispatches, Bind(d) \/ BindWithoutId(d) \/ ClearRow(d)
  PROVE  Changed
<1>1. /\ runsUsed' = runsUsed /\ settings' = settings /\ posted' = posted /\ UNCHANGED requestVars
      /\ tables'.pin = tables.pin /\ tables'.boundSender = tables.boundSender
      /\ tables'.boundRun = tables.boundRun /\ tables'.coordinators = tables.coordinators
  BY DEF Bind, BindWithoutId, ClearRow, Change, TablesInv, Tables
<1>2. /\ tables' \in Tables /\ tables.rows \subseteq tables'.rows
      /\ tables.partial \subseteq tables'.partial
      /\ tables'.partial \cap tables'.rows = {} /\ tables'.cleared \subseteq tables'.rows
  <2>1. CASE Bind(d)
    BY <2>1 DEF Bind, Change, TablesInv, Tables
  <2>2. CASE BindWithoutId(d)
    BY <2>2 DEF BindWithoutId, Change, TablesInv, Tables
  <2>3. CASE ClearRow(d)
    BY <2>3 DEF ClearRow, Change, TablesInv, Tables
  <2> QED BY <2>1, <2>2, <2>3
<1>3. \A c \in Clients : Keeps(c)
  BY <1>1, <1>2, GivenGrows
<1>4. TablesInv'
  BY <1>1, <1>2 DEF TablesInv
<1> QED BY <1>1, <1>3, <1>4 DEF Changed

(* Pins, bound runs and new tabs of a client; a resolver makes and loses them too. *)
LEMMA PinnedTables ==
  ASSUME TablesInv, NEW c \in Clients, NEW h \in Tabs, tabOwner[h] = c, runsUsed' = runsUsed,
         posted' = posted,
         tables' = Pinned(tables, c, h)
  PROVE  TablesInv' /\ \A o \in Clients : Keeps(o)
<1>1. /\ tables' \in Tables /\ tables'.coordinators = tables.coordinators \cup {h}
      /\ tables'.pin = [tables.pin EXCEPT ![c] = h]
      /\ tables'.rows = tables.rows /\ tables'.partial = tables.partial
      /\ tables'.cleared = tables.cleared /\ tables'.boundSender = tables.boundSender
      /\ tables'.boundRun = tables.boundRun
  BY DEF Pinned, TablesInv, Tables
<1>2. \A o \in Clients : Keeps(o)
  BY <1>1, GivenGrows
<1>3. TablesInv'
  BY <1>1 DEF TablesInv, Tables
<1> QED BY <1>2, <1>3

LEMMA UnpinnedTables ==
  ASSUME TablesInv, NEW c \in Clients, runsUsed' = runsUsed, posted' = posted,
         tables' = [tables EXCEPT !.pin[c] = NoValue]
  PROVE  TablesInv' /\ \A o \in Clients : Keeps(o)
<1>1. /\ tables' \in Tables /\ tables'.coordinators = tables.coordinators
      /\ tables'.pin = [tables.pin EXCEPT ![c] = NoValue]
      /\ tables'.rows = tables.rows /\ tables'.partial = tables.partial
      /\ tables'.cleared = tables.cleared /\ tables'.boundSender = tables.boundSender
      /\ tables'.boundRun = tables.boundRun
  BY DEF TablesInv, Tables
<1>2. \A o \in Clients : Keeps(o)
  BY <1>1, GivenGrows
<1>3. TablesInv'
  BY <1>1 DEF TablesInv, Tables
<1> QED BY <1>2, <1>3

LEMMA BindRunStep ==
  ASSUME TablesInv, NEW c \in Clients, NEW r \in Runs, BindRun(c, r)
  PROVE  Changed
<1>1. /\ settings' = settings /\ posted' = posted /\ UNCHANGED requestVars
      /\ runsUsed' = [runsUsed EXCEPT ![c] = @ \cup {r}]
  BY DEF BindRun, Change
<1>2. /\ tables' \in Tables /\ tables'.coordinators = tables.coordinators
      /\ tables'.pin = tables.pin
      /\ tables'.rows = tables.rows /\ tables'.partial = tables.partial
      /\ tables'.cleared = tables.cleared
      /\ tables'.boundSender = [tables.boundSender EXCEPT ![c] = tables.pin[c]]
      /\ tables'.boundRun = [tables.boundRun EXCEPT ![c] = r]
  BY DEF BindRun, Change, TablesInv, Tables
<1>3. runsUsed' \in [Clients -> SUBSET Runs] /\ \A o \in Clients : runsUsed[o] \subseteq runsUsed'[o]
  BY <1>1 DEF TablesInv
<1>4. \A o \in Clients : Keeps(o)
  BY <1>2, <1>3, GivenGrows
<1>5. TablesInv'
  <2> SUFFICES ASSUME NEW o \in Clients
               PROVE  /\ {tables'.pin[o], tables'.boundSender[o]} \ {NoValue} \subseteq
                           {h \in tables'.coordinators : tabOwner[h] = o}
                      /\ tables'.boundRun[o] # NoValue => tables'.boundRun[o] \in runsUsed'[o]
    BY <1>1, <1>2, <1>3 DEF TablesInv
  <2>1. CASE o = c
    BY <1>1, <1>2, <2>1 DEF TablesInv, Tables
  <2>2. CASE o # c
    BY <1>1, <1>2, <2>2 DEF TablesInv, Tables
  <2> QED BY <2>1, <2>2
<1> QED BY <1>1, <1>4, <1>5 DEF Changed

LEMMA PinStep ==
  ASSUME TablesInv, NEW c \in Clients, LosePin(c) \/ \E h \in Tabs : MakeTab(c, h)
  PROVE  Changed
<1>1. CASE LosePin(c)
  BY <1>1, UnpinnedTables DEF LosePin, Change, Changed
<1>2. CASE \E h \in Tabs : MakeTab(c, h)
  BY <1>2, PinnedTables DEF MakeTab, Change, Changed
<1> QED BY <1>1, <1>2

-----------------------------------------------------------------------------
(* What a step leaves alone it leaves true. *)

Settled(c) == Approved(c) /\ ReplyRouted(c) /\ ContentGiven(c)

Same(c) ==
  /\ pc'[c] = pc[c] /\ argv'[c] = argv[c] /\ sender'[c] = sender[c]
  /\ original'[c] = original[c] /\ answer'[c] = answer[c] /\ shown'[c] = shown[c]
  /\ ran'[c] = ran[c] /\ sent'[c] = sent[c]

LEMMA SameKeeps ==
  ASSUME NEW c \in Clients, Same(c), Keeps(c), Settled(c)
  PROVE  Settled(c)'
<1>1. Approved(c)'
  BY DEF Same, Keeps, Settled, Approved
<1>2. ReplyRouted(c)'
  BY DEF Same, Settled, ReplyRouted, WritersFor
<1>3. ContentGiven(c)'
  BY DEF Same, Keeps, Settled, ContentGiven
<1> QED BY <1>1, <1>2, <1>3 DEF Settled

(* A step of c alone. *)
LEMMA StepKeeps ==
  ASSUME GateInv, NEW c \in Clients, TablesInv', RequestTypes',
         \A o \in Clients : Keeps(o), \A o \in Clients \ {c} : Same(o), Settled(c)'
  PROVE  GateInv'
<1>1. \A o \in Clients : Settled(o)
  BY DEF GateInv, RequestInv, Settled
<1>2. \A o \in Clients : Settled(o)'
  <2> SUFFICES ASSUME NEW o \in Clients PROVE Settled(o)'
    OBVIOUS
  <2>1. CASE o = c
    BY <2>1
  <2>2. CASE o # c
    BY <1>1, <2>2, SameKeeps
  <2> QED BY <2>1, <2>2
<1> QED BY <1>2 DEF GateInv, RequestInv, Settled

LEMMA PostStep ==
  ASSUME TablesInv, NEW m \in Messages, Post(m)
  PROVE  Changed
<1>1. /\ tables' = tables /\ runsUsed' = runsUsed /\ settings' = settings /\ UNCHANGED requestVars
      /\ posted' \in [Messages -> Notes]
  BY DEF Post, TablesInv
<1>2. \A c \in Clients : Keeps(c)
  BY <1>1, GivenGrows
<1>3. TablesInv'
  BY <1>1 DEF TablesInv
<1> QED BY <1>1, <1>2, <1>3 DEF Changed

LEMMA WorldChanges == ASSUME TablesInv, World PROVE Changed
<1>1. ASSUME NEW d \in Dispatches, Bind(d) \/ BindWithoutId(d) \/ ClearRow(d) PROVE Changed
  BY <1>1, RowsStep
<1>2. ASSUME NEW c \in Clients, LosePin(c) \/ \E h \in Tabs : MakeTab(c, h) PROVE Changed
  BY <1>2, PinStep
<1>3. ASSUME NEW c \in Clients, NEW r \in Runs, BindRun(c, r) PROVE Changed
  BY <1>3, BindRunStep
<1>4. ASSUME NEW m \in Messages, Post(m) PROVE Changed
  BY <1>4, PostStep
<1> QED BY <1>1, <1>2, <1>3, <1>4 DEF World

LEMMA ChangedKeeps == ASSUME GateInv, Changed PROVE GateInv'
<1>1. Changed
  OBVIOUS
<1>2. /\ pc' = pc /\ argv' = argv /\ sender' = sender /\ original' = original
      /\ answer' = answer /\ shown' = shown /\ ran' = ran /\ sent' = sent
  BY <1>1 DEF Changed, requestVars, replyVars
<1>3. RequestTypes'
  BY <1>1, <1>2 DEF GateInv, RequestTypes, Changed
<1>4. \A c \in Clients : Settled(c)'
  <2> SUFFICES ASSUME NEW c \in Clients PROVE Settled(c)'
    OBVIOUS
  <2>1. Same(c) /\ Keeps(c) /\ Settled(c)
    BY <1>1, <1>2 DEF Same, Changed, GateInv, RequestInv, Settled
  <2> QED BY <2>1, SameKeeps
<1> QED BY <1>1, <1>3, <1>4 DEF GateInv, RequestInv, Changed, Settled

LEMMA WorldStep == ASSUME GateInv, World PROVE GateInv'
BY WorldChanges, ChangedKeeps DEF GateInv

-----------------------------------------------------------------------------
(* The steps of a request. *)

(* The tables as they are. *)
LEMMA WorldStays ==
  ASSUME TablesInv, UNCHANGED worldVars
  PROVE  TablesInv' /\ settings' = settings /\ \A o \in Clients : Keeps(o)
<1>1. settings' = settings /\ tables' = tables /\ runsUsed' = runsUsed /\ posted' = posted
  BY DEF worldVars
<1>2. TablesInv'
  BY <1>1 DEF TablesInv
<1> QED BY <1>1, <1>2, GivenGrows

LEMMA SubmitStep ==
  ASSUME GateInv, NEW c \in Clients, NEW a \in Argvs, Submit(c, a)
  PROVE  GateInv'
<1>1. TablesInv' /\ settings' = settings /\ \A o \in Clients : Keeps(o)
  BY WorldStays DEF Submit, GateInv
<1>2. /\ pc[c] = "idle" /\ argv' = [argv EXCEPT ![c] = a]
      /\ sender' = sender /\ shown' = shown /\ ran' = ran /\ original' = original /\ sent' = sent
  BY DEF Submit, replyVars
<1>3. \/ pc' = [pc EXCEPT ![c] = "locked"] /\ answer' = answer
      \/ /\ pc' = [pc EXCEPT ![c] = "over"]
         /\ answer' = [answer EXCEPT ![c] = Answered("toolset_denied", "none")]
  BY DEF Submit, Goto, Answer
<1>4. RequestTypes'
  BY <1>1, <1>2, <1>3 DEF GateInv, RequestTypes, Stages
<1>5. \A o \in Clients \ {c} : Same(o)
  BY <1>2, <1>3 DEF GateInv, RequestTypes, Same
<1>6. /\ pc'[c] \in {"locked", "over"} /\ sender'[c] = sender[c] /\ ran'[c] = NoArgv
      /\ original'[c] = NoValue /\ sent'[c] = {} /\ answer'[c].route # "dual_routed"
      /\ pc'[c] = "locked" => answer'[c] = Answered("none", "none")
      /\ shown'[c] = shown[c]
  BY <1>2, <1>3 DEF GateInv, RequestTypes, RequestInv, Approved, ReplyRouted, Answered
<1>7. Approved(c)'
  BY <1>1, <1>6 DEF GateInv, RequestInv, Approved, Keeps
<1>8. ReplyRouted(c)'
  BY <1>6 DEF ReplyRouted
<1>9. ContentGiven(c)'
  BY <1>1, <1>6 DEF GateInv, RequestInv, ContentGiven, Keeps
<1> QED BY <1>1, <1>4, <1>5, <1>7, <1>8, <1>9, StepKeeps DEF Settled

LEMMA DecideStep ==
  ASSUME GateInv, NEW c \in Clients, Decide(c)
  PROVE  GateInv'
<1> DEFINE decision == Evaluate(tables, settings, c, argv[c])
<1>1. TablesInv' /\ settings' = settings /\ \A o \in Clients : Keeps(o)
  BY WorldStays DEF Decide, GateInv
<1>2. /\ pc[c] = "locked" /\ argv' = argv
      /\ sender' = sender /\ shown' = shown /\ ran' = ran /\ original' = original /\ sent' = sent
  BY DEF Decide, replyVars
<1>3. \/ /\ pc' = [pc EXCEPT ![c] = "over"]
         /\ answer' = [answer EXCEPT ![c] = Answered(decision.code, decision.detail)]
      \/ /\ decision.ok /\ answer' = answer
         /\ pc' = [pc EXCEPT ![c] = IF NeedsSender(argv[c]) THEN "resolving" ELSE "spawning"]
  BY DEF Decide, Goto, Answer
<1>4. RequestTypes'
  BY <1>1, <1>2, <1>3 DEF GateInv, RequestTypes, Stages
<1>5. \A o \in Clients \ {c} : Same(o)
  BY <1>2, <1>3 DEF GateInv, RequestTypes, Same
<1>6. pc'[c] \in {"resolving", "spawning"} => Named(argv[c]) \subseteq Given(c)
  <2> SUFFICES ASSUME pc'[c] # "over" PROVE Named(argv[c]) \subseteq Given(c)
    OBVIOUS
  <2>1. decision.ok
    BY <1>3 DEF GateInv, RequestTypes
  <2> QED BY <2>1, PermittedIsGiven DEF GateInv
<1>7. /\ pc'[c] \in {"over", "resolving", "spawning"}
      /\ pc'[c] = "spawning" => ~NeedsSender(argv[c])
      /\ answer'[c] = answer[c] \/ (pc'[c] = "over" /\ answer'[c].route = "none")
  BY <1>3 DEF GateInv, RequestTypes, Answered
<1>8. Approved(c)'
  BY <1>1, <1>2, <1>6, <1>7 DEF GateInv, RequestInv, Approved, Keeps
<1>9. ReplyRouted(c)'
  BY <1>2, <1>7 DEF GateInv, RequestInv, ReplyRouted, WritersFor
<1>10. ContentGiven(c)'
  BY <1>1, <1>2 DEF GateInv, RequestInv, ContentGiven, Keeps
<1> QED BY <1>1, <1>4, <1>5, <1>8, <1>9, <1>10, StepKeeps DEF Settled

LEMMA ResolveStep ==
  ASSUME GateInv, NEW c \in Clients, Resolve(c)
  PROVE  GateInv'
<1>1. /\ pc[c] = "resolving" /\ settings' = settings /\ runsUsed' = runsUsed /\ posted' = posted
      /\ argv' = argv /\ shown' = shown /\ ran' = ran /\ original' = original /\ sent' = sent
  BY DEF Resolve, replyVars
<1>2. PICK h \in Tabs \cup {NoValue} :
        \/ /\ h = tables.pin[c] /\ h # NoValue /\ tables' = tables
           /\ sender' = [sender EXCEPT ![c] = h] /\ pc' = [pc EXCEPT ![c] = "spawning"]
           /\ answer' = answer
        \/ /\ h \in Tabs /\ tabOwner[h] = c /\ tables' = Pinned(tables, c, h)
           /\ sender' = [sender EXCEPT ![c] = h] /\ pc' = [pc EXCEPT ![c] = "spawning"]
           /\ answer' = answer
        \/ /\ tables' = [tables EXCEPT !.pin[c] = NoValue] /\ sender' = sender
           /\ pc' = [pc EXCEPT ![c] = "over"]
           /\ answer' = [answer EXCEPT ![c] = Answered("no_sender_terminal", "none")]
  BY DEF Resolve, Goto, Answer, GateInv, TablesInv, Tables
<1>3. TablesInv' /\ \A o \in Clients : Keeps(o)
  <2>1. CASE tables' = tables
    BY <1>1, <2>1, GivenGrows DEF GateInv, TablesInv
  <2>2. CASE h \in Tabs /\ tabOwner[h] = c /\ tables' = Pinned(tables, c, h)
    BY <1>1, <2>2, PinnedTables DEF GateInv
  <2>3. CASE tables' = [tables EXCEPT !.pin[c] = NoValue]
    BY <1>1, <2>3, UnpinnedTables DEF GateInv
  <2> QED BY <1>2, <2>1, <2>2, <2>3
<1>4. RequestTypes'
  BY <1>1, <1>2 DEF GateInv, RequestTypes, Stages
<1>5. \A o \in Clients \ {c} : Same(o)
  BY <1>1, <1>2 DEF GateInv, RequestTypes, Same
<1>6. /\ \/ pc'[c] = "over" /\ sender'[c] = sender[c]
         \/ pc'[c] = "spawning" /\ sender'[c] = h /\ h # NoValue
      /\ answer'[c] = answer[c] \/ (pc'[c] = "over" /\ answer'[c].route = "none")
  BY <1>2, PolicyAssumption DEF GateInv, RequestTypes, Answered, Objects, Handles
<1>7. pc'[c] = "spawning" => h \in Given(c)'
  <2> SUFFICES ASSUME pc'[c] = "spawning" PROVE h \in tables'.coordinators /\ tabOwner[h] = c
    BY GivenInIs DEF Given, GivenIn
  <2>1. pc' # [pc EXCEPT ![c] = "over"]
    BY DEF GateInv, RequestTypes
  <2>2. CASE h = tables.pin[c] /\ h # NoValue /\ tables' = tables
    BY <2>2 DEF GateInv, TablesInv
  <2>3. CASE tabOwner[h] = c /\ tables' = Pinned(tables, c, h)
    BY <2>3 DEF Pinned, GateInv, TablesInv, Tables
  <2> QED BY <1>2, <2>1, <2>2, <2>3
<1>8. Approved(c)'
  BY <1>1, <1>3, <1>6, <1>7 DEF GateInv, RequestInv, Approved, Keeps
<1>9. ReplyRouted(c)'
  BY <1>1, <1>6 DEF GateInv, RequestInv, ReplyRouted, WritersFor
<1>10. ContentGiven(c)'
  BY <1>1, <1>3 DEF GateInv, RequestInv, ContentGiven, Keeps
<1> QED BY <1>3, <1>4, <1>5, <1>8, <1>9, <1>10, StepKeeps DEF Settled

LEMMA SpawnStep ==
  ASSUME GateInv, NEW c \in Clients, Spawn(c)
  PROVE  GateInv'
<1>1. TablesInv' /\ settings' = settings /\ \A o \in Clients : Keeps(o)
  BY WorldStays DEF Spawn, GateInv
<1>2. /\ pc[c] = "spawning" /\ pc' = [pc EXCEPT ![c] = "running"]
      /\ ran' = [ran EXCEPT ![c] = Inject(argv[c], sender[c])]
      /\ argv' = argv /\ sender' = sender /\ answer' = answer /\ shown' = shown
      /\ original' = original /\ sent' = sent
  BY DEF Spawn, Goto, replyVars
<1>3. RequestTypes' /\ pc'[c] = "running"
  BY <1>1, <1>2 DEF GateInv, RequestTypes, Stages
<1>4. \A o \in Clients \ {c} : Same(o)
  BY <1>2 DEF GateInv, RequestTypes, Same
<1>5. Approved(c)'
  BY <1>1, <1>2, <1>3 DEF GateInv, RequestInv, Approved, Keeps
<1>6. ReplyRouted(c)'
  BY <1>2, <1>3 DEF GateInv, RequestInv, ReplyRouted, WritersFor
<1>7. ContentGiven(c)'
  BY <1>1, <1>2 DEF GateInv, RequestInv, ContentGiven, Keeps
<1> QED BY <1>1, <1>3, <1>4, <1>5, <1>6, <1>7, StepKeeps DEF Settled

LEMMA FailStep ==
  ASSUME GateInv, NEW c \in Clients, Fail(c)
  PROVE  GateInv'
<1>1. TablesInv' /\ settings' = settings /\ \A o \in Clients : Keeps(o)
  BY WorldStays DEF Fail, GateInv
<1>2. /\ pc[c] = "running" /\ pc' = [pc EXCEPT ![c] = "over"]
      /\ answer' = [answer EXCEPT ![c] = Answered("failed", "none")]
      /\ argv' = argv /\ sender' = sender /\ ran' = ran /\ shown' = shown
      /\ original' = original /\ sent' = sent
  BY DEF Fail, Goto, Answer, replyVars
<1>3. RequestTypes' /\ pc'[c] = "over" /\ answer'[c].route = "none"
  BY <1>1, <1>2 DEF GateInv, RequestTypes, Stages, Answered
<1>4. \A o \in Clients \ {c} : Same(o)
  BY <1>2 DEF GateInv, RequestTypes, Same
<1>5. Approved(c)'
  BY <1>1, <1>2, <1>3 DEF GateInv, RequestInv, Approved, Keeps
<1>6. ReplyRouted(c)'
  BY <1>2, <1>3 DEF GateInv, RequestInv, ReplyRouted, WritersFor
<1>7. ContentGiven(c)'
  BY <1>1, <1>2 DEF GateInv, RequestInv, ContentGiven, Keeps
<1> QED BY <1>1, <1>3, <1>4, <1>5, <1>6, <1>7, StepKeeps DEF Settled

(* Content is shown to who owns its handle (redactOwnershipContent). *)
LEMMA ShownIsGiven ==
  ASSUME GateInv, NEW c \in Clients, Show(c), \A o \in Clients : Keeps(o)
  PROVE  ContentGiven(c)'
<1>1. PICK walkable \in BOOLEAN :
        shown' = [shown EXCEPT ![c] = Redact(OwnedHandles(tables, c), Nodes, walkable)]
  BY DEF Show
<1>2. \A n \in shown'[c] : Shown(OwnedHandles(tables, c), n)
  BY <1>1 DEF GateInv, RequestTypes, Redact
<1>3. \A v \in OwnedHandles(tables, c) : v \in Given(c)
  BY OwnedIsGiven DEF Owned, GateInv
<1> QED BY <1>2, <1>3 DEF Shown, ContentGiven, Keeps

LEMMA ReturnStep ==
  ASSUME GateInv, NEW c \in Clients, Return(c)
  PROVE  GateInv'
<1>1. TablesInv' /\ settings' = settings /\ \A o \in Clients : Keeps(o)
  BY WorldStays DEF Return, GateInv
<1>2. /\ pc[c] = "running" /\ pc' = [pc EXCEPT ![c] = "over"] /\ Show(c)
      /\ answer' = [answer EXCEPT ![c] = Ok("none")]
      /\ argv' = argv /\ sender' = sender /\ ran' = ran
      /\ original' = original /\ sent' = sent
  BY DEF Return, Goto, Answer, replyVars
<1>3. DOMAIN shown' = Clients /\ \A o \in Clients \ {c} : shown'[o] = shown[o]
  BY <1>2 DEF Show, GateInv, RequestTypes
<1>4. RequestTypes' /\ pc'[c] = "over" /\ answer'[c].route = "none"
  BY <1>1, <1>2, <1>3 DEF GateInv, RequestTypes, Stages, Ok, Answered
<1>5. \A o \in Clients \ {c} : Same(o)
  BY <1>2, <1>3 DEF GateInv, RequestTypes, Same
<1>6. Approved(c)'
  BY <1>1, <1>2, <1>4 DEF GateInv, RequestInv, Approved, Keeps
<1>7. ReplyRouted(c)'
  BY <1>2, <1>4 DEF GateInv, RequestInv, ReplyRouted, WritersFor
<1> QED BY <1>1, <1>2, <1>4, <1>5, <1>6, <1>7, StepKeeps, ShownIsGiven DEF Settled

LEMMA ReturnReplyStep ==
  ASSUME GateInv, NEW c \in Clients, ReturnReply(c)
  PROVE  GateInv'
<1>1. TablesInv' /\ settings' = settings /\ \A o \in Clients : Keeps(o)
  BY WorldStays DEF ReturnReply, GateInv
<1>2. /\ pc[c] = "running" /\ Show(c)
      /\ argv' = argv /\ sender' = sender /\ ran' = ran /\ original' = original
  BY DEF ReturnReply
<1>3. PICK m \in RepliedTo(argv[c]) :
        /\ \E asked \in BOOLEAN :
             sent' = [sent EXCEPT ![c] = IF asked THEN {<<"native", writerOf[m]>>} ELSE {}]
        /\ \/ /\ pc' = [pc EXCEPT ![c] = "over"]
              /\ \E route \in {"none", "question_answer"} :
                   answer' = [answer EXCEPT ![c] = Ok(route)]
           \/ pc' = [pc EXCEPT ![c] = "lookup"] /\ answer' = answer
  <2>1. PICK m \in RepliedTo(argv[c]) :
          /\ sent' = [sent EXCEPT ![c] = IF posted[m] = "question" THEN {<<"native", writerOf[m]>>} ELSE {}]
          /\ \/ \E route \in {"none", "question_answer"} : Answer(c, Ok(route))
             \/ Goto(c, "lookup") /\ UNCHANGED answer
    BY DEF ReturnReply
  <2> QED BY <2>1 DEF Answer, Goto
<1>4. DOMAIN shown' = Clients /\ \A o \in Clients \ {c} : shown'[o] = shown[o]
  BY <1>2 DEF Show, GateInv, RequestTypes
<1>5. /\ RequestTypes' /\ pc'[c] \in {"over", "lookup"}
      /\ \/ answer'[c] = answer[c]
         \/ pc'[c] = "over" /\ answer'[c].route \in {"none", "question_answer"}
  BY <1>1, <1>2, <1>3, <1>4 DEF GateInv, RequestTypes, Stages, Ok, Answered
<1>6. \A o \in Clients \ {c} : Same(o)
  BY <1>2, <1>3, <1>4 DEF GateInv, RequestTypes, Same
<1>7. Approved(c)'
  BY <1>1, <1>2, <1>5 DEF GateInv, RequestInv, Approved, Keeps
<1>8. ReplyRouted(c)'
  <2>1. \A s \in sent'[c] : s[2] \in WritersFor(c)
    BY <1>3 DEF WritersFor, GateInv, RequestTypes
  <2>2. answer'[c].route # "dual_routed"
    BY <1>2, <1>5 DEF GateInv, RequestInv, ReplyRouted, Answered
  <2> QED BY <1>2, <1>5, <2>1, <2>2 DEF GateInv, RequestInv, ReplyRouted, WritersFor
<1> QED BY <1>1, <1>2, <1>5, <1>6, <1>7, <1>8, StepKeeps, ShownIsGiven DEF Settled

LEMMA LookupStep ==
  ASSUME GateInv, NEW c \in Clients, Lookup(c)
  PROVE  GateInv'
<1>1. TablesInv' /\ settings' = settings /\ \A o \in Clients : Keeps(o)
  BY WorldStays DEF Lookup, GateInv
<1>2. /\ pc[c] = "lookup" /\ pc' = [pc EXCEPT ![c] = "routing"]
      /\ argv' = argv /\ sender' = sender /\ answer' = answer /\ shown' = shown
      /\ ran' = ran /\ sent' = sent
      /\ \/ \E m \in RepliedTo(argv[c]) : original' = [original EXCEPT ![c] = m]
         \/ original' = original
  BY DEF Lookup, Goto
<1>3. RepliedTo(argv[c]) \subseteq Messages
  BY DEF RepliedTo
<1>4. RequestTypes' /\ pc'[c] = "routing"
  BY <1>1, <1>2, <1>3 DEF GateInv, RequestTypes, Stages
<1>5. /\ \A o \in Clients \ {c} : Same(o)
      /\ original'[c] = original[c] \/ original'[c] \in RepliedTo(argv[c])
  BY <1>2 DEF GateInv, RequestTypes, Same
<1>6. Approved(c)'
  BY <1>1, <1>2, <1>4 DEF GateInv, RequestInv, Approved, Keeps
<1>7. ReplyRouted(c)'
  <2>1. original'[c] # NoValue => original'[c] \in RepliedTo(argv[c])
    BY <1>5 DEF GateInv, RequestInv, ReplyRouted
  <2> QED BY <1>2, <1>4, <2>1 DEF GateInv, RequestInv, ReplyRouted, WritersFor, RepliedTo
<1>8. ContentGiven(c)'
  BY <1>1, <1>2 DEF GateInv, RequestInv, ContentGiven, Keeps
<1> QED BY <1>1, <1>4, <1>5, <1>6, <1>7, <1>8, StepKeeps DEF Settled

(* The worker of a message is the one that wrote it: by the id on the message, or by
   the terminal, which is of one dispatch only (resolveWorkerDispatchId). *)
LEMMA WorkerAddressedIsWriter ==
  ASSUME NEW m \in Messages, NEW listed \in SUBSET Dispatches
  PROVE  WorkerAddressed(m, listed) \subseteq {writerOf[m]}
<1>1. writerOf[m] \in Dispatches
  BY GateAssumption
<1>2. ASSUME NEW d \in listed, terminalOf[d] = terminalOf[writerOf[m]]
      PROVE  d = writerOf[m]
  BY <1>1, <1>2, GateAssumption
<1> QED BY <1>2 DEF WorkerAddressed

LEMMA RouteStep ==
  ASSUME GateInv, NEW c \in Clients, Route(c)
  PROVE  GateInv'
<1> DEFINE m == original[c]
<1>1. TablesInv' /\ settings' = settings /\ \A o \in Clients : Keeps(o)
  BY WorldStays DEF Route, GateInv
<1>2. /\ pc[c] = "routing" /\ argv' = argv /\ sender' = sender /\ shown' = shown
      /\ ran' = ran /\ original' = original
  BY DEF Route
<1>3. \/ \E result \in {Ok("dispatch_id_unresolved"), Ok("not_routed")} :
           Answer(c, result) /\ sent' = sent
      \/ \E listed \in SUBSET Dispatches, d \in Dispatches :
           /\ m # NoValue /\ d \in WorkerAddressed(m, listed)
           /\ Answer(c, Ok("dual_routed"))
           /\ sent' = [sent EXCEPT ![c] = @ \cup {<<"followup", d>>}]
  <2>1. PICK listed \in {{}, IF c \in gone THEN {} ELSE tables.rows} :
          \/ Answer(c, Ok("dispatch_id_unresolved")) /\ sent' = sent
          \/ \E d \in IF m = NoValue THEN {} ELSE WorkerAddressed(m, listed) :
               /\ Answer(c, Ok("dual_routed"))
               /\ sent' = [sent EXCEPT ![c] = @ \cup {<<"followup", d>>}]
          \/ Answer(c, Ok("not_routed")) /\ sent' = sent
    BY DEF Route
  <2>2. listed \in SUBSET Dispatches
    BY DEF GateInv, TablesInv, Tables
  <2>3. m # NoValue => WorkerAddressed(m, listed) \subseteq Dispatches
    BY <2>2, WorkerAddressedIsWriter, GateAssumption DEF GateInv, RequestTypes
  <2> QED BY <2>1, <2>2, <2>3
<1>4. /\ \/ pc' = [pc EXCEPT ![c] = "over"] /\ sent' = sent
            /\ \E r \in {"dispatch_id_unresolved", "not_routed"} :
                 answer' = [answer EXCEPT ![c] = Ok(r)]
         \/ /\ pc' = [pc EXCEPT ![c] = "over"] /\ answer' = [answer EXCEPT ![c] = Ok("dual_routed")]
            /\ \E d \in WritersFor(c) :
                 sent' = [sent EXCEPT ![c] = @ \cup {<<"followup", d>>}]
  <2>1. CASE \E result \in {Ok("dispatch_id_unresolved"), Ok("not_routed")} :
               Answer(c, result) /\ sent' = sent
    BY <2>1 DEF Answer, Goto
  <2>2. ASSUME NEW listed \in SUBSET Dispatches, NEW d \in WorkerAddressed(m, listed),
               m # NoValue
        PROVE  d \in WritersFor(c)
    <3>1. m \in RepliedTo(argv[c]) /\ m \in Messages
      BY <2>2 DEF GateInv, RequestInv, ReplyRouted, RequestTypes
    <3> QED BY <3>1, WorkerAddressedIsWriter DEF WritersFor
  <2> QED BY <1>3, <2>1, <2>2 DEF Answer, Goto
<1>5. RequestTypes' /\ pc'[c] = "over"
  BY <1>1, <1>2, <1>4 DEF GateInv, RequestTypes, Stages
<1>6. /\ \A o \in Clients \ {c} : Same(o)
      /\ \/ answer'[c].route # "dual_routed" /\ sent'[c] = sent[c]
         \/ \E d \in WritersFor(c) : sent'[c] = sent[c] \cup {<<"followup", d>>}
  BY <1>2, <1>4 DEF GateInv, RequestTypes, Same, Ok, Answered
<1>7. Approved(c)'
  BY <1>1, <1>2, <1>5 DEF GateInv, RequestInv, Approved, Keeps
<1>8. ReplyRouted(c)'
  <2>1. /\ pc'[c] = "over" /\ argv'[c] = argv[c] /\ original'[c] = original[c]
        /\ WritersFor(c)' = WritersFor(c)
    BY <1>2, <1>5 DEF WritersFor, RepliedTo
  <2>2. original'[c] # NoValue => original'[c] \in RepliedTo(argv'[c])
    BY <2>1 DEF GateInv, RequestInv, ReplyRouted
  <2>3. \A s \in sent'[c] : s[2] \in WritersFor(c)
    BY <1>6 DEF GateInv, RequestInv, ReplyRouted
  <2>4. answer'[c].route = "dual_routed" => \E d \in WritersFor(c) : <<"followup", d>> \in sent'[c]
    BY <1>6
  <2> QED BY <2>1, <2>2, <2>3, <2>4 DEF ReplyRouted
<1>9. ContentGiven(c)'
  BY <1>1, <1>2 DEF GateInv, RequestInv, ContentGiven, Keeps
<1> QED BY <1>1, <1>5, <1>6, <1>7, <1>8, <1>9, StepKeeps DEF Settled

LEMMA LeaveStep ==
  ASSUME GateInv, NEW c \in Clients, Leave(c)
  PROVE  GateInv'
<1>1. TablesInv' /\ settings' = settings /\ \A o \in Clients : Keeps(o)
  BY WorldStays DEF Leave, GateInv
<1>2. /\ pc' = pc /\ argv' = argv /\ sender' = sender /\ answer' = answer /\ shown' = shown
      /\ ran' = ran /\ original' = original /\ sent' = sent
  BY DEF Leave, replyVars
<1>3. RequestTypes'
  BY <1>1, <1>2 DEF GateInv, RequestTypes
<1>4. \A o \in Clients : Settled(o)'
  <2> SUFFICES ASSUME NEW o \in Clients PROVE Settled(o)'
    OBVIOUS
  <2>1. Same(o) /\ Keeps(o) /\ Settled(o)
    BY <1>1, <1>2 DEF Same, GateInv, RequestInv, Settled
  <2> QED BY <2>1, SameKeeps
<1> QED BY <1>1, <1>3, <1>4 DEF GateInv, RequestInv, Settled

LEMMA FinishStep ==
  ASSUME GateInv, NEW c \in Clients, Finish(c)
  PROVE  GateInv'
<1>1. TablesInv' /\ settings' = settings /\ \A o \in Clients : Keeps(o)
  BY WorldStays DEF Finish, GateInv
<1>2. /\ pc' = [pc EXCEPT ![c] = "idle"] /\ argv' = [argv EXCEPT ![c] = NoArgv]
      /\ ran' = [ran EXCEPT ![c] = NoArgv]
      /\ answer' = [answer EXCEPT ![c] = Answered("none", "none")]
      /\ sender' = [sender EXCEPT ![c] = NoValue] /\ original' = [original EXCEPT ![c] = NoValue]
      /\ shown' = [shown EXCEPT ![c] = {}] /\ sent' = [sent EXCEPT ![c] = {}]
  BY DEF Finish, Goto
<1>3. RequestTypes'
  BY <1>1, <1>2 DEF GateInv, RequestTypes, Stages
<1>4. \A o \in Clients \ {c} : Same(o)
  BY <1>2 DEF GateInv, RequestTypes, Same
<1>5. /\ pc'[c] = "idle" /\ argv'[c] = NoArgv /\ ran'[c] = NoArgv
      /\ answer'[c] = Answered("none", "none") /\ sender'[c] = NoValue /\ original'[c] = NoValue
      /\ shown'[c] = {} /\ sent'[c] = {}
  BY <1>2 DEF GateInv, RequestTypes
<1>6. Approved(c)' /\ ReplyRouted(c)' /\ ContentGiven(c)'
  BY <1>5 DEF Approved, ReplyRouted, ContentGiven, Answered
<1> QED BY <1>1, <1>3, <1>4, <1>6, StepKeeps DEF Settled

-----------------------------------------------------------------------------
(* The specification keeps the invariant. *)

LEMMA InitGate == Init => GateInv
<1> SUFFICES ASSUME Init PROVE GateInv
  OBVIOUS
<1>1. TablesInv
  BY DEF Init, TablesInv, Tables, Nobody, Notes
<1>2. RequestTypes
  BY DEF Init, RequestTypes, Stages, Nobody
<1>3. RequestInv
  BY DEF Init, RequestInv, Approved, ReplyRouted, ContentGiven, Nobody, Answered
<1> QED BY <1>1, <1>2, <1>3 DEF GateInv

LEMMA CallersAreClients == Callers \subseteq Clients
BY GateAssumption

LEMMA NextGate == GateInv /\ [Next]_vars => GateInv'
<1> SUFFICES ASSUME GateInv, [Next]_vars PROVE GateInv'
  OBVIOUS
<1>1. CASE World
  BY <1>1, WorldStep
<1>2. ASSUME NEW c \in Callers, NEW a \in Argvs, Submit(c, a) PROVE GateInv'
  BY <1>2, SubmitStep, CallersAreClients
<1>3. ASSUME NEW c \in Callers, RequestStep(c) PROVE GateInv'
  BY <1>3, DecideStep, ResolveStep, SpawnStep, FailStep, ReturnStep, ReturnReplyStep,
     LookupStep, RouteStep, FinishStep, CallersAreClients DEF RequestStep
<1>4. ASSUME NEW c \in Callers, Leave(c) PROVE GateInv'
  BY <1>4, LeaveStep, CallersAreClients
<1>5. CASE UNCHANGED vars
  <2>1. UNCHANGED worldVars /\ UNCHANGED requestVars
    BY <1>5 DEF vars
  <2>2. TablesInv' /\ settings' = settings /\ \A o \in Clients : Keeps(o)
    BY <2>1, WorldStays DEF GateInv
  <2>3. Changed
    BY <2>1, <2>2 DEF Changed
  <2> QED BY <2>3, ChangedKeeps
<1> QED BY <1>1, <1>2, <1>3, <1>4, <1>5 DEF Next

(* Whatever the tables hold for a client it was given, a command that is to run names
   nothing else, and a reply is on its way to the writer of its message: for every
   order of requests and changes of the tables (server.mjs, callTool). *)
THEOREM GateInvariant == Spec => []GateInv
<1>1. Init => GateInv
  BY InitGate
<1>2. GateInv /\ [Next]_vars => GateInv'
  BY NextGate
<1> QED BY <1>1, <1>2, PTL DEF Spec

(* The variables keep their types, and a command spelled as in the specifications that
   needs a sender has one when it runs (withSender, server.mjs). *)
THEOREM GateTypeCorrect == Spec => []TypeOK
<1>1. GateInv => TypeOK
  <2> SUFFICES ASSUME GateInv PROVE TypeOK
    OBVIOUS
  <2>1. \A c \in Clients : tables.pin[c] # NoValue => tables.pin[c] \in tables.coordinators
    BY DEF GateInv, TablesInv
  <2>2. \A c \in Clients :
          NeedsSender(argv[c]) /\ pc[c] \in {"spawning", "running"} => sender[c] # NoValue
    BY DEF GateInv, RequestInv, Approved
  <2> QED BY <2>1, <2>2 DEF TypeOK, GateInv, TablesInv, Tables, RequestTypes
<1> QED BY <1>1, GateInvariant, PTL

(* Content of a terminal is shown to a client that was given the terminal, and of a
   node without a handle to who was given the one around it (redactOwnershipContent). *)
THEOREM GateContentStaysWithOwner == Spec => []ContentStaysWithOwner
<1>1. GateInv => ContentStaysWithOwner
  BY CallersAreClients DEF GateInv, RequestInv, ContentGiven, ContentStaysWithOwner
<1> QED BY <1>1, GateInvariant, PTL

(* A reply goes to the mailbox of the worker that wrote the message and to no other, and
   only one that went there is answered dual_routed (dualRouteNonQuestionReply). *)
THEOREM GateRepliesReachTheirWorker == Spec => []RepliesReachTheirWorker
<1>1. GateInv => RepliesReachTheirWorker
  BY CallersAreClients
     DEF GateInv, RequestInv, ReplyRouted, WritersFor, RepliesReachTheirWorker
<1> QED BY <1>1, GateInvariant, PTL

-----------------------------------------------------------------------------
(* The reference monitor. *)

LEMMA GivenAreObjects ==
  ASSUME NEW t \in Tables, NEW used \in [Clients -> SUBSET Runs], NEW c \in Clients
  PROVE  GivenIn(t, used, c) \subseteq Objects
<1> SUFFICES ASSUME NEW x \in GivenIn(t, used, c) PROVE x \in Objects
  OBVIOUS
<1>1. \A d \in PlacedOf(t, c) : d \in Dispatches
      /\ terminalOf[d] \in Terminals /\ taskOf[d] \in Tasks /\ runOf[d] \in Runs
      /\ worktreeOf[d] \in Worktrees
  BY PolicyAssumption DEF Tables, PlacedOf
<1>2. RowsOf(t, c) \subseteq PlacedOf(t, c)
  BY DEF RowsOf, PlacedOf
<1>3. CASE x \in t.coordinators \/ x \in used[c]
  BY <1>3 DEF Tables, Objects, Handles
<1>4. CASE \E d \in PlacedOf(t, c) : x \in {terminalOf[d], taskOf[d], runOf[d], d, worktreeOf[d]}
  BY <1>1, <1>4 DEF Objects, Handles
<1> QED BY <1>2, <1>3, <1>4, GivenInIs

(* The sender a command is given replaces its own; nothing else comes in.  A command
   that is given none is run as it is, and its --from counts for nothing. *)
LEMMA InjectTouches ==
  ASSUME NEW a \in Argvs \cup {NoArgv}, NEW h
  PROVE  TouchedBy(Inject(a, h)) \subseteq
           Named(a) \cup (IF NeedsSender(a) THEN {h} ELSE {})
<1> DEFINE Without(flag) == {p \in a.pairs : p[1] # flag}
           Put(flag) == [a EXCEPT !.pairs = Without(flag) \cup {<<flag, h>>}]
<1>1. a = [cmd |-> a.cmd, spelled |-> a.spelled, pairs |-> a.pairs]
  <2>1. CASE a \in Argvs
    BY <2>1, GateAssumption
  <2>2. CASE a = NoArgv
    BY <2>2 DEF NoArgv
  <2> QED BY <2>1, <2>2
<1>2. /\ a.cmd \in FromCommands \cup MailboxCommands => a.cmd # "file open"
      /\ a.cmd \in MailboxCommands => a.cmd \notin FromCommands
  BY DEF FromCommands, MailboxCommands
<1>3. \A flag : /\ Put(flag).cmd = a.cmd /\ Put(flag).spelled = a.spelled
                /\ Put(flag).pairs = Without(flag) \cup {<<flag, h>>}
  BY <1>1
<1>31. \A flag : NeedsSender(Put(flag)) = NeedsSender(a)
  BY <1>3 DEF NeedsSender
<1>4. \A flag : ValuesOf(Put(flag), TargetFlags \cup {flag}) \subseteq ValuesOf(a, TargetFlags) \cup {h}
  <2> SUFFICES ASSUME NEW flag, NEW p \in Put(flag).pairs, p[1] \in TargetFlags \cup {flag}
               PROVE  p[2] \in ValuesOf(a, TargetFlags) \cup {h}
    BY DEF ValuesOf
  <2>1. CASE p = <<flag, h>>
    BY <2>1
  <2>2. CASE p \in Without(flag)
    BY <2>2 DEF ValuesOf
  <2> QED BY <1>3, <2>1, <2>2
<1> HIDE DEF Put
<1>5. CASE NeedsSender(a) /\ a.cmd \in FromCommands
  <2>1. Inject(a, h) = Put("from")
    BY <1>2, <1>5 DEF Inject, Put
  <2>2. TouchedBy(Inject(a, h)) = Objects \cap ValuesOf(Put("from"), TargetFlags \cup {"from"})
    BY <1>2, <1>3, <1>31, <1>5, <2>1 DEF TouchedBy
  <2>3. Named(a) = Objects \cap ValuesOf(a, TargetFlags)
    BY <1>2, <1>5 DEF Named
  <2> QED BY <1>4, <1>5, <2>2, <2>3
<1>6. CASE NeedsSender(a) /\ a.cmd \in MailboxCommands
  <2>1. Inject(a, h) = Put("terminal")
    BY <1>2, <1>6 DEF Inject, Put
  <2>2. TouchedBy(Inject(a, h)) = Objects \cap ValuesOf(Put("terminal"), TargetFlags \cup {"terminal"})
    BY <1>2, <1>3, <1>31, <1>6, <2>1, TargetFlagsAre DEF TouchedBy
  <2>3. Named(a) = Objects \cap ValuesOf(a, TargetFlags)
    BY <1>2, <1>6 DEF Named
  <2> QED BY <1>4, <1>6, <2>2, <2>3
<1>7. CASE ~NeedsSender(a)
  <2>1. Inject(a, h) = a
    BY <1>7 DEF Inject
  <2> QED BY <1>7, <2>1 DEF TouchedBy, Named
<1> QED BY <1>5, <1>6, <1>7 DEF NeedsSender

LEMMA NothingTouched == TouchedBy(NoArgv) = {}
BY DEF TouchedBy, ValuesOf, NoArgv

(* A step of the request of c alone, that gives nobody anything. *)
Alone(c) == \A o \in Clients :
  Given(o)' = Given(o) /\ (o # c => Stage(o)' = Stage(o) /\ ran'[o] = ran[o])

LEMMA MonitorSteps ==
  ASSUME NEW c \in Clients, Alone(c)
  PROVE  /\ Stage(c)' = Stage(c) /\ ran'[c] = ran[c] => UNCHANGED Monitor!monitorVars
         /\ Stage(c) = "idle" /\ Stage(c)' = "asked" /\ ran'[c] = ran[c] => Monitor!Ask(c)
         /\ Stage(c) \in {"idle", "asked"} /\ Stage(c)' = "over" /\ ran'[c] = ran[c] =>
              Monitor!Refuse(c)
         /\ Stage(c) = "asked" /\ Stage(c)' = "over" /\ TouchedBy(ran'[c]) \subseteq Given(c) =>
              Monitor!Perform(c)
         /\ Stage(c) = "over" /\ Stage(c)' = "idle" /\ ran'[c] = NoArgv => Monitor!Leave(c)
<1> DEFINE may == [o \in Clients |-> Given(o)]
           stage == [o \in Clients |-> Stage(o)]
           touched == [o \in Clients |-> TouchedBy(ran[o])]
<1>1. may' = may
  BY DEF Alone
<1>2. stage' = [stage EXCEPT ![c] = Stage(c)']
  BY DEF Alone
<1>3. touched' = [touched EXCEPT ![c] = TouchedBy(ran'[c])]
  BY DEF Alone, TouchedBy
<1>4. Stage(c)' = Stage(c) => stage' = stage
  BY DEF Alone
<1>5. ran'[c] = ran[c] => touched' = touched
  BY DEF Alone, TouchedBy
<1>6. may[c] = Given(c) /\ stage[c] = Stage(c) /\ touched'[c] = TouchedBy(ran'[c])
  BY <1>3
<1>7. ran'[c] = NoArgv => TouchedBy(ran'[c]) = {}
  BY NothingTouched
<1>8. Stage(c)' = Stage(c) /\ ran'[c] = ran[c] => UNCHANGED Monitor!monitorVars
  BY <1>1, <1>4, <1>5 DEF Monitor!monitorVars
<1>9. Stage(c) = "idle" /\ Stage(c)' = "asked" /\ ran'[c] = ran[c] => Monitor!Ask(c)
  BY <1>1, <1>2, <1>5, <1>6 DEF Monitor!Ask
<1>10. Stage(c) \in {"idle", "asked"} /\ Stage(c)' = "over" /\ ran'[c] = ran[c] => Monitor!Refuse(c)
  BY <1>1, <1>2, <1>5, <1>6 DEF Monitor!Refuse
<1>11. Stage(c) = "asked" /\ Stage(c)' = "over" /\ TouchedBy(ran'[c]) \subseteq Given(c) =>
         Monitor!Perform(c)
  BY <1>1, <1>2, <1>3, <1>6 DEF Monitor!Perform
<1>12. Stage(c) = "over" /\ Stage(c)' = "idle" /\ ran'[c] = NoArgv => Monitor!Leave(c)
  BY <1>1, <1>2, <1>3, <1>6, <1>7 DEF Monitor!Leave
<1> QED BY <1>8, <1>9, <1>10, <1>11, <1>12

(* A step of the request of c: nobody is given anything, or c a tab. *)
LEMMA GiveStep ==
  ASSUME TablesInv', \A o \in Clients : Keeps(o) /\ Stage(o)' = Stage(o), ran' = ran
  PROVE  Monitor!Give
<1> DEFINE may == [o \in Clients |-> Given(o)]
           stage == [o \in Clients |-> Stage(o)]
           touched == [o \in Clients |-> TouchedBy(ran[o])]
<1>1. \A o \in Clients : Given(o)' \subseteq Objects
  BY GivenAreObjects DEF TablesInv, Given, GivenIn
<1>2. may' \in [Clients -> SUBSET Objects] /\ \A o \in Clients : may[o] \subseteq may'[o]
  BY <1>1 DEF Keeps
<1>3. stage' = stage /\ touched' = touched
  BY DEF TouchedBy
<1> QED BY <1>2, <1>3 DEF Monitor!Give

LEMMA InitMonitor == Init => Monitor!MonitorInit
<1> SUFFICES ASSUME Init PROVE Monitor!MonitorInit
  OBVIOUS
<1>1. ASSUME NEW c \in Clients PROVE Given(c) = {}
  <2>1. GivenIn(tables, runsUsed, c) = {}
    <3> SUFFICES ASSUME NEW x \in GivenIn(tables, runsUsed, c) PROVE FALSE
      OBVIOUS
    <3>1. tables.coordinators = {} /\ PlacedOf(tables, c) = {} /\ RowsOf(tables, c) = {}
          /\ runsUsed[c] = {}
      BY DEF Init, PlacedOf, RowsOf
    <3> QED BY <3>1, GivenInIs
  <2> QED BY <2>1, GivenIs
<1>2. ASSUME NEW c \in Clients PROVE Stage(c) = "idle" /\ ran[c] = NoArgv
  BY DEF Init, Stage
<1>3. [c \in Clients |-> Given(c)] = [c \in Clients |-> {}]
  BY <1>1
<1>4. [c \in Clients |-> Stage(c)] = [c \in Clients |-> "idle"]
  BY <1>2
<1>5. [c \in Clients |-> TouchedBy(ran[c])] = [c \in Clients |-> {}]
  BY <1>2, NothingTouched
<1> QED BY <1>3, <1>4, <1>5 DEF Monitor!MonitorInit

(* The tables as they are, and a step of one request. *)
LEMMA GivenStays ==
  ASSUME tables' = tables, runsUsed' = runsUsed
  PROVE  \A o \in Clients : Given(o)' = Given(o)
BY GivenIs DEF Given, GivenIn

LEMMA OneRequest ==
  ASSUME GateInv, NEW c \in Clients, NEW stage, pc' = [pc EXCEPT ![c] = stage],
         \A o \in Clients : Given(o)' = Given(o),
         ran' = ran \/ \E x : ran' = [ran EXCEPT ![c] = x]
  PROVE  Alone(c) /\ pc'[c] = stage
BY DEF Alone, GateInv, RequestTypes, Stage

MonitorStep == [Monitor!MonitorNext]_Monitor!monitorVars

LEMMA MonitorMoves ==
  /\ UNCHANGED Monitor!monitorVars \/ Monitor!Give => MonitorStep
  /\ \A c \in Clients : Monitor!Ask(c) \/ Monitor!Refuse(c) \/ Monitor!Perform(c) \/ Monitor!Leave(c)
       => MonitorStep
BY DEF MonitorStep, Monitor!MonitorNext

LEMMA MonitorSubmit ==
  ASSUME GateInv, NEW c \in Clients, NEW a \in Argvs, Submit(c, a)
  PROVE  MonitorStep
<1>1. /\ pc[c] = "idle" /\ tables' = tables /\ runsUsed' = runsUsed /\ ran' = ran
      /\ \E s \in {"locked", "over"} : pc' = [pc EXCEPT ![c] = s]
  BY DEF Submit, Goto, Answer, worldVars
<1>2. Alone(c) /\ pc'[c] \in {"locked", "over"}
  BY <1>1, OneRequest, GivenStays
<1>3. Stage(c) = "idle" /\ Stage(c)' \in {"asked", "over"}
  BY <1>1, <1>2 DEF Stage
<1> QED BY <1>1, <1>2, <1>3, MonitorSteps, MonitorMoves

LEMMA MonitorDecide ==
  ASSUME GateInv, NEW c \in Clients, Decide(c)
  PROVE  MonitorStep
<1>1. /\ pc[c] = "locked" /\ tables' = tables /\ runsUsed' = runsUsed /\ ran' = ran
      /\ \E s \in {"resolving", "spawning", "over"} : pc' = [pc EXCEPT ![c] = s]
  BY DEF Decide, Goto, Answer, worldVars
<1>2. Alone(c) /\ pc'[c] \in {"resolving", "spawning", "over"}
  BY <1>1, OneRequest, GivenStays
<1>3. Stage(c) = "asked" /\ Stage(c)' \in {"asked", "over"}
  BY <1>1, <1>2 DEF Stage
<1> QED BY <1>1, <1>2, <1>3, MonitorSteps, MonitorMoves

LEMMA MonitorResolve ==
  ASSUME GateInv, NEW c \in Clients, Resolve(c)
  PROVE  MonitorStep
<1>1. /\ pc[c] = "resolving" /\ runsUsed' = runsUsed /\ ran' = ran /\ posted' = posted
  BY DEF Resolve, replyVars
<1>2. CASE pc' = [pc EXCEPT ![c] = "spawning"]
  <2>1. TablesInv' /\ \A o \in Clients : Keeps(o)
    <3>1. CASE tables' = tables
      BY <1>1, <3>1, GivenGrows DEF GateInv, TablesInv
    <3>2. CASE \E h \in Tabs : tabOwner[h] = c /\ tables' = Pinned(tables, c, h)
      BY <1>1, <3>2, PinnedTables DEF GateInv
    <3>3. pc' # [pc EXCEPT ![c] = "over"]
      BY <1>2 DEF GateInv, RequestTypes
    <3> QED BY <3>1, <3>2, <3>3 DEF Resolve, Answer, Goto
  <2>2. \A o \in Clients : Stage(o)' = Stage(o)
    BY <1>1, <1>2 DEF GateInv, RequestTypes, Stage
  <2> QED BY <1>1, <2>1, <2>2, GiveStep, MonitorMoves
<1>3. CASE pc' = [pc EXCEPT ![c] = "over"] /\ tables' = [tables EXCEPT !.pin[c] = NoValue]
  <2>1. \A o \in Clients : Given(o)' = Given(o)
    BY <1>1, <1>3 DEF Given, PlacedOf, RowsOf, GateInv, TablesInv, Tables
  <2>2. Alone(c) /\ pc'[c] = "over"
    BY <1>1, <1>3, <2>1, OneRequest
  <2>3. Stage(c) = "asked" /\ Stage(c)' = "over"
    BY <1>1, <2>2 DEF Stage
  <2> QED BY <1>1, <2>2, <2>3, MonitorSteps, MonitorMoves
<1> QED BY <1>2, <1>3 DEF Resolve, Goto, Answer

(* The command runs on what was approved and with the caller's own tab. *)
LEMMA MonitorSpawn ==
  ASSUME GateInv, NEW c \in Clients, Spawn(c)
  PROVE  MonitorStep
<1>1. /\ pc[c] = "spawning" /\ tables' = tables /\ runsUsed' = runsUsed
      /\ pc' = [pc EXCEPT ![c] = "running"]
      /\ ran' = [ran EXCEPT ![c] = Inject(argv[c], sender[c])]
  BY DEF Spawn, Goto, worldVars
<1>2. Alone(c) /\ pc'[c] = "running" /\ ran'[c] = Inject(argv[c], sender[c])
  <2>1. ran'[c] = Inject(argv[c], sender[c])
    BY <1>1 DEF GateInv, RequestTypes
  <2> QED BY <1>1, <2>1, OneRequest, GivenStays
<1>3. Stage(c) = "asked" /\ Stage(c)' = "over"
  BY <1>1, <1>2 DEF Stage
<1>4. TouchedBy(ran'[c]) \subseteq Given(c)
  <2>1. argv[c] \in Argvs \cup {NoArgv}
    BY DEF GateInv, RequestTypes
  <2>2. Named(argv[c]) \subseteq Given(c)
    BY <1>1 DEF GateInv, RequestInv, Approved
  <2>3. NeedsSender(argv[c]) => sender[c] \in Given(c)
    BY <1>1 DEF GateInv, RequestInv, Approved
  <2> QED BY <1>2, <2>1, <2>2, <2>3, InjectTouches
<1> QED BY <1>2, <1>3, <1>4, MonitorSteps, MonitorMoves

(* Once the command ran, nothing until the answer is out is a step of the monitor. *)
LEMMA MonitorRest ==
  ASSUME GateInv, NEW c \in Clients,
         Fail(c) \/ Return(c) \/ ReturnReply(c) \/ Lookup(c) \/ Route(c) \/ Leave(c)
  PROVE  MonitorStep
<1>1. /\ tables' = tables /\ runsUsed' = runsUsed /\ ran' = ran
      /\ \E s \in {pc[c], "lookup", "routing", "over"} : pc' = [pc EXCEPT ![c] = s]
      /\ pc' = pc \/ pc[c] \in {"running", "lookup", "routing"}
  <2>1. CASE Leave(c)
    BY <2>1 DEF Leave, worldVars, GateInv, RequestTypes
  <2>2. CASE Fail(c) \/ Return(c)
    BY <2>2 DEF Fail, Return, Goto, Answer, worldVars
  <2>3. CASE ReturnReply(c)
    BY <2>3 DEF ReturnReply, Goto, Answer, worldVars
  <2>4. CASE Lookup(c) \/ Route(c)
    BY <2>4 DEF Lookup, Route, Goto, Answer, worldVars
  <2> QED BY <2>1, <2>2, <2>3, <2>4
<1>2. Alone(c) /\ pc'[c] \in {pc[c], "lookup", "routing", "over"}
  BY <1>1, OneRequest, GivenStays
<1>3. Stage(c)' = Stage(c)
  BY <1>1, <1>2 DEF Stage
<1> QED BY <1>1, <1>2, <1>3, MonitorSteps, MonitorMoves

LEMMA MonitorFinish ==
  ASSUME GateInv, NEW c \in Clients, Finish(c)
  PROVE  MonitorStep
<1>1. /\ pc[c] = "over" /\ tables' = tables /\ runsUsed' = runsUsed
      /\ pc' = [pc EXCEPT ![c] = "idle"] /\ ran' = [ran EXCEPT ![c] = NoArgv]
  BY DEF Finish, Goto, worldVars
<1>2. Alone(c) /\ pc'[c] = "idle" /\ ran'[c] = NoArgv
  <2>1. ran'[c] = NoArgv
    BY <1>1 DEF GateInv, RequestTypes
  <2> QED BY <1>1, <2>1, OneRequest, GivenStays
<1>3. Stage(c) = "over" /\ Stage(c)' = "idle"
  BY <1>1, <1>2 DEF Stage
<1> QED BY <1>2, <1>3, MonitorSteps, MonitorMoves

LEMMA NextMonitor == GateInv /\ [Next]_vars => MonitorStep
<1> SUFFICES ASSUME GateInv, [Next]_vars PROVE MonitorStep
  OBVIOUS
<1>1. CASE World
  <2>1. Changed
    BY <1>1, WorldChanges DEF GateInv
  <2>2. pc' = pc /\ ran' = ran /\ TablesInv' /\ \A o \in Clients : Keeps(o)
    BY <2>1 DEF Changed, requestVars
  <2>3. \A o \in Clients : Stage(o)' = Stage(o)
    BY <2>2 DEF Stage
  <2> QED BY <2>2, <2>3, GiveStep, MonitorMoves
<1>2. ASSUME NEW c \in Callers, NEW a \in Argvs, Submit(c, a) PROVE MonitorStep
  BY <1>2, MonitorSubmit, CallersAreClients
<1>3. ASSUME NEW c \in Callers, RequestStep(c) \/ Leave(c) PROVE MonitorStep
  BY <1>3, MonitorDecide, MonitorResolve, MonitorSpawn, MonitorRest, MonitorFinish,
     CallersAreClients DEF RequestStep
<1>4. CASE UNCHANGED vars
  <2>1. tables' = tables /\ runsUsed' = runsUsed /\ pc' = pc /\ ran' = ran
    BY <1>4 DEF vars, worldVars, requestVars
  <2>2. [c \in Clients |-> Given(c)]' = [c \in Clients |-> Given(c)]
    BY <2>1, GivenStays
  <2>3. [c \in Clients |-> Stage(c)]' = [c \in Clients |-> Stage(c)]
    BY <2>1 DEF Stage
  <2>4. [c \in Clients |-> TouchedBy(ran[c])]' = [c \in Clients |-> TouchedBy(ran[c])]
    BY <2>1 DEF TouchedBy
  <2> QED BY <2>2, <2>3, <2>4, MonitorMoves DEF Monitor!monitorVars
<1> QED BY <1>1, <1>2, <1>3, <1>4 DEF Next

(* The gate is a reference monitor: every object a command is run on had been given to
   its caller before, whatever flags named it, however it was spelled, and whatever the
   tables did between the decision and the run.  The --from counts if the bridge put
   it in (NeedsSender); nothing is said of the caller's own in a command spelled
   otherwise (evaluateCliArgv, withSender, injectSenderArgv). *)
THEOREM GateIsReferenceMonitor == Spec => IsReferenceMonitor
<1>1. Init => Monitor!MonitorInit
  BY InitMonitor
<1>2. GateInv /\ [Next]_vars => [Monitor!MonitorNext]_Monitor!monitorVars
  BY NextMonitor DEF MonitorStep
<1> QED BY <1>1, <1>2, GateInvariant, PTL DEF Spec, IsReferenceMonitor, Monitor!MonitorSpec

-----------------------------------------------------------------------------
(* What a decision depends on. *)

(* Another step of a request does not decide it. *)
LEMMA DecidesAlone ==
  ASSUME GateInv, Next, NEW c \in Callers, pc[c] = "locked", pc'[c] # "locked"
  PROVE  Decide(c)
<1>1. ~World
  <2> SUFFICES ASSUME World PROVE FALSE
    OBVIOUS
  <2>1. Changed
    BY WorldChanges DEF GateInv
  <2> QED BY <2>1 DEF Changed, requestVars
<1>2. ASSUME NEW o \in Callers,
             (\E a \in Argvs : Submit(o, a)) \/ RequestStep(o) \/ Leave(o)
      PROVE  Decide(c)
  <2>1. o \in Clients /\ c \in Clients
    BY CallersAreClients
  <2>2. pc' = pc \/ \E s \in Stages : pc' = [pc EXCEPT ![o] = s]
    <3>1. CASE (\E a \in Argvs : Submit(o, a)) \/ Decide(o)
      BY <3>1 DEF Submit, Decide, Goto, Answer, Stages
    <3>2. CASE Resolve(o) \/ Spawn(o) \/ Fail(o) \/ Return(o)
      BY <3>2 DEF Resolve, Spawn, Fail, Return, Goto, Answer, Stages
    <3>3. CASE ReturnReply(o)
      BY <3>3 DEF ReturnReply, Goto, Answer, Stages
    <3>4. CASE Lookup(o) \/ Route(o)
      BY <3>4 DEF Lookup, Route, Goto, Answer, Stages
    <3>5. CASE Finish(o) \/ Leave(o)
      BY <3>5 DEF Finish, Leave, Goto, Stages
    <3> QED BY <1>2, <3>1, <3>2, <3>3, <3>4, <3>5 DEF RequestStep
  <2>3. o = c
    BY <2>1, <2>2 DEF GateInv, RequestTypes
  <2>4. ~(\E a \in Argvs : Submit(c, a)) /\ ~Leave(c)
    BY DEF Submit, Leave
  <2>5. ~Resolve(c) /\ ~Spawn(c) /\ ~Fail(c) /\ ~Return(c)
    BY DEF Resolve, Spawn, Fail, Return
  <2>6. ~ReturnReply(c) /\ ~Lookup(c) /\ ~Route(c) /\ ~Finish(c)
    BY DEF ReturnReply, Lookup, Route, Finish
  <2> QED BY <1>2, <2>3, <2>4, <2>5, <2>6 DEF RequestStep
<1> QED BY <1>1, <1>2 DEF Next

(* What Decide makes of a decision. *)
Decided(c, decision) ==
  \/ ~decision.ok /\ answer'[c] = Answered(decision.code, decision.detail)
  \/ decision.ok /\ pc'[c] # "over" /\ answer' = answer

LEMMA DecideDecides ==
  ASSUME GateInv, NEW c \in Clients, Decide(c)
  PROVE  Decided(c, Evaluate(tables, settings, c, argv[c]))
<1> DEFINE decision == Evaluate(tables, settings, c, argv[c])
<1>1. \/ ~decision.ok /\ Answer(c, Answered(decision.code, decision.detail))
      \/ /\ decision.ok /\ answer' = answer
         /\ \E s \in {"resolving", "spawning"} : Goto(c, s)
  BY DEF Decide
<1> HIDE DEF decision
<1>2. Decided(c, decision)
  BY <1>1 DEF Decided, Answer, Goto, GateInv, RequestTypes
<1> QED BY <1>2 DEF decision

(* The tables of a client alone own for it what the tables of all do. *)
LEMMA OwnPartOwns ==
  ASSUME NEW t, NEW c \in Clients, NEW kind
  PROVE  Owned(OwnPart(t, c), c, kind) = Owned(t, c, kind)
<1> DEFINE own == OwnPart(t, c)
<1>1. /\ own.rows = RowsOf(t, c) /\ own.cleared = t.cleared
      /\ own.partial = {d \in t.partial : dispatcherOf[d] = c}
      /\ own.pin[c] = t.pin[c] /\ own.boundSender[c] = t.boundSender[c]
      /\ own.boundRun[c] = t.boundRun[c]
  BY DEF OwnPart
<1>2. RowsOf(own, c) = RowsOf(t, c) /\ PlacedOf(own, c) = PlacedOf(t, c)
  BY <1>1 DEF RowsOf, PlacedOf
<1> HIDE DEF own
<1>3. OwnedHandles(own, c) = OwnedHandles(t, c)
  BY <1>1, <1>2 DEF OwnedHandles
<1>4. OwnedDispatches(own, c) = OwnedDispatches(t, c) /\ OwnedTasks(own, c) = OwnedTasks(t, c)
      /\ OwnedWorktrees(own, c) = OwnedWorktrees(t, c)
  BY <1>2 DEF OwnedDispatches, OwnedTasks, OwnedWorktrees
<1>5. OwnedRuns(own, c) = OwnedRuns(t, c)
  BY <1>1, <1>2 DEF OwnedRuns
<1>6. Owned(own, c, kind) = Owned(t, c, kind)
  BY <1>3, <1>4, <1>5 DEF Owned
<1> QED BY <1>6 DEF own

(* Proven is a matter of what the caller owns. *)
LEMMA ProvenByOwned ==
  ASSUME NEW t, NEW u, NEW c, NEW a, NEW x, \A kind : Owned(t, c, kind) = Owned(u, c, kind)
  PROVE  Status(t, c, a, x) = "owned" <=> Status(u, c, a, x) = "owned"
<1>1. \A kind, v : StatusIn(t, c, kind, v) = "owned" <=> StatusIn(u, c, kind, v) = "owned"
  BY DEF StatusIn
<1>2. CASE x[1] = "id"
  BY <1>1, <1>2 DEF Status, IdStatus
<1>3. CASE x[1] \in {"worktree", "parent_worktree"}
  BY <1>1, <1>3 DEF Status, WorktreeStatus
<1>4. CASE x[1] \notin {"id", "worktree", "parent_worktree"}
  BY <1>1, <1>4 DEF Status
<1> QED BY <1>2, <1>3, <1>4

LEMMA DecidedAlone ==
  ASSUME NEW t, NEW s, NEW c \in Clients, NEW a
  PROVE  Evaluate(OwnPart(t, c), s, c, a) = Evaluate(t, s, c, a)
<1>1. \A x : Status(OwnPart(t, c), c, a, x) = "owned" <=> Status(t, c, a, x) = "owned"
  BY OwnPartOwns, ProvenByOwned
<1>2. Unproven(OwnPart(t, c), c, a) = Unproven(t, c, a)
  BY <1>1 DEF Unproven
<1> QED BY <1>2 DEF Evaluate, OwnershipRefusal

(* Nobody can find out what others have: every decision is the one the caller would
   get if the bridge had no other client (denyOwnership answers the same for a target
   of somebody else and for one that nobody has). *)
THEOREM GateOthersAreInvisible == Spec => OthersAreInvisible
<1> DEFINE Alike(c) == LET alone == Evaluate(OwnPart(tables, c), settings, c, argv[c])
                       IN  IF alone.ok THEN pc'[c] # "over"
                           ELSE answer'[c] = Answered(alone.code, alone.detail)
<1>1. ASSUME GateInv, Next, NEW c \in Callers, pc[c] = "locked", pc'[c] # "locked"
      PROVE  Alike(c)
  <2>1. c \in Clients /\ Decide(c)
    BY <1>1, DecidesAlone, CallersAreClients
  <2>2. Decided(c, Evaluate(tables, settings, c, argv[c]))
    BY <1>1, <2>1, DecideDecides
  <2>3. Evaluate(OwnPart(tables, c), settings, c, argv[c]) = Evaluate(tables, settings, c, argv[c])
    BY <2>1, DecidedAlone
  <2> QED BY <2>2, <2>3 DEF Decided
<1>2. GateInv /\ [Next]_vars =>
        [\A c \in Callers : pc[c] = "locked" /\ pc'[c] # "locked" => Alike(c)]_<<pc, answer>>
  <2> SUFFICES ASSUME GateInv, [Next]_vars,
                      ~UNCHANGED <<pc, answer>>
               PROVE  \A c \in Callers : pc[c] = "locked" /\ pc'[c] # "locked" => Alike(c)
    OBVIOUS
  <2>1. Next
    BY DEF vars, requestVars
  <2> QED BY <1>1, <2>1
<1> QED BY <1>2, GateInvariant, PTL DEF Spec, OthersAreInvisible

-----------------------------------------------------------------------------
(* A client is served with its own. *)

(* A target flag of the argv, named for its kind. *)
LEMMA TargetHasFlag ==
  ASSUME NEW a, NEW x \in NamedTargets(a) \cup WorktreeTargets(a) \cup ValueTargets(a),
         \A p \in a.pairs : p[1] \notin {"pane", "dispatch-id", "task-id", "workspace", "page",
                                         "path", "ack", "resume"}
  PROVE  \E p \in a.pairs :
           /\ x[2] = p[2]
           /\ \/ p[1] = "terminal" /\ x[1] = "handle"
              \/ p[1] = "dispatch" /\ x[1] = "dispatch"
              \/ p[1] = "parent-worktree" /\ x[1] = "parent_worktree"
              \/ p[1] = "task" /\ x[1] = "task"
              \/ p[1] = "run" /\ x[1] = "run"
              \/ p[1] = "worktree" /\ x[1] = "worktree"
              \/ p[1] = "id" /\ x[1] = "id"
              \/ p[1] = "id" /\ x[1] = "worktree" /\ KindOf(p[2]) = "worktree"
              \/ p[1] \in {"to", "retry-of", "parent"} /\ x[1] = KindOf(p[2])
<1> DEFINE ids == ValuesOf(a, NamedFlags["id"])
           OfKind(k) == {<<k, v>> : v \in ValuesOf(a, NamedFlags[k])}
           ByName == UNION {OfKind(k) : k \in NameKinds}
           Ids == {<<"id", v>> : v \in {w \in ids : w = NoValue \/ KindOf(w) \notin {"none", "worktree"}}}
           Trees == {<<"worktree", v>> : v \in {w \in ids : KindOf(w) = "worktree"}}
<1>1. NamedTargets(a) = ByName \cup Ids \cup Trees
  BY Zenon DEF NamedTargets, NameKinds
<1>2. x \in ByName => \E k \in NameKinds : \E v \in ValuesOf(a, NamedFlags[k]) : x = <<k, v>>
  OBVIOUS
<1>3. x \in Ids => \E v \in ids : x = <<"id", v>>
  OBVIOUS
<1>4. x \in Trees => \E v \in ids : x = <<"worktree", v>> /\ KindOf(v) = "worktree"
  OBVIOUS
<1> HIDE DEF ByName, Ids, Trees
<1>5. CASE x \in ByName
  <2>1. PICK k \in NameKinds : \E v \in ValuesOf(a, NamedFlags[k]) : x = <<k, v>>
    BY <1>2, <1>5
  <2>2. PICK p \in a.pairs : p[1] \in NamedFlags[k] /\ x = <<k, p[2]>>
    BY <2>1 DEF ValuesOf
  <2> QED BY <2>1, <2>2 DEF NamedFlags, NameKinds
<1>6. CASE x \in Ids \cup Trees
  <2>1. PICK v \in ids : x = <<"id", v>> \/ (x = <<"worktree", v>> /\ KindOf(v) = "worktree")
    BY <1>3, <1>4, <1>6
  <2>2. PICK p \in a.pairs : p[1] = "id" /\ p[2] = v
    BY DEF ValuesOf, NamedFlags
  <2> QED BY <2>1, <2>2
<1>7. CASE x \in WorktreeTargets(a)
  <2>1. PICK p \in a.pairs : p[1] \in {"worktree", "workspace", "path"} /\ x = <<"worktree", p[2]>>
    BY <1>7 DEF WorktreeTargets, WorktreeGrammar, ValuesOf
  <2> QED BY <2>1
<1>8. CASE x \in ValueTargets(a)
  <2>1. PICK p \in a.pairs : p[1] \in ValueTyped /\ x = <<KindOf(p[2]), p[2]>>
    BY <1>8 DEF ValueTargets, ValuesOf
  <2> QED BY <2>1 DEF ValueTyped
<1> QED BY <1>1, <1>5, <1>6, <1>7, <1>8

(* A pair used right names an object of the caller, of the kind of its flag. *)
Rightful(c, p) ==
  \/ p[1] \in {"terminal", "to"} /\ p[2] \in OwnedHandles(tables, c) \cap Handles
  \/ p[1] \in {"dispatch", "retry-of"} /\ p[2] \in OwnedDispatches(tables, c) \cap Dispatches
  \/ p[1] \in {"task", "parent"} /\ p[2] \in OwnedTasks(tables, c) \cap Tasks
  \/ p[1] \in {"run", "id"} /\ p[2] \in OwnedRuns(tables, c) \cap Runs
  \/ p[1] \in {"worktree", "parent-worktree"} /\ p[2] \in OwnedWorktrees(tables, c) \cap Worktrees
  \/ p[1] \in {"limit", "from", "peek", "agent"}

LEMMA FitsIsRightful ==
  ASSUME TablesInv, NEW c \in Clients, NEW p, Fits(c, p)
  PROVE  /\ Rightful(c, p)
         /\ p[1] = "parent-worktree" => argv[c].cmd \notin ListCommands
<1> DEFINE mine == RowsOf(tables, c)
<1>1. mine \subseteq Dispatches /\ mine \subseteq PlacedOf(tables, c)
  BY DEF TablesInv, Tables, RowsOf, PlacedOf
<1>2. \A d \in mine : terminalOf[d] \in Handles /\ taskOf[d] \in Tasks /\ runOf[d] \in Runs
                      /\ worktreeOf[d] \in Worktrees
  BY <1>1, PolicyAssumption DEF Handles
<1>3. {terminalOf[d] : d \in mine} \cup ({tables.pin[c]} \ {NoValue})
        \subseteq OwnedHandles(tables, c) \cap Handles
  BY <1>1, <1>2 DEF OwnedHandles, TablesInv, Tables, Handles
<1>4. {taskOf[d] : d \in mine} \subseteq OwnedTasks(tables, c) \cap Tasks
      /\ {runOf[d] : d \in mine} \subseteq OwnedRuns(tables, c) \cap Runs
  BY <1>1, <1>2 DEF OwnedTasks, OwnedRuns
<1>5. {worktreeOf[d] : d \in mine} \subseteq OwnedWorktrees(tables, c) \cap Worktrees
      /\ mine \subseteq OwnedDispatches(tables, c) \cap Dispatches
  BY <1>1, <1>2 DEF OwnedWorktrees, OwnedDispatches
<1> HIDE DEF mine
<1>6. /\ p[1] \in {"terminal", "to"} =>
           p[2] \in {terminalOf[d] : d \in mine} \cup ({tables.pin[c]} \ {NoValue})
      /\ p[1] \in {"dispatch", "retry-of"} => p[2] \in mine
      /\ p[1] \in {"task", "parent"} => p[2] \in {taskOf[d] : d \in mine}
      /\ p[1] \in {"run", "id"} => p[2] \in {runOf[d] : d \in mine}
      /\ p[1] \in {"worktree", "parent-worktree"} => p[2] \in {worktreeOf[d] : d \in mine}
      /\ p[1] = "parent-worktree" => argv[c].cmd \notin ListCommands
      /\ p[1] \in {"terminal", "to", "dispatch", "retry-of", "task", "parent", "run", "id",
                   "worktree", "parent-worktree", "limit", "from", "peek", "agent"}
  BY DEF Fits, mine
<1> QED BY <1>3, <1>4, <1>5, <1>6 DEF Rightful

LEMMA RightfulIsProven ==
  ASSUME TablesInv, NEW c \in Clients, NEW a, ImpliedTargets(a) = {},
         \A p \in a.pairs : Rightful(c, p)
  PROVE  Unproven(tables, c, a) = {}
<1> SUFFICES ASSUME NEW x \in NamedTargets(a) \cup WorktreeTargets(a) \cup ValueTargets(a)
             PROVE  Status(tables, c, a, x) = "owned"
  BY DEF Unproven, Targets
<1>1. PICK p \in a.pairs :
        /\ x[2] = p[2]
        /\ \/ p[1] = "terminal" /\ x[1] = "handle"
           \/ p[1] = "dispatch" /\ x[1] = "dispatch"
           \/ p[1] = "parent-worktree" /\ x[1] = "parent_worktree"
           \/ p[1] = "task" /\ x[1] = "task"
           \/ p[1] = "run" /\ x[1] = "run"
           \/ p[1] = "worktree" /\ x[1] = "worktree"
           \/ p[1] = "id" /\ x[1] = "id"
           \/ p[1] = "id" /\ x[1] = "worktree" /\ KindOf(p[2]) = "worktree"
           \/ p[1] \in {"to", "retry-of", "parent"} /\ x[1] = KindOf(p[2])
  <2>1. \A p \in a.pairs : p[1] \notin {"pane", "dispatch-id", "task-id", "workspace", "page",
                                        "path", "ack", "resume"}
    BY DEF Rightful
  <2> QED BY <2>1, TargetHasFlag
<1>2. Rightful(c, p)
  OBVIOUS
<1>3. \A kind, v : v \in Owned(tables, c, kind) => StatusIn(tables, c, kind, v) = "owned"
  BY DEF StatusIn
<1>4. CASE p[1] \in {"terminal", "to"}
  <2>1. p[2] \in OwnedHandles(tables, c) /\ KindOf(p[2]) = "handle"
    BY <1>2, <1>4, KindOfObject DEF Rightful, Objects
  <2> QED BY <1>1, <1>3, <1>4, <2>1 DEF Status, Owned
<1>5. CASE p[1] \in {"dispatch", "retry-of"}
  <2>1. p[2] \in OwnedDispatches(tables, c) /\ KindOf(p[2]) = "dispatch"
    BY <1>2, <1>5, KindOfObject DEF Rightful, Objects
  <2> QED BY <1>1, <1>3, <1>5, <2>1 DEF Status, Owned
<1>6. CASE p[1] \in {"task", "parent"}
  <2>1. p[2] \in OwnedTasks(tables, c) /\ KindOf(p[2]) = "task"
    BY <1>2, <1>6, KindOfObject DEF Rightful, Objects
  <2> QED BY <1>1, <1>3, <1>6, <2>1 DEF Status, Owned
<1>7. CASE p[1] \in {"run", "id"}
  <2>1. p[2] \in OwnedRuns(tables, c) /\ KindOf(p[2]) = "run"
    BY <1>2, <1>7, KindOfObject DEF Rightful, Objects
  <2> QED BY <1>1, <1>3, <1>7, <2>1 DEF Status, IdStatus, Owned
<1>8. CASE p[1] \in {"worktree", "parent-worktree"}
  <2>1. p[2] \in OwnedWorktrees(tables, c) /\ p[2] \in Objects
    BY <1>2, <1>8 DEF Rightful, Objects
  <2>2. p[2] # "new-child"
    BY <2>1, KindOfObject DEF Words
  <2> QED BY <1>1, <1>3, <1>8, <2>1, <2>2 DEF Status, WorktreeStatus, Owned
<1> QED BY <1>1, <1>4, <1>5, <1>6, <1>7, <1>8

LEMMA RightfulIsClassified ==
  ASSUME NEW c, NEW a, \A p \in a.pairs : Rightful(c, p)
  PROVE  ~Unclassified(a) /\ ~BadAddress(a)
<1>1. \A p \in a.pairs : p[1] \in FlagTable
  BY TargetFlagsAre DEF Rightful, FlagTable, ContentFlags, AdminFlags
<1>2. ASSUME NEW p \in a.pairs, p[1] \in ValueTyped
      PROVE  KindOf(p[2]) # "none" /\ p[2] # "@all"
  <2>1. p[2] \in Objects
    BY <1>2 DEF Rightful, ValueTyped, Objects
  <2> QED BY <2>1, KindOfObject DEF Words
<1> QED BY <1>1, <1>2 DEF Unclassified, BadAddress, FlagNames

LEMMA RightfulIsScoped ==
  ASSUME NEW c, NEW a, \A p \in a.pairs : Rightful(c, p),
         NEW p \in a.pairs, p[1] \in TargetFlags, p[1] # "parent-worktree"
  PROVE  ~Unscoped(a)
<1> DEFINE Found == NamedTargets(a) \cup WorktreeTargets(a) \cup ValueTargets(a)
<1>1. p[2] \in Objects /\ p[2] \in Values
  BY TargetFlagsAre DEF Rightful, Objects, Values
<1>2. KindOf(p[2]) \in {"handle", "dispatch", "task", "run", "worktree"}
  BY <1>1, KindOfObject
<1>3. \E k \in {"run", "id", "task", "handle", "dispatch", "worktree"} : <<k, p[2]>> \in Found
  <2>1. p[1] \in {"terminal", "to", "dispatch", "retry-of", "task", "parent", "run", "id", "worktree"}
    BY TargetFlagsAre DEF Rightful
  <2>2. CASE p[1] \in {"to", "retry-of", "parent"}
    <3>1. <<KindOf(p[2]), p[2]>> \in ValueTargets(a)
      BY <1>2, <2>2 DEF ValueTargets, ValuesOf, ValueTyped
    <3> QED BY <1>2, <3>1
  <2>3. CASE p[1] = "worktree"
    <3>1. <<"worktree", p[2]>> \in WorktreeTargets(a)
      BY <2>3 DEF WorktreeTargets, ValuesOf
    <3> QED BY <3>1
  <2>4. CASE p[1] = "id"
    <3>1. p[2] \in ValuesOf(a, NamedFlags["id"])
      BY <2>4 DEF ValuesOf, NamedFlags
    <3> QED BY <1>2, <3>1, NamedTargetsHave
  <2>5. CASE p[1] \in {"terminal", "dispatch", "task", "run"}
    <3>1. PICK k \in {"handle", "dispatch", "task", "run"} : p[2] \in ValuesOf(a, NamedFlags[k])
      BY <2>5 DEF ValuesOf, NamedFlags
    <3> QED BY <1>1, <3>1, NamedTargetsHave DEF NameKinds
  <2> QED BY <2>1, <2>2, <2>3, <2>4, <2>5
<1> HIDE DEF Found
<1>4. PICK k \in {"run", "id", "task", "handle", "dispatch", "worktree"} : <<k, p[2]>> \in Found
  BY <1>3
<1>5. <<k, p[2]>>[1] = k
  OBVIOUS
<1> QED BY <1>4, <1>5 DEF Unscoped, Found

(* A client is never refused its own workers: a command whose targets are all of a row
   it has is not told that it does not own them (collectTerminalHandleSets,
   collectOwnedDispatches and the other tables the resolvers read). *)
THEOREM GateOwnersAreServed == Spec => OwnersAreServed
<1> DEFINE Asks(c) == /\ pc[c] = "locked" /\ pc'[c] # "locked"
                      /\ \E p \in argv[c].pairs : p[1] \in TargetFlags
                      /\ \A p \in argv[c].pairs : Fits(c, p)
                      /\ ImpliedTargets(argv[c]) = {}
<1>1. ASSUME GateInv, Next, NEW c \in Callers, Asks(c)
      PROVE  answer'[c].code # "handle_not_owned"
  <2> DEFINE a == argv[c]
  <2>1. c \in Clients /\ Decide(c)
    BY <1>1, DecidesAlone, CallersAreClients
  <2>2. \A p \in a.pairs : Rightful(c, p) /\ (p[1] = "parent-worktree" => a.cmd \notin ListCommands)
    BY <1>1, <2>1, FitsIsRightful DEF GateInv
  <2>3. Unproven(tables, c, a) = {} /\ ~Unclassified(a) /\ ~BadAddress(a)
    BY <1>1, <2>1, <2>2, RightfulIsProven, RightfulIsClassified DEF GateInv
  <2>4. ~Unscoped(a)
    <3>1. CASE a.cmd \notin ListCommands
      BY <3>1 DEF Unscoped
    <3>2. CASE a.cmd \in ListCommands
      <4>1. PICK p \in a.pairs : p[1] \in TargetFlags /\ p[1] # "parent-worktree"
        BY <1>1, <2>2, <3>2
      <4> QED BY <2>2, <4>1, RightfulIsScoped
    <3> QED BY <3>1, <3>2
  <2>5. Evaluate(tables, settings, c, a).code # "handle_not_owned"
    BY <2>3, <2>4 DEF Evaluate, Refusal, Permit
  <2>6. Decided(c, Evaluate(tables, settings, c, a))
    BY <1>1, <2>1, DecideDecides
  <2>7. answer[c].code = "none"
    BY <1>1, <2>1 DEF GateInv, RequestInv, ReplyRouted, Answered
  <2> QED BY <2>5, <2>6, <2>7 DEF Decided, Answered
<1>2. GateInv /\ [Next]_vars =>
        [\A c \in Callers : Asks(c) => answer'[c].code # "handle_not_owned"]_<<pc, answer>>
  <2> SUFFICES ASSUME GateInv, [Next]_vars,
                      ~UNCHANGED <<pc, answer>>
               PROVE  \A c \in Callers : Asks(c) => answer'[c].code # "handle_not_owned"
    OBVIOUS
  <2>1. Next
    BY DEF vars, requestVars
  <2> QED BY <1>1, <2>1
<1> QED BY <1>2, GateInvariant, PTL DEF Spec, OwnersAreServed
=============================================================================
