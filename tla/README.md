# Specifications of the orca-mcp bridge

orca-mcp is an MCP server (`server.mjs`) that lets several coordinators (OAuth
clients over HTTP, or one over stdio) drive the Orca runtime through its CLI:
they dispatch workers into terminals, wait for the workers' reports and release
the workers again. Everything worth a specification happens *between* handlers:
requests of many clients interleave at every `await`, the bridge and its signing
daemon restart independently, files are written in place, a privileged script
runs several times at once, and the CLI calls underneath fail, time out or are
killed when a client disconnects.

This directory holds TLA+ modules translated from that source, TLC runs over
small instances, and TLAPS proofs for instances of every size.

## 1. Inventory

| part | state | operations | what is hard |
|---|---|---|---|
| store signer (`lib/store-signer.mjs`) | per store the last number and payload digest, in memory and in a seq file | sign, verify, load | the seq file may lag behind or vanish; a signature does not mean the file was written |
| dispatch ownership (`server.mjs` 313-662, `lib/audit.mjs` 492-640) | registry rows, `dispatch-ownership.json` | `bindOwnedDispatch`, `persistOwnershipBindings`, `loadPersistedOwnership` | snapshot, signature and write are three steps; two clients do them at once |
| orchestration lock (`createSerialLockMap`, `withAbortableLock`) | a promise per client | `callTool` | a request that throws, hangs or is aborted while it waits or holds |
| sender terminals (`resolveSenderTerminal`) | pin per client with a lifetime, `coordinatorHandles`, a signed pin file | resolve, revalidate, adopt, create, persist, load | lost answers look like lost tabs; titles are rewritten; a read-merge-write of a shared file |
| capabilities and credential (`orca-seed-worker-creds`, `executeReleaseWorker`, `mintAndInstallWorkerCap`) | staged and installed capability files, purge markers, `current-cap.json`, one shared credential | seed, purge, mint, release | the script runs concurrently for mints, wrappers and releases without a lock |
| await and check (`awaitDispatch`, action `check`) | which run a client thinks it is bound to, the rows' status | run-use, check, ack, partition, summarise | run-use voids deliveries; a stale ack may be a repeated or a voided one; clients fence each other |
| release (`lib/release-worker.mjs`) | row status | preflight, close, purge | decides on the registry and then awaits |
| what an await says (`lib/await-summary.mjs`, `server.mjs` 2283-2480, `lib/runtime-guard.mjs`) | status, empty windows and activity of the registry rows | summarise, next step, liveness | batches mix workers, foreign messages and payloads as text; which row a window is put down to |
| command policy (`lib/cli-policy.mjs`, `lib/cli-argv-normalize.mjs`, `lib/toolsets.mjs`) and resolvers (`lib/state-ownership.mjs`) | none; they read the registry, pins and runs | classify, resolve, decide, redact | large decision tables; a decision is used after later awaits |
| OAuth, sessions, `authenticate` (`server.mjs` 720-775, 3148-3206, 3318-3440, 3533-3637, `lib/orch-isolation.mjs` 14-32) | codes, tokens and their file, sessions | issue, use, expire, delete, derive the client key | two lifetimes and a restart between the requests of one client; calls that end after their session |
| worker relay (`lib/worker-orch-relay.mjs`) | none | check a capability, forward | nothing between two requests |
| audit log (`lib/audit.mjs`) | NDJSON file and rotated siblings, transcripts | append, rotate | rename chains that fail half way |

How they interact: `callTool` takes the client's lock and runs a handler; a
handler resolves the client's sender terminal, calls the CLI, binds ownership and
persists it through the signer; dispatch and release run the privileged script;
await reads the runtime's mailbox and updates the rows that release later reads.
Over HTTP, `authenticate` and `deriveClientKey` decide which client that is, and
`action=cli` lets a client send the CLI's own commands past the toolset gate and the
command policy, which decide on the same registry, pins and runs.
The runtime, the privileged script's callers and the signer are separate
processes, so none of these sequences is atomic.

`PROJECT.json` lists every part with its status, and under "hazards" each place
where this can go wrong with the properties that watch it.

## 2. Modules

| module | models | state and actions in terms of the code |
|---|---|---|
| `StoreSigner` | the signing daemon | `last` is `createMemorySeqStore`, `seqFile` its file; `HandleSign`, `HandleVerify` are the two requests, `Persist` the swallowed write failure; `DaemonRestart`, `SeqFileLost`; an envelope is `Authentic` if the daemon signed it for *some* store, as the MAC names none |
| `DispatchOwnership` | EXTENDS `StoreSigner`: the registry and its file | one client's dispatch goes idle, placing, signing, writing; every step ends at an `await`; `BridgeCrash` anywhere; `Start...` is `loadPersistedOwnership` |
| `SerialLock` | the abstract FIFO lock per key | tickets |
| `OrchLock` | `withSerialLock` under `withAbortableLock` | `tail`, `prev`, `gate`, `settled` are the promises; `Yield` is the abort winning the race while the body goes on |
| `SenderPins` | EXTENDS `StoreSigner`: `resolveSenderTerminal` | `Start`, `Show...`, `List...`, `Create...`, then `Merge...`, `SignPins`, `WritePins`; around them expiry, departing clients, closed and renamed tabs, crashes |
| `WorkerCaps` | dispatch, wrapper, release and the root script | `helper` is the phase of each run of the script; `Place` .. `Bind`, `Close` .. `PurgeReturns` are the bridge's awaits |
| `AwaitMailbox` | `awaitDispatch`, action `check`, and the runtime's mailbox as the bridge sees it | `pc` is the request's place; `Ask`, `BindRun`, `Fenced`, `StaleAck`, `Respond`; a dispatch is `Place`, `Register`, or after an abort `AbortDispatch` and `LateEnd`; the runtime's side (`RunUse`, `Consume`, `Deliver`) follows `createFakeMailbox` of `lib/await-lifecycle.test.mjs` and docs/design.md:55 |
| `ReportLedger` | the abstract promise of await: every report is told at least once | inbox, what has arrived, been told, been missed, been taken by others; the dispatches the bridge lists |
| `WorkerVerdicts` | summary, next step, liveness and registry rows of one client's awaits | `mail` is the run's mailbox, the first `out` messages are the delivery that is out; `newer` is the order of `updatedAt`; `Await` is one window: `HearOwn`, `HearNothing`, `HearWithoutWorkers` are its three outcomes; `Bind`, `Release`, `Send`, `Tick`, `OthersTakeRun` around it |
| `CliPolicy` | the decision on a command, without state | `Evaluate` is `evaluateCliArgv` over tables of argument vectors, forms, flags and resolvers; `Spellings` are the ways to write one command that the CLI does not tell apart and parts of the bridge do; `ToolsetAllows`; `Redact` |
| `ReferenceMonitor` | the abstract promise of the gate | what a client was given, where its request stands, what its command touched |
| `CommandGate` | EXTENDS `CliPolicy`: one `action=cli` request | `Submit`, `Decide`, `Resolve`, `Spawn`, `Fail` or `Return...`, `Lookup`, `Route`, `Finish`; `World` is what other requests do to the tables between them; `Leave` is the abort; `Locks`, `NeedsSender`, `FollowedUp` are the tests on the words to the letter |
| `BridgeAccess` | pairing, tokens, sessions, the client key | one client: `Authorize`, `Redeem...`, then `Enter`, `Call`, `Return`, `Delete`, `Denied`; `Tick` and `Restart` |

`DispatchOwnership` and `SenderPins` are composed with the signer by EXTENDS: the state of both, with `SignerSigns`
conjoining the daemon's `HandleSign` and the bridge's step; both compositions are proved to implement `StoreSigner`. `OrchLock` justifies
two assumptions of the others: requests of one client take turns, and an
abandoned body may run beside its successor (`Leave` in `SenderPins`; in
`DispatchOwnership` an abandoned dispatch acts like one of a second client).
`WorkerVerdicts` rests on `AwaitMailbox` for what a window receives: everything in the
mailbox, and the same delivery again until it is acknowledged or void. The rows of the registry
are ordered by the milliseconds of `updatedAt`; rows of one pass may tie, so `newer` leaves their
order open and the window may be put down to either. `CommandGate` rests on `DispatchOwnership` and `SenderPins` for how rows and pins change.

Three detailed modules are shown to implement an abstract one by INSTANCE ... WITH: `OrchLock` the FIFO
lock `SerialLock`, `AwaitMailbox` the `ReportLedger`, and `CommandGate` the `ReferenceMonitor`.
In `ReportLedger` a report arrives once, and a client may settle a batch only when each report of it
was told to its owner or missed by it, or belongs to somebody else (then it counts as taken);
nothing settled comes back. An owner misses a report only when it is handed it while the dispatch is not listed:
then the bridge takes the report for another client's. `queue`, `reported`, `seen` and `missed` map to the
ledger's inbox and histories, rows that are bound to what is listed; fences, void and repeated acks, rebinding
and lost answers are stutters. A dispatch may be listed late (an aborted one binds after its lock is free), and nothing
missed before is told again. In `ReferenceMonitor`, `may` is
mapped to what a client has ever been given (its tabs, what it dispatched, runs it
used), and the abstract `Perform` needs what the command touches to be in `may` *when it
runs*. The code decides earlier, before it resolves the sender, so the refinement
is a statement about everything that can change in between.

Data is abstracted to what the properties distinguish. A payload stands for its
digest, a MAC is valid exactly if the daemon issued the envelope, a tab is a
model value with a title that is either intact or rewritten, a report is a kind
and a dispatch, a capability is its dispatch. History variables are marked
"history" where they are declared; no guard reads them.

Definitions that carry the comment "a bug ... could have" are plausible wrong
versions of the definition after them. `PROJECT.json` ("mutants") pairs each with
the property that detects it; nothing else uses them.

## 3. Runs

Passing runs (between 16 thousand and 3.1 million distinct states; each takes between some
seconds and three minutes with two workers).

| run | instance | question |
|---|---|---|
| `signer` | two stores, two payloads, numbers up to 3, one fault | Does an older envelope of a store ever pass, does the newest as long as the record is the store's own, and does the highest one after any loss of the seq file? |
| `ownership` | two clients, three dispatches, numbers up to 4, two crashes, one signer fault | Is a binding ever attributed to another client, and what does a restart bring back? |
| `orch_lock` | three requests of one client (one hangs), two of another (one hangs for good) | Is the promise chain a FIFO lock, and is everyone served behind an aborted or failed request? |
| `pins` | two clients with a resolver each, two tabs, one crash, one closed tab | Do two clients ever share a sender, is a pinned tab always protected, does an undisturbed client keep its tab? |
| `caps` | two isolated dispatches, one restart, every run of the script failing at will | Does a purge hit a listed running worker, does a purged capability come back, does the last release take the credential? |
| `mailbox` | two clients on one run, a dispatch each, three reports, two disturbances | Is a report lost, is the mailbox a ledger that tells every report at least once, is an answered ack final, and does the keeper get its reports? |
| `verdicts` | two workers, one on a terminal without times, a foreign worker on the run; two of four letters are sent; ages 0..2, one output | Is a release ever suggested for a worker that did not earn it, does a row say done of a worker that never reported, is a silent worker told of? |
| `gate` | one calling client beside another; 56 argument vectors of every kind and spelling; three settings; three changes of the tables | Does a command run on anything its caller was not given, does a refusal or an answer tell of others, is an owner ever refused, does each reply reach its worker and each request get an answer? |
| `access` | a client with the master token or with tokens of its own; four tokens, three session ids, lifetimes of one tick, two faults, one restart | Is a client the same coordinator throughout, do saved tokens outlive restarts, do ended sessions stay over, does a client get in again? |

Runs that refute something the repository says (each with a finding in
`PROJECT.json` that quotes the line):

* `ownership_race`: two overlapping dispatches, no failure at all. The older of
  two signed snapshots is written last, the next start rejects the file, and no
  client can release its workers (server.mjs:499, 514-518).
* `caps_reporting`: a worker whose message was awaited is no longer "running" in
  the registry, and another release takes its credential (release-worker.mjs:406).
* `mailbox_ack`: await, dispatch into the same run, ack. The ack is void but is
  answered as repeated, and the same report comes again (server.mjs:2207).

Further disagreements, met while modelling and not given a run, are in section 5.

### Bounds and why they are enough

* `signer`: three numbers, because a record that another store's envelope has moved is told from a
  store's own only if that store has signed less often, and there is then an older, a newest and a
  foreign envelope. One fault: a lost write or a restart that loses the file.
* Two clients: every race in the code is pairwise (two persists, two resolvers,
  two consumers of a run). The lock has three requests of one client, because a
  chain needs a middle link to lose.
* Three dispatches in `ownership`: one written, one in flight, one later, so that
  an outdated file is neither empty nor complete. `MaxSeq = 4` lets every dispatch
  sign once and one request be served late. Two crashes: one that spoils the file
  and one that reads it.
* Two dispatches in `caps`: one released while the other is placed, bound,
  reporting or released. Markers, stage and files are sets, so a third only adds
  members that behave alike; the proofs cover any number.
* `mailbox`: one dispatch with a question before its `worker_done` and a foreign
  one, so that batches are empty, own, foreign and mixed. A disturbance is
  anything out of the keeper's own loop: a request by the visitor, `check`, an ack
  by message id, a lost answer, a failed run-use, a failed or aborted dispatch, a restart. Two allow a
  loss inside a visit, or a restart after one. Dispatches and reports are free.
* `verdicts`: two own workers and one foreign, because every misattribution is between
  two workers of a batch or between an own and a foreign one; the four letters have a
  genuine and a template `worker_done`, an own and a foreign payload as text, and an escalation
  without an id. What longer batches add is left to the proofs, which have
  batches of any length. The age thresholds are 0 and 2, those of the empty windows 1, 1 and 2, so that
  liveness is active by either rule and stalled by either rule; "idle", which is answered like "active", is not reached.
* `gate`: every request is one client's, and what the policy reads of others is that they have
  rows, tabs and runs, so one other client is enough. `Argvs` has every kind of
  flag with an own and a foreign value, besides flags without a value, repeated flags, unknown
  flags, words that are no id and commands without a target, and those commands in another spelling whose
  handling differs: replies (lock, sender, follow-up), checks, a worker command without a target, and the
  forbidden `worktree create`. Three changes are a bind, a
  second one and a release (or a message), which may all fall between the decision and the run.
* `access`: four tokens and three ids are what a client can hold, present and have held
  in a call at the same time, with one to spare; lifetimes of one tick tell
  new, old and expired apart.
* Crashes and faults are bounded because each resets state: more of them repeat
  what one or two have shown. `SenderPins` runs without signer faults;
  `StoreSigner` and `DispatchOwnership` have them.

`CHECK_DEADLOCK FALSE` is set where the system may stop: the instances have a
fixed number of dispatches, tabs or requests, and afterwards everyone is idle.

### Fairness

Five runs have a liveness property.

* `OrchLock`: weak fairness of `Enter`, `TailSettles` and `Yield`: the event loop runs
  ready continuations. Of `BodyEnds`, unless the body hangs: each CLI call has a
  timeout. Of `Disconnect` for a hanging body that can be aborted: its client gives
  up. Nobody has to disconnect otherwise, and `QueuedIsServed` excludes waiting behind a
  body that hangs without a client that could leave (stdio).
* `AwaitMailbox`: weak fairness of the bridge's own steps and of a dispatch that
  succeeds; a keeper asks again (weak) and acknowledges what it holds (strong,
  because another's requests may void and renew what it holds), as the coordinator
  doctrine tells it ("loop await ... ack"). Visitors, reports and disturbances are
  not fair.
* `WorkerVerdicts`: weak fairness of `Tick` (time passes) and of `Await(TRUE)` (the
  client loops and acknowledges, the same doctrine). Workers owe nothing.
* `CommandGate`: weak fairness of the steps of a request, each of which ends by itself or
  by the timeout of its CLI call. Callers need not leave, the tables need not change.
* `BridgeAccess`: weak fairness of a client's next request (`PairAgain`, `AskAgain`) and of
  `Return` and `CodeRefused`; strong fairness of `Redeem`, because a code may
  expire under the client again and again: it redeems in time sooner or later. The
  client is assumed to start without a session id after it pairs anew, to drop its id
  on a 401 without token, and to pair anew on a 401 with one.

## 4. Proofs

Each component's proofs are in the module named after it with `Proofs`, those of `OrchLock` and
`WorkerVerdicts`, the two sides of a request, in `RequestProofs`. They
assume only the named ASSUME of the component's module (distinct model values,
types of the constants, bounds in Nat), which TLC evaluates in each run, and hold
for every number of clients, dispatches, stores, requests and faults.

* `StoreSignerProofs`. `SignerInv`: every record in memory or on disk is backed by an
  issued envelope, numbers issued lie at or below the live record unless a
  restart regressed it, and while it has not a record of the store's own is the newest envelope
  (`OwnRecord`; a record may be another store's, whose number is then at least as high).
  Freshness alone is not inductive: a later verify would not know that no other
  envelope has the number. `Current(s, e)` says that an envelope is accepted now and after
  any restart of the signer; it is lost only to a newer signature, which is what the stores'
  owners need to know (`SignIsCurrent`, `VerifyKeepsCurrent`, `FaultKeepsCurrent`). Gives `SignerTypeCorrect`, `SignerIsFresh`, `SignerRecovers`,
  `SignerNumbersUnique`.
* `DispatchOwnershipProofs`. `OwnershipInv` adds that every binding in memory, in a
  request, abandoned with the daemon, in an envelope or in the file names the creator of
  its dispatch, and reuses the signer's lemmas. `SoloInv` says where the durable
  bindings are while persists do not overlap: in the snapshot being written and in
  memory. `CalmInv` adds that, while none is cut short either, the file is `Current`, or the snapshot about
  to replace it is. Gives `OwnershipIsCreator`, `SoloRestoreIsAllOrNothing` and `CalmBindingsSurvive`.
  `OwnershipUsesSigner` shows that bridge and daemon together implement `StoreSigner` (a persist that is
  abandoned and served late is still a `HandleSign`), so `OwnershipIsFresh` has the daemon's three
  promises for the ownership file without a proof of its own, and with them that the record of its store is its
  own: the bridge has each file verified as its own store's only (`SignerIsAsked`, `OwnershipRecordIsOwn`).
* `RequestProofs`, the lock. `LockInv`: tickets are consecutive per client, the chain of promises
  follows the tickets, and a settled promise means that everyone before it is
  through. Gives `LockTypeCorrect`, `LockSerializes` and the refinement `LockRefines` (`OrchLock` implements
  `SerialLock`: each action maps to a step or a stutter).
* `RequestProofs`, the verdicts of an await. `VerdictsInv`: the types with the order of the registry's
  times, and the two safety properties together: a row that says done, and an order to
  release, are both drawn from one summary. What a batch says is written by least and greatest
  positions of it (`First`, `Last`), whose existence follows from the well-founded order of Nat
  (`FirstIsLeast`, `LastIsGreatest`) for batches of any length; `NotesAreSent` and `SummaryIsSent` trace
  what is noted in a row back to what its worker sent. That `newer` is a strict partial order
  (`TouchKeepsOrder`) holds because rows of one pass stay unordered. Gives
  `VerdictsTypeCorrect`, `VerdictsReleaseIsEarned`, `VerdictsDoneRowsHaveReported`.
* `WorkerCapsProofs`. `CapsInv`: a capability is staged before its dispatch is on
  record and installed at most once; once a run of a release's script is past the
  markers its capability is gone. `RunInv` says which part of the script runs at which stage of its
  dispatch. `PurgeSeesInv`: while a purge of everything is pending or running, every worker that is listed as
  running was on record when it was decided or is marked `unrecorded`. `CalmInv` and `NeedInv`: without mishaps
  releases come one by one, and the credential, once spared or hydrated again, has an unfinished dispatch that
  will take it. Gives `CapsPurgedStaysPurged`, `CapsCurrentIsInstalled`, `CapsLiveKeepsCapability` and
  `CapsLastReleaseTakesCredential`.
* `AwaitMailboxProofs`. `MailboxInv`: only the consumer of the run holds a delivery
  that is out, and what it holds is what is out; what an owner was handed it has seen or missed;
  an ack on its way names a delivery that is out, consumed or void. `AckedLeavesMailbox` is about
  the first two, an ack sent again included. Gives `MailboxHintIsOwn`, `MailboxReportsAreNotLost`, `MailboxAckedLeaves`, and
  `MailboxIsReportLedger`: an ack becomes the ledger's `Settle` because the delivery that is out is the one its
  sender holds, an answer its `Tell`, a binding or restart its `Relist`, and every other step is a stutter.
* `SenderPinsProofs`. `PinsInv`: what a resolver holds at each step, that pinned tabs are
  known as a coordinator's, and, when no client has the bare base title, that a pin, the target of
  a resolver and every table in a request, in an envelope or in the file names only tabs made for
  the client they name. That pins are distinct is not inductive: they come back from
  the file at a restart and from persists of departed calls. `HomeInv` and `CalmInv` are about clients that
  nothing has shaken: one resolver of a client is out at a time, it searches for another tab only when the
  pinned one is gone (`UnshakenOf`), one persist is out, and the file has every pin but the one being
  persisted and is `Current` (`OrderlyFile`). Gives `PinsTypeCorrect`, `PinsProtected`,
  assuming `BaseClients = {}`, `PinsDistinct`, and `PinsNoSibling` and `PinsReused` for any `BaseClients`.
  `PinsUseSigner` and `PinsAreFresh` do for the pin file what their counterparts do for the ownership file.
* `CommandGateProofs`. `GateInv`: the tables hold for a client only what it was given
  (`TablesInv`); a command between the decision and its end names nothing else, whatever the tables have
  become meanwhile, and has a sender if `NeedsSender` (`Approved`); a reply on its second route goes to the writer of its message
  (`ReplyRouted`); what was shown was given (`ContentGiven`). Assumed: handles, dispatches, tasks, runs and
  worktrees are disjoint, because the code tells them by their grammar
  (state-ownership.mjs:1301), an argument vector is a command in one of the spellings with flag-value pairs, and a
  terminal has one dispatch. `GateIsReferenceMonitor` maps every action to a step of
  `ReferenceMonitor` or to a stutter; `GateOthersAreInvisible` shows kind by kind that a resolver
  answers the same from the caller's part of the tables as from all of them;
  `GateOwnersAreServed` that what is of one owned row passes each of them. The attempt at the
  last corrected the property: a list scoped by nothing but a `--parent-worktree` is refused, as it
  is unscoped (cli-policy.mjs:1971-1977), whoever owns the worktree; the `gate` run has the case now. Gives also
  `GateTypeCorrect`, `GateContentStaysWithOwner`, `GateRepliesReachTheirWorker`.
* `BridgeAccessProofs`. `AccessInv`: the session whose id the client holds, and the call
  that holds it, belong to the token the client presents; if that token is not valid
  (any more) the session is over and no call has it; what is in a readable file is in
  memory. That `as` is the token alone is not inductive: a live session admits
  without a token, and a returning call writes its key into the session. Gives
  `AccessTypeCorrect`, `AccessClientIsItsToken`, `AccessSavedTokensAreValid`, `AccessSessionsEnd`.

`SignerTypeCorrect`, `MailboxHintIsOwn`, `MailboxReportsAreNotLost` and `CapsCurrentIsInstalled` are proved and not listed in
a run; the first is part of the invariant the others rest on, `ReleaseIsEarned` of `WorkerVerdicts`
says more than the second, and `IsReportLedger` more than the third.

Only model-checked: liveness (`QueuedIsServed`, `ReportReachesOwner`, `SilenceIsTold`,
`RequestsAreAnswered`, `ClientGetsIn`), which needs fairness and ENABLED and is beyond
the prover. Every safety invariant, action property and refinement that a passing run checks is stated by a
theorem, for every value of the constants that satisfies the named assumptions (`PinsAreDistinct` for `BaseClients = {}`,
as in its run).

## 5. What the passing properties exempt

Some properties hold only under a condition that a history variable records,
because the code does not promise more. What happens outside it:

* `mishaps` in `DispatchOwnership`. "lapse": a crash, timeout or failed write
  between signature and write leaves a file the signer calls stale; ownership is
  then lost at every later start until a new binding is written. "overlap":
  see `ownership_race`.
* `mishaps` and `shaken` in `SenderPins`. Overlapping persists lose one another's
  pin (read before the first await, written last); an unanswered verify writes the own
  pin alone. An abort that kills the call under way drops a live pin, and
  `health`, which resolves without the lock (server.mjs:2661), may create a second tab;
  `Locked` is a constant so that an unlocked resolver can be added.
* `unrecorded` in `WorkerCaps`. A worker that is placed, or not yet bound, when a
  release decides to purge everything loses its capability; the same in the
  window between the decision and the script.
* `mishap` in `WorkerCaps`. Two overlapping releases each see the other running
  and both leave the credential; a restart hydrates a released row as running
  (the release is never persisted), after which no release takes the credential; a
  release through `worker-release` purges nothing, as
  docs/research/NAS-258-0.3.4-reconcile.md says.
* `OwnRecord` in `StoreSigner`. One key signs every store and the MAC does not name it
  (store-signer.mjs:125, 697-721), so an envelope of one store that is verified as another's is accepted if
  its number is high enough, and makes the record another store's: the store's own newest envelope is then
  stale. `FreshIffNewest` says that even then no older one passes. The bridge has no file
  verified as another store's, so in `DispatchOwnership` and `SenderPins` the condition always holds, and
  `OwnershipIsFresh` and `PinsAreFresh` prove it.
* `taken` and `missed` in `AwaitMailbox`. Clients that share a run
  acknowledge whole deliveries, reports of the other included. A report that is handed to its
  owner while its dispatch is not listed counts as another's and is settled with the batch: the dispatch
  failed after its worker got the brief, or was aborted and binds later (the lock is free at await-lifecycle.mjs:89,
  the binding comes at server.mjs:2063), or a restart came in between. Nothing tells it again once the row is bound.
* `NeedsSender` in `CommandGate`. `IsReferenceMonitor` watches the sender that the bridge puts in; of a command in
  another spelling it watches the targets, not the `--from` (see the disagreement below).
* `shows` in `WorkerVerdicts`. A terminal without the time of its last output counts as active as
  long as its screen has the look of work (`turns > 0`, server.mjs:1386, 2337), which
  may be forever: such a worker is not called stuck (COORDINATOR.md:31).

Disagreements between the code and what the repository says, known from modelling and
stated without a run:

* The policy lets a message id pass on replies "because spawn ALWAYS overwrites --from"
  (cli-policy.mjs:2297). `withSender` and `injectSenderArgv` do so only if the first two words match to the letter
  (server.mjs:1301, security-core.mjs:148), and the lock is taken by the first word alone (server.mjs:2796), while forms and CLI
  fold case and skip flags (cli-policy.mjs:334): in another spelling a permitted command keeps the caller's `--from`, and may
  run without the lock. `Inject` and `Holding` have it so. A command that a flag precedes or interrupts needs the admin toolset,
  as its tier is read off `commandTokens`.
* A `terminal show` that times out drops the pin of a live tab and a sibling is
  created (server.mjs:1162, 1191), against "never create a sibling while the pin
  lives" (docs/design.md:54). `SenderPins` reaches it; `shaken` exempts it.
* A client with the master token has no suffix and adopts the tab of an OAuth client, whose
  title contains the base title (server.mjs:1225). `BaseClients` in `SenderPins` reaches it.
* The redaction of a reply's answer (server.mjs:2950) comes before the question is
  looked for in it (2958): the redacted envelope no longer tells a question, so its answer is sent twice,
  natively and as a follow-up, against the comments at server.mjs:1008 and 1070.
* A foreign `worker_done` whose id is only in a JSON-string payload passes the
  partition and yields `next.action=release` without a dispatch id (server.mjs:2304,
  comment at 2372). `ReleaseIsEarned` covers the steps that name a dispatch.
* The verdict of the first `worker_done` is written to all `worker_done` rows of the batch
  (server.mjs:2402-2408), so one worker's rejection or success can be recorded of another that reported
  too (README.md:371). `DoneRowsHaveReported` says what remains true.
* Released rows stay owned, and a batch that is delivered again overwrites "released".
* A client of the master or path token that presents an unknown session id gets the
  key of that id in place of the master's and loses its dispatches
  (`deriveClientKey`; comments at server.mjs:499, orch-isolation.mjs:12); the key of a session precedes
  the OAuth token. `ClientIsItsToken` is therefore about clients with tokens of their own.
* A session that is deleted or expires during a call is made again when the call
  returns (server.mjs:3618-3634); `SessionsEnd` exempts the call that holds it.
* `--repo` is no target flag of the policy, and `--ack delivery_...` through `action=cli` is
  always refused.

Details left out on purpose. The env pin (`ORCA_BRIDGE_SENDER_TERMINAL`) is unset. Requests that a
crashed bridge left with the signer are served late in `DispatchOwnership`, and in
`SenderPins` count as answered before the crash. The HMAC and lifetime of a capability are not
modelled, only where its file is. In `WorkerCaps` every dispatch is isolated, has a
client of its own, and is identified with its task; the seed that the bridge runs
again when the staging directory is missing is left out. The parts of the root script are atomic steps. The
bridge's own script runs die with it (systemd control group), a wrapper's survive. In
`AwaitMailbox` the type filter and `peek` are not used, releases do not occur,
templates and rejected `worker_done` messages are not distinguished (`WorkerVerdicts` does), and an await whose
retry is fenced after a wrong message id counts as an error (the code answers ok
false without the error text). In `CliPolicy` an argument vector is a command with a set of
flag-value pairs in one of five spellings, so the order of flags and the case of their names are not told
apart, a command in another case has no positionals (they are promoted in the literal case only), and repository paths and files of the service user have no resolver. In `CommandGate`
one request of a client is under way at a time, as the lock has it for orchestration
commands.

### Not modelled

* The stdio transport: one client, keyed as the master; what its requests do is in the
  modules above.
* The worker relay (`lib/worker-orch-relay.mjs`) and the memory proxy: they check one
  request and forward it, without state of their own.
* The isolation plan (`lib/worker-isolation.mjs`, `isolated-git`, `worktree-acl`): it builds
  commands and access lists; what they do is up to the operating system.
* Rotation of the audit log and transcripts: written and never read back.
* The migration of store signatures: a tool run by hand with the bridge stopped.
* Screen patterns, doctrine text, installers and service units: data and text.
* Retries of `release-worker.mjs`, inject recovery and worktree creation of a dispatch: calls of the CLI whose
  outcomes are in the modules as success or failure.

## 6. Plan

In order; earlier entries are done.

1. `StoreSigner`, `DispatchOwnership` and their proofs. Done.
2. `SerialLock`, `OrchLock`, refinement and proofs. Done.
3. `SenderPins` and proofs. Done.
4. `WorkerCaps` and proofs. Done.
5. `AwaitMailbox` and proofs. Done.
6. `CliPolicy`, `ReferenceMonitor`, `CommandGate` and proofs. Done.
7. `WorkerVerdicts` and proofs. Done.
8. `BridgeAccess` and proofs. Done.
9. `ReportLedger`, and the compositions with the signer as refinements of it. Done.
10. Left: the retries of a release; rotation of the audit log, which may fail half way.

## 7. Running

In this directory, `tlc -workers 2 -config <run's cfg> <run's module>` checks a run and
`tlapm <module>.tla` a module of proofs; `PROJECT.json` lists the module and configuration of every run,
the source lines behind every definition ("map") and the theorems.
