------------------------------- MODULE SenderPins -------------------------------
(***************************************************************************)
(* The sender terminal of a client (server.mjs, resolveSenderTerminal): the  *)
(* bridge pins one coordinator tab per client, revalidates the pin when its  *)
(* cache entry is stale, looks for a tab by title or creates one when it has *)
(* no pin, and persists every pin in a file signed by the store signer.      *)
(*                                                                         *)
(* A resolver is one call of resolveSenderTerminal.  The locked ones belong  *)
(* to requests under the client's orchestration lock (module OrchLock), the  *)
(* others to health.  Every step ends at an await.  The env pin              *)
(* (ORCA_BRIDGE_SENDER_TERMINAL) is unset.                                   *)
(***************************************************************************)
EXTENDS StoreSigner

CONSTANTS
  Clients, Handles,
  Resolvers, clientOf,   (* calls of resolveSenderTerminal, and their client *)
  Locked,                (* the resolvers under the orchestration lock       *)
  BaseClients,           (* clients titled with the bare base title (master) *)
  NoClient, NoTab,
  MaxCrashes, MaxCloses  (* bounds on crashes and on tabs closed             *)

PinTable == [Clients -> Handles \cup {NoTab}]
NoPins   == [c \in Clients |-> NoTab]

ASSUME PinsAssumption ==
  /\ NoTab \notin Handles /\ NoClient \notin Clients
  /\ "pins" \in Stores
  /\ Payloads = PinTable
  /\ clientOf \in [Resolvers -> Clients]
  /\ Locked \subseteq Resolvers
  /\ BaseClients \subseteq Clients
  /\ MaxCrashes \in Nat /\ MaxCloses \in Nat

VARIABLES
  up,           (* the bridge accepts traffic                               *)
  pin,          (* senderCaches: the handle pinned for a client             *)
  fresh,        (* clients whose entry is within SENDER_CACHE_TTL_MS        *)
  coordinators, (* coordinatorHandles                                       *)
  pc, target,   (* where a resolver stands, and the handle it is about      *)
  conn,         (* the pin file it read, then its request, then the answer  *)
  left,         (* resolvers whose client is gone: their calls all fail     *)
  maker,        (* the client a tab was created for                         *)
  live,         (* the tabs that are connected and writable                 *)
  titled,       (* the tabs whose title the shell has not rewritten         *)
  pinFile,      (* .orca-bridge-sender-pins.json                            *)
  crashes, closes,
  home,         (* history: the handle pinned last for a client             *)
  written,      (* history: clients whose last pin reached the file         *)
  shaken,       (* history: clients that left during a request, had a fit   *)
                (* tab reported as gone, or two resolvers at once           *)
  mishaps       (* history: "overlap", two persists ran at once; "lapse",   *)
                (* a persist or the load of the file was cut short          *)

procVars == <<pc, target, conn, left>>
tabVars  == <<maker, live, titled, closes>>
hurtVars == <<shaken, mishaps>>
vars == <<signerVars, up, pin, fresh, coordinators, procVars, tabVars, pinFile,
          crashes, home, written, hurtVars>>

Store == "pins"
None       == [kind |-> "none"]
Missing    == [kind |-> "missing"]
Malformed  == [kind |-> "malformed"]
Signed(e)  == [kind |-> "signed", env |-> e]
Request(t) == [kind |-> "request", payload |-> t]

Init ==
  /\ SignerInit
  /\ up = TRUE
  /\ pin = NoPins /\ home = NoPins
  /\ fresh = {} /\ coordinators = {}
  /\ pc = [p \in Resolvers |-> "idle"]
  /\ target = [p \in Resolvers |-> NoTab]
  /\ conn = [p \in Resolvers |-> None]
  /\ left = {}
  /\ maker = [h \in Handles |-> NoClient]
  /\ live = {} /\ titled = {}
  /\ pinFile = Missing
  /\ crashes = 0 /\ closes = 0
  /\ written = {} /\ shaken = {} /\ mishaps = {}

Persisting(p) == pc[p] \in {"read", "sign", "write"}

-----------------------------------------------------------------------------
(* resolveSenderTerminal, up to a handle. *)

Goto(p, label, h) ==
  /\ pc' = [pc EXCEPT ![p] = label]
  /\ target' = [target EXCEPT ![p] = h]

Stop(p) ==
  /\ Goto(p, "idle", NoTab)
  /\ conn' = [conn EXCEPT ![p] = None]
  /\ left' = left \ {p}

(* withClientOrchLock: one locked request of a client at a time, not counting
   those whose client is gone. *)
HasTurn(p) ==
  p \in Locked =>
    \A q \in Locked \ (left \cup {p}) : clientOf[q] = clientOf[p] => pc[q] = "idle"

(* The bridge of 0.2.11: every call looks the tab up by its title. *)
StartByTitle(p) ==
  /\ up /\ pc[p] = "idle" /\ HasTurn(p)
  /\ Goto(p, "list", NoTab)
  /\ UNCHANGED <<signerVars, up, pin, fresh, coordinators, conn, left, tabVars,
                 pinFile, crashes, home, written, hurtVars>>

(* trust_cache is a resolver that changes nothing. *)
Start(p) ==
  LET c == clientOf[p]
  IN  /\ up /\ pc[p] = "idle" /\ HasTurn(p)
      /\ c \notin fresh
      /\ IF pin[c] = NoTab THEN Goto(p, "list", NoTab) ELSE Goto(p, "show", pin[c])
      /\ shaken' = shaken \cup {c : q \in {x \in Resolvers : clientOf[x] = c /\ pc[x] # "idle"}}
      /\ UNCHANGED <<signerVars, up, pin, fresh, coordinators, conn, left, tabVars,
                     pinFile, crashes, home, written, mishaps>>

(* The pin is set; persistSenderPin reads the file before its first await. *)
Pin(p, h) ==
  LET c == clientOf[p]
  IN  /\ pin' = [pin EXCEPT ![c] = h]
      /\ home' = [home EXCEPT ![c] = h]
      /\ written' = IF home[c] = h THEN written ELSE written \ {c}
      /\ fresh' = fresh \cup {c}
      /\ coordinators' = coordinators \cup {h}
      /\ Goto(p, "read", h)
      /\ conn' = [conn EXCEPT ![p] = pinFile]
      /\ mishaps' = mishaps \cup {"overlap" : q \in {x \in Resolvers : Persisting(x)}}

(* accept: terminal show answers that the tab is fit. *)
ShowHit(p) ==
  /\ up /\ pc[p] \in {"show", "showTitle", "showSuffix"}
  /\ p \notin left
  /\ target[p] \in live
  /\ Pin(p, target[p])
  /\ UNCHANGED <<signerVars, up, left, tabVars, pinFile, crashes, shaken>>

(* accept yields null: the tab is gone, or the call failed or timed out.  A
   revalidated pin is dropped; a tab found by its title is tried again as a
   suffix match. *)
ShowMiss(p) ==
  /\ up
  /\ \/ /\ pc[p] = "show"
        /\ pin' = [pin EXCEPT ![clientOf[p]] = NoTab]
        /\ fresh' = fresh \ {clientOf[p]}
        /\ Goto(p, "list", NoTab)
     \/ /\ pc[p] = "showTitle"
        /\ Goto(p, "showSuffix", target[p])
        /\ UNCHANGED <<pin, fresh>>
     \/ /\ pc[p] = "showSuffix"
        /\ Goto(p, "create", NoTab)
        /\ UNCHANGED <<pin, fresh>>
  /\ shaken' = shaken \cup {clientOf[p] : h \in {target[p]} \cap live}
  /\ UNCHANGED <<signerVars, up, coordinators, conn, left, tabVars, pinFile, crashes,
                 home, written, mishaps>>

(* A bug the search by title could have: every client matches the base title. *)
AnyTitle(c, h) == h \in live \cap titled

(* The title of c, or its short id, shows in the title of h; the bare base title
   is part of everyone's. *)
TitleMatches(c, h) ==
  /\ h \in live \cap titled
  /\ maker[h] = c \/ c \in BaseClients

ListHit(p) ==
  /\ up /\ pc[p] = "list"
  /\ p \notin left
  /\ \E h \in Handles : TitleMatches(clientOf[p], h) /\ Goto(p, "showTitle", h)
  /\ UNCHANGED <<signerVars, up, pin, fresh, coordinators, conn, left, tabVars, pinFile,
                 crashes, home, written, hurtVars>>

(* Nothing matches, or the call failed. *)
ListMiss(p) ==
  /\ up /\ pc[p] = "list"
  /\ Goto(p, "create", NoTab)
  /\ UNCHANGED <<signerVars, up, pin, fresh, coordinators, conn, left, tabVars, pinFile,
                 crashes, home, written, hurtVars>>

NewTab(c, h) ==
  /\ maker[h] = NoClient
  /\ maker' = [maker EXCEPT ![h] = c]
  /\ live' = live \cup {h}
  /\ titled' = titled \cup {h}
  /\ UNCHANGED closes

Create(p) ==
  /\ up /\ pc[p] = "create"
  /\ p \notin left
  /\ \E h \in Handles : NewTab(clientOf[p], h) /\ Pin(p, h)
  /\ UNCHANGED <<signerVars, up, left, pinFile, crashes, shaken>>

(* terminal create fails or its answer is lost, perhaps after it took effect; with
   an aborted signal it is not even started. *)
CreateFails(p) ==
  /\ up /\ pc[p] = "create"
  /\ \/ UNCHANGED tabVars
     \/ p \notin left /\ \E h \in Handles : NewTab(clientOf[p], h)
  /\ Stop(p)
  /\ UNCHANGED <<signerVars, up, pin, fresh, coordinators, pinFile, crashes, home, written,
                 hurtVars>>

-----------------------------------------------------------------------------
(* persistSenderPin: read, verify, merge, sign, write. *)

(* Bugs the merge could have: it keeps the rows of the others only, or a list. *)
MergeOthers(t, c, h) == t
MergeList(t, c, h) == [t EXCEPT ![c] = {h}]

Merge(t, c, h) == [t EXCEPT ![c] = h]

SendMerged(p, t) ==
  /\ conn' = [conn EXCEPT ![p] = Request(Merge(t, clientOf[p], target[p]))]
  /\ Goto(p, "sign", target[p])

MergeVerified(p) ==
  /\ up /\ pc[p] = "read" /\ conn[p].kind = "signed"
  /\ HandleVerify(Store, conn[p].env)
  /\ SendMerged(p, IF reply'.verdict = "valid" THEN conn[p].env.payload ELSE NoPins)
  /\ UNCHANGED <<up, pin, fresh, coordinators, left, tabVars, pinFile, crashes, home, written,
                 hurtVars>>

(* The signer does not answer: the pin goes out alone. *)
MergeUnanswered(p) ==
  /\ up /\ pc[p] = "read" /\ conn[p].kind = "signed"
  /\ SendMerged(p, NoPins)
  /\ mishaps' = mishaps \cup {"lapse"}
  /\ UNCHANGED <<signerVars, up, pin, fresh, coordinators, left, tabVars, pinFile, crashes,
                 home, written, shaken>>

(* No file, or one that cannot be parsed: "writing sole pin". *)
MergeEmpty(p) ==
  /\ up /\ pc[p] = "read" /\ conn[p].kind # "signed"
  /\ SendMerged(p, NoPins)
  /\ UNCHANGED <<signerVars, up, pin, fresh, coordinators, left, tabVars, pinFile, crashes,
                 home, written, hurtVars>>

SignPins(p) ==
  /\ up /\ pc[p] = "sign"
  /\ HandleSign(Store, conn[p].payload)
  /\ conn' = [conn EXCEPT ![p] = Signed(reply'.env)]
  /\ Goto(p, "write", target[p])
  /\ UNCHANGED <<up, pin, fresh, coordinators, left, tabVars, pinFile, crashes, home, written,
                 hurtVars>>

WritePins(p) ==
  LET c == clientOf[p]
  IN  /\ up /\ pc[p] = "write"
      /\ pinFile' = conn[p]
      /\ written' = IF home[c] = target[p] THEN written \cup {c} ELSE written
      /\ Stop(p)
      /\ UNCHANGED <<signerVars, up, pin, fresh, coordinators, tabVars, crashes, home, hurtVars>>

(* The signer did not sign or its answer was lost, or the write threw, before or
   after it truncated the file: a warning, the pin stays in memory. *)
PersistFails(p) ==
  /\ up
  /\ \/ pc[p] = "sign" /\ UNCHANGED pinFile
     \/ pc[p] = "write" /\ pinFile' \in {pinFile, Malformed}
  /\ Stop(p)
  /\ mishaps' = mishaps \cup {"lapse"}
  /\ UNCHANGED <<signerVars, up, pin, fresh, coordinators, tabVars, crashes, home, written,
                 shaken>>

-----------------------------------------------------------------------------
(* What happens around the resolvers. *)

Expire(c) ==
  /\ c \in fresh
  /\ fresh' = fresh \ {c}
  /\ UNCHANGED <<signerVars, up, pin, coordinators, procVars, tabVars, pinFile, crashes,
                 home, written, hurtVars>>

(* The request is aborted: the lock is free again, the resolver runs on.  The
   call under way is killed, a terminal create perhaps after it took effect. *)
Leave(p) ==
  /\ p \in Locked \ left /\ pc[p] # "idle"
  /\ left' = left \cup {p}
  /\ shaken' = shaken \cup {clientOf[p]}
  /\ \/ UNCHANGED tabVars
     \/ pc[p] = "create" /\ \E h \in Handles : NewTab(clientOf[p], h)
  /\ UNCHANGED <<signerVars, up, pin, fresh, coordinators, pc, target, conn,
                 pinFile, crashes, home, written, mishaps>>

CloseTab(h) ==
  /\ h \in live /\ closes < MaxCloses
  /\ live' = live \ {h}
  /\ closes' = closes + 1
  /\ UNCHANGED <<signerVars, up, pin, fresh, coordinators, procVars, maker, titled,
                 pinFile, crashes, home, written, hurtVars>>

(* Shell TUIs rewrite the title to "user@host: path". *)
RewriteTitle(h) ==
  /\ h \in live \cap titled
  /\ titled' = titled \ {h}
  /\ UNCHANGED <<signerVars, up, pin, fresh, coordinators, procVars, maker, live, closes,
                 pinFile, crashes, home, written, hurtVars>>

BridgeCrash ==
  /\ up /\ crashes < MaxCrashes
  /\ crashes' = crashes + 1
  /\ up' = FALSE
  /\ pin' = NoPins /\ fresh' = {} /\ coordinators' = {}
  /\ pc' = [p \in Resolvers |-> "idle"]
  /\ target' = [p \in Resolvers |-> NoTab]
  /\ conn' = [p \in Resolvers |-> None]
  /\ left' = {}
  /\ \/ UNCHANGED pinFile
     \/ (\E p \in Resolvers : pc[p] = "write") /\ pinFile' = Malformed
  /\ mishaps' = mishaps \cup {"lapse" : q \in {x \in Resolvers : Persisting(x)}}
  /\ UNCHANGED <<signerVars, tabVars, home, written, shaken>>

(* A bug the load could have: rememberCoordinatorHandle is forgotten. *)
LoadForgets(t) ==
  /\ up' = TRUE
  /\ pin' = t /\ home' = t
  /\ UNCHANGED <<fresh, coordinators, procVars, tabVars, pinFile, crashes, written, shaken>>

(* loadPersistedPins, awaited before traffic is accepted. *)
Load(t) ==
  /\ up' = TRUE
  /\ pin' = t
  /\ home' = [c \in Clients |-> IF t[c] = NoTab THEN home[c] ELSE t[c]]
  /\ coordinators' = {t[c] : c \in Clients} \ {NoTab}
  /\ UNCHANGED <<fresh, procVars, tabVars, pinFile, crashes, written, shaken>>

StartVerified ==
  /\ ~up /\ pinFile.kind = "signed"
  /\ HandleVerify(Store, pinFile.env)
  /\ Load(IF reply'.verdict = "valid" THEN pinFile.env.payload ELSE NoPins)
  /\ UNCHANGED mishaps

StartWithoutFile ==
  /\ ~up /\ pinFile.kind # "signed"
  /\ Load(NoPins)
  /\ UNCHANGED <<signerVars, mishaps>>

StartWithoutSigner ==
  /\ ~up /\ pinFile.kind = "signed"
  /\ Load(NoPins)
  /\ mishaps' = mishaps \cup {"lapse"}
  /\ UNCHANGED signerVars

Next ==
  \/ \E p \in Resolvers : Start(p)
  \/ \E p \in Resolvers : ShowHit(p)
  \/ \E p \in Resolvers : ShowMiss(p)
  \/ \E p \in Resolvers : ListHit(p)
  \/ \E p \in Resolvers : ListMiss(p)
  \/ \E p \in Resolvers : Create(p)
  \/ \E p \in Resolvers : CreateFails(p)
  \/ \E p \in Resolvers : MergeVerified(p)
  \/ \E p \in Resolvers : MergeUnanswered(p)
  \/ \E p \in Resolvers : MergeEmpty(p)
  \/ \E p \in Resolvers : SignPins(p)
  \/ \E p \in Resolvers : WritePins(p)
  \/ \E p \in Resolvers : PersistFails(p)
  \/ \E c \in Clients : Expire(c)
  \/ \E p \in Locked : Leave(p)
  \/ \E h \in Handles : CloseTab(h)
  \/ \E h \in Handles : RewriteTitle(h)
  \/ BridgeCrash
  \/ StartVerified
  \/ StartWithoutFile
  \/ StartWithoutSigner

Spec == Init /\ [][Next]_vars

-----------------------------------------------------------------------------

Stored == {Missing, Malformed} \cup [kind : {"signed"}, env : Envelope]
Steps  == {"idle", "show", "showTitle", "showSuffix", "list", "create", "read", "sign",
           "write"}

(* Every variable of the bridge, the runtime's tabs and the signer stays in its
   type. *)
TypeOK ==
  /\ SignerTypeOK
  /\ up \in BOOLEAN
  /\ pin \in PinTable /\ home \in PinTable
  /\ fresh \subseteq Clients /\ written \subseteq Clients /\ shaken \subseteq Clients
  /\ mishaps \subseteq {"overlap", "lapse"}
  /\ coordinators \subseteq Handles
  /\ pc \in [Resolvers -> Steps]
  /\ target \in [Resolvers -> Handles \cup {NoTab}]
  /\ conn \in [Resolvers -> {None} \cup Stored \cup [kind : {"request"}, payload : Payloads]]
  /\ left \subseteq Locked
  /\ maker \in [Handles -> Clients \cup {NoClient}]
  /\ live \subseteq Handles /\ titled \subseteq Handles
  /\ pinFile \in Stored
  /\ crashes \in 0..MaxCrashes /\ closes \in 0..MaxCloses

(* "two coordinators on one bridge" do not fence each other: no tab is pinned
   for two clients, through races, failed calls, lost answers and restarts. *)
PinsAreDistinct ==
  \A c, d \in Clients : c # d /\ pin[c] = pin[d] => pin[c] = NoTab

(* "never release/close these": whatever tab is pinned for a client is known as
   a coordinator tab, so releaseRefusesCoordinator spares it (restarts included). *)
PinsAreProtected ==
  \A c \in Clients : pin[c] # NoTab => pin[c] \in coordinators

(* A tab is created for c although the tab pinned last for it lives. *)
Sibling(c) == \E h \in Handles :
  maker[h] = NoClient /\ maker'[h] = c /\ home[c] \in live

(* "never create a sibling while the pin lives", of the clients that nothing has
   shaken: through cache expiry, rewritten titles, closed tabs and restarts of
   the bridge a tab is created only if the pinned one is gone. *)
NoSiblingWhilePinLives ==
  [][\A c \in Clients \ shaken : mishaps = {} => ~Sibling(c)]_vars

(* "Persist so bridge restart reuses the same handle": where persists neither
   overlap nor are cut short, a pin that reached the file is back after a
   restart. *)
RestartReusesPin ==
  [][~up /\ up' /\ mishaps' = {} => \A c \in written : pin'[c] = home[c]]_vars

=============================================================================
