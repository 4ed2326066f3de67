------------------------------ MODULE BridgeAccess ------------------------------
(***************************************************************************)
(* Who a request of the HTTP transport speaks for: pairing by OAuth code,  *)
(* the store of access tokens, MCP sessions, authenticate and              *)
(* deriveClientKey (server.mjs, lib/security-core.mjs,                     *)
(* lib/orch-isolation.mjs).                                                *)
(*                                                                         *)
(* Codes, session ids and access tokens of two clients never meet but in   *)
(* the set of issued tokens and its file, so the module follows one        *)
(* client: it presents the master token, or an access token of its own,    *)
(* and the session id it was answered last.  A tools/call takes time, and  *)
(* other requests of the client come in between; all other handlers run    *)
(* at once.  Time is counted as far as the two lifetimes tell it apart;    *)
(* ids are random, and one nobody holds may be drawn again.                *)
(***************************************************************************)
EXTENDS Naturals

CONSTANTS
  Tokens, Sids,    (* access tokens and session ids that may be drawn         *)
  Master, NoKey, NoSid,
  CodeTTL,         (* AUTH_CODE_TTL_MS                                        *)
  SessionTTL,      (* SESSION_TTL_MS                                          *)
  MaxFaults,       (* bound on lost answers, failed writes, refused codes, and  *)
                   (* pairings of other clients or without need               *)
  MaxRestarts

ASSUME AccessAssumption ==
  /\ Tokens \cap Sids = {} /\ Master \notin Tokens \cup Sids
  /\ NoKey \notin Tokens \cup Sids \cup {Master} /\ NoSid \notin Sids
  /\ CodeTTL \in Nat /\ SessionTTL \in Nat /\ MaxFaults \in Nat /\ MaxRestarts \in Nat

VARIABLES
  authKind,        (* what the client presents: the master token, or access      *)
                   (* tokens of its own                                       *)
  issued, stored,  (* access tokens: issuedTokens, and the file               *)
  code,            (* authCodes: the age of the client's code                 *)
  session,         (* sessions: age and clientKey                             *)
  flight,          (* the tools/call under way: its session and clientKey      *)
  grant,           (* whether the client holds a code                         *)
  token, known,    (* what the client presents: access token and session id    *)
  as,              (* the clientKey it was admitted under last                *)
  faults, restarts,
  saved            (* history: tokens written to the file and not wrecked      *)

tokenVars  == <<issued, stored, saved>>
pairVars   == <<code, grant>>
clientVars == <<token, known, as>>
counters   == <<faults, restarts>>
vars == <<authKind, tokenVars, pairVars, session, flight, clientVars, counters>>

Paired == authKind = "bearer-oauth"

Keys == Tokens \cup Sids \cup {Master}
Gone == [key |-> NoKey, age |-> SessionTTL + 1]
NoFlight == [sid |-> NoSid, key |-> NoKey]

Init ==
  /\ authKind \in {"bearer-master", "bearer-oauth"}
  /\ issued = {} /\ stored = {} /\ saved = {}
  /\ code = CodeTTL + 1 /\ grant = "none"
  /\ session = [s \in Sids |-> Gone] /\ flight = NoFlight
  /\ token = NoKey /\ known = NoSid /\ as = NoKey
  /\ faults = 0 /\ restarts = 0

Fault == faults < MaxFaults /\ faults' = faults + 1 /\ UNCHANGED restarts

(* What is drawn at random is new: one of the unused is as good as another. *)
Any(unused) == IF unused = {} THEN {} ELSE {CHOOSE x \in unused : TRUE}
NewTokens == Any(Tokens \ (issued \cup stored \cup {token, flight.key}))

-----------------------------------------------------------------------------
(* Pairing. *)

(* POST /authorize with the master token. *)
Authorize ==
  /\ Paired /\ grant = "none"
  /\ IF token = NoKey THEN UNCHANGED counters ELSE Fault
  /\ code' = 0 /\ grant' = "code"
  /\ UNCHANGED <<authKind, tokenVars, session, flight, clientVars>>

(* A bug the store could have: only the new token is written. *)
WrittenNewest(t) == {t}

(* persistTokens writes the whole set. *)
Written(t) == issued \cup {t}

(* The failure of a write, which may have truncated the file, is swallowed. *)
IssueToken(t) ==
  /\ issued' = issued \cup {t}
  /\ \/ stored' = Written(t) /\ saved' = issued' /\ UNCHANGED counters
     \/ Fault /\ UNCHANGED <<stored, saved>>
     \/ Fault /\ stored' = {} /\ saved' = {}

(* The code is used up, whatever becomes of the request. *)
CodeUsed == CodeTTL + 1

(* POST /token: the client is answered its token, and starts without a session. *)
Redeem ==
  /\ grant = "code" /\ code <= CodeTTL
  /\ \E t \in NewTokens : IssueToken(t) /\ token' = t
  /\ code' = CodeUsed /\ grant' = "none"
  /\ known' = NoSid /\ as' = NoKey
  /\ UNCHANGED <<authKind, session, flight>>

(* The same, but the answer is lost: the client still holds the code. *)
RedeemUnheard ==
  /\ grant = "code" /\ code <= CodeTTL
  /\ Fault
  /\ \E t \in NewTokens :
       issued' = issued \cup {t} /\ stored' = Written(t) /\ saved' = issued'
  /\ code' = CodeUsed
  /\ UNCHANGED <<authKind, grant, session, flight, clientVars>>

(* invalid_grant: the code is not known, or not any more. *)
CodeRefused ==
  /\ grant = "code" /\ code > CodeTTL
  /\ grant' = "none"
  /\ UNCHANGED <<authKind, tokenVars, code, session, flight, clientVars, counters>>

(* The redirect_uri or the verifier does not match. *)
VerifierRefused ==
  /\ grant = "code" /\ code <= CodeTTL
  /\ Fault
  /\ code' = CodeUsed /\ grant' = "none"
  /\ UNCHANGED <<authKind, tokenVars, session, flight, clientVars>>

OthersPair ==
  /\ Fault
  /\ \E t \in NewTokens :
       issued' = issued \cup {t} /\ stored' = Written(t) /\ saved' = issued'
  /\ UNCHANGED <<authKind, pairVars, session, flight, clientVars>>

-----------------------------------------------------------------------------
(* authenticate. A request is bare if it comes without a token. *)

Live(s) == s # NoSid /\ session[s].age <= SessionTTL

(* pruneSessions, at every request. *)
Pruned == [s \in Sids |-> IF Live(s) THEN session[s] ELSE Gone]

(* A bug authenticate could have: a session id that is not known is refused. *)
AdmittedKnown(bare) ==
  IF known = NoSid THEN ~bare /\ (~Paired \/ token \in issued) ELSE Live(known)

(* By a token, or else by a live session alone. *)
Admitted(bare) ==
  \/ ~bare /\ (~Paired \/ token \in issued)
  \/ Live(known)

(* A bug deriveClientKey could have: any session id goes before the token. *)
KeyOfSessionFirst(bare, s) ==
  IF Live(s) THEN session[s].key
  ELSE IF s # NoSid THEN s
  ELSE IF ~bare /\ Paired THEN token
  ELSE Master

(* deriveClientKey: the session's, the access token's, that of a session id which
   is not known (any more), or the master's. *)
ClientKey(bare, s) ==
  IF Live(s) THEN session[s].key
  ELSE IF ~bare /\ Paired THEN token
  ELSE IF s # NoSid THEN s
  ELSE Master

(* 401: the client goes back to its token, or pairs anew. *)
Denied(bare) ==
  /\ ~Admitted(bare)
  /\ session' = Pruned /\ as' = NoKey
  /\ IF bare THEN known' = NoSid /\ UNCHANGED token ELSE token' = NoKey /\ UNCHANGED known
  /\ UNCHANGED <<authKind, tokenVars, pairVars, flight, counters>>

-----------------------------------------------------------------------------
(* The requests of the MCP endpoint, with the client's session id or without. *)

NewSids == Any({s \in Sids : Pruned[s] = Gone /\ s \notin {known, flight.sid, flight.key, as}})

(* A bug initialize could have: the session id it is sent will do. *)
SessionAsAsked(sid) == IF sid # NoSid THEN {sid} ELSE NewSids

SessionFor(sid) == IF Live(sid) THEN {sid} ELSE NewSids

(* A bug initialize could have: the session it makes is nobody's yet. *)
NewSessionOfNobody(key) == [key |-> NoKey, age |-> 0]

NewSession(key) == [key |-> key, age |-> 0]

(* initialize and GET: without a live session they make one; the client is
   answered its id, unless the answer is lost. *)
Enter(bare, keep) ==
  LET sid == IF keep THEN known ELSE NoSid
      key == ClientKey(bare, sid)
  IN  /\ Admitted(bare) /\ (bare => keep)
      /\ \E s \in SessionFor(sid) :
           /\ session' = [Pruned EXCEPT ![s] =
                            IF Live(s) THEN [@ EXCEPT !.key = key] ELSE NewSession(key)]
           /\ \/ known' = s /\ UNCHANGED counters
              \/ s # sid /\ Fault /\ UNCHANGED known
      /\ as' = key
      /\ UNCHANGED <<authKind, tokenVars, pairVars, flight, token>>

(* touchSession: the handler goes on with the session only if it is live. *)
Held(sid) == IF Live(sid) THEN sid ELSE NoSid

Call(bare) ==
  LET key == ClientKey(bare, known)
  IN  /\ Admitted(bare) /\ flight = NoFlight
      /\ session' = Pruned
      /\ flight' = [sid |-> Held(known), key |-> key]
      /\ as' = key
      /\ UNCHANGED <<authKind, tokenVars, pairVars, token, known, counters>>

(* The call returns: its session gets its clientKey, and is made again if it is
   not in the map any more. *)
Return ==
  LET sid == flight.sid
  IN  /\ flight # NoFlight
      /\ flight' = NoFlight
      /\ IF sid = NoSid THEN UNCHANGED session
         ELSE session' = [session EXCEPT ![sid] =
                            IF @ = Gone THEN NewSession(flight.key)
                            ELSE [@ EXCEPT !.key = flight.key]]
      /\ UNCHANGED <<authKind, tokenVars, pairVars, clientVars, counters>>

Delete(bare) ==
  /\ Admitted(bare) /\ known # NoSid
  /\ session' = [Pruned EXCEPT ![known] = Gone]
  /\ known' = NoSid /\ as' = ClientKey(bare, known)
  /\ UNCHANGED <<authKind, tokenVars, pairVars, flight, token, counters>>

-----------------------------------------------------------------------------

Tick ==
  LET Older(age, ttl) == IF age > ttl THEN age ELSE age + 1
  IN  /\ code' = Older(code, CodeTTL)
      /\ session' = [s \in Sids |-> [session[s] EXCEPT !.age = Older(@, SessionTTL)]]
      /\ UNCHANGED <<authKind, tokenVars, grant, flight, clientVars, counters>>

(* Only the file survives; one that cannot be read is taken for an empty one. *)
Restart ==
  /\ restarts < MaxRestarts /\ restarts' = restarts + 1
  /\ \/ issued' = stored /\ UNCHANGED <<faults, saved>>
     \/ /\ faults < MaxFaults /\ faults' = faults + 1
        /\ issued' = {} /\ saved' = {}
  /\ code' = CodeTTL + 1
  /\ session' = [s \in Sids |-> Gone] /\ flight' = NoFlight
  /\ as' = NoKey
  /\ UNCHANGED <<authKind, stored, grant, token, known>>

Ask(bare) ==
  \/ Denied(bare) \/ Call(bare) \/ Delete(bare)
  \/ \E keep \in BOOLEAN : Enter(bare, keep)

Next ==
  \/ Authorize \/ Redeem \/ RedeemUnheard \/ CodeRefused \/ VerifierRefused \/ OthersPair
  \/ \E bare \in BOOLEAN : Ask(bare)
  \/ Return \/ Tick \/ Restart

Spec == Init /\ [][Next]_vars

PairAgain == token = NoKey /\ Authorize
AskAgain  == (Paired => token # NoKey) /\ (Denied(FALSE) \/ Call(FALSE))

(* A client without a token, or whose token is refused, pairs, in time for the code;
   it calls with its token again and again, and calls return. *)
Fairness ==
  /\ WF_vars(PairAgain) /\ SF_vars(Redeem) /\ WF_vars(CodeRefused)
  /\ WF_vars(AskAgain) /\ WF_vars(Return)

FairSpec == Spec /\ Fairness

-----------------------------------------------------------------------------

(* Every variable stays in its type, and a live session is somebody's. *)
TypeOK ==
  /\ authKind \in {"bearer-master", "bearer-oauth"} /\ grant \in {"none", "code"}
  /\ issued \subseteq Tokens /\ stored \subseteq Tokens /\ saved \subseteq Tokens
  /\ code \in 0..CodeTTL + 1
  /\ session \in [Sids -> [key : Keys \cup {NoKey}, age : 0..SessionTTL + 1]]
  /\ \A s \in Sids : Live(s) => session[s].key \in Keys
  /\ flight \in [sid : Sids \cup {NoSid}, key : Keys \cup {NoKey}]
  /\ token \in Tokens \cup {NoKey} /\ known \in Sids \cup {NoSid}
  /\ as \in Keys \cup {NoKey}
  /\ faults \in 0..MaxFaults /\ restarts \in 0..MaxRestarts

(* "Prefer OAuth access token (survives MCP session rotate)": a client with an access
   token is the same coordinator in all its requests, with and without the token,
   while its sessions expire, are deleted or made again, and the bridge restarts
   (deriveClientKey, authenticate, the end of a call). *)
ClientIsItsToken == Paired => as \in {NoKey, token}

(* "Issued tokens persist so a bridge restart does not force re-pairing": a token
   in a file that was written and is readable is valid, through restarts and writes
   that fail before and after it (persistTokens). *)
SavedTokensAreValid == saved \subseteq issued

(* A session the client still holds the id of, and that is over, does not come back,
   but for a call that has had it in its hands all the time (touchSession,
   pruneSessions, the handler of DELETE, the end of a call). *)
SessionsEnd ==
  [][known # NoSid /\ ~Live(known) /\ flight.sid # known
       => session'[known].age > SessionTTL]_vars

(* A client that goes on is admitted again: after an expiry, a lost answer, a lost
   token and a restart, whatever session id it still has. *)
ClientGetsIn == as = NoKey ~> as # NoKey
=============================================================================
