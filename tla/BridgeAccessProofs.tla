--------------------------- MODULE BridgeAccessProofs ---------------------------
(* Who a client speaks for, which tokens outlive a restart and that sessions end,
   for any number of tokens, session ids, faults and restarts. *)
EXTENDS BridgeAccess, TLAPS

(* A session that the client holds the id of, and the call that holds it, are those
   of the token the client presents; a token that is not valid (any more) has
   neither. *)
IdentityInv ==
  Paired =>
    /\ as \in {NoKey, token}
    /\ known # NoSid => session[known].key \in {NoKey, token}
    /\ known # NoSid /\ flight.sid = known => flight.key = token
    /\ known # NoSid /\ token \notin issued => ~Live(known) /\ flight.sid # known

(* What is in the file and readable is in memory, and in the file after a write. *)
StoreInv == saved \subseteq issued /\ saved \subseteq stored

FlightInv == flight.sid # NoSid => flight.key \in Keys

AccessInv == TypeOK /\ IdentityInv /\ StoreInv /\ FlightInv

-----------------------------------------------------------------------------
(* What is drawn is drawn from the unused. *)

LEMMA AnyIsOneOf == ASSUME NEW S, NEW x \in Any(S) PROVE x \in S
BY DEF Any

LEMMA NewTokenIsToken == ASSUME NEW t \in NewTokens PROVE t \in Tokens
BY AnyIsOneOf DEF NewTokens

LEMMA NewSidIsNew ==
  ASSUME NEW s \in NewSids
  PROVE  s \in Sids /\ s # known /\ s # flight.sid /\ Pruned[s] = Gone
BY AnyIsOneOf DEF NewSids

LEMMA PrunedType ==
  ASSUME TypeOK
  PROVE  /\ Pruned \in [Sids -> [key : Keys \cup {NoKey}, age : 0..SessionTTL + 1]]
         /\ \A s \in Sids : Pruned[s] = IF Live(s) THEN session[s] ELSE Gone
BY AccessAssumption DEF Pruned, Gone, TypeOK

(* Whoever is admitted is somebody, and with a token of its own that token. *)
LEMMA AdmittedKey ==
  ASSUME AccessInv, NEW bare \in BOOLEAN, Admitted(bare),
         NEW s \in {known, NoSid}, bare => s = known
  PROVE  /\ ClientKey(bare, s) \in Keys
         /\ Paired => ClientKey(bare, s) = token /\ token \in issued
<1> USE AccessAssumption DEF AccessInv, TypeOK, Keys
<1>1. Paired => token \in issued
  BY DEF Admitted, IdentityInv, Paired, Live
<1>2. token \in issued => token # NoKey
  OBVIOUS
<1>3. CASE Live(s)
  <2>1. s = known /\ s # NoSid /\ s \in Sids
    BY <1>3 DEF Live
  <2>2. session[s].key \in Keys /\ session[s].key # NoKey
    BY <1>3, <2>1
  <2> QED BY <1>1, <1>3, <2>1, <2>2 DEF ClientKey, IdentityInv, Paired
<1>4. CASE ~Live(s)
  <2>1. ~bare
    BY <1>4 DEF Admitted, Live
  <2> QED BY <1>1, <1>2, <1>4, <2>1 DEF ClientKey
<1> QED BY <1>3, <1>4

(* What a request leaves of the sessions, before it makes or ends one. *)
LEMMA LiveAfter ==
  ASSUME TypeOK, NEW s \in Sids, session' = Pruned
  PROVE  /\ session'[s].key \in {NoKey, session[s].key}
         /\ session'[s].age <= SessionTTL => session'[s] = session[s] /\ Live(s)
<1>1. CASE Live(s)
  BY <1>1, PrunedType
<1>2. CASE ~Live(s)
  <2>1. session'[s] = Gone
    BY <1>2, PrunedType
  <2> QED BY <2>1, AccessAssumption DEF Gone
<1> QED BY <1>1, <1>2

-----------------------------------------------------------------------------

LEMMA AccessInit == Init => AccessInv
<1> SUFFICES ASSUME Init PROVE AccessInv
  OBVIOUS
<1> USE AccessAssumption DEF Init
<1>1. Gone \in [key : Keys \cup {NoKey}, age : 0..SessionTTL + 1] /\ Gone.age = SessionTTL + 1
      /\ NoFlight \in [sid : Sids \cup {NoSid}, key : Keys \cup {NoKey}]
  BY DEF Gone, NoFlight
<1>2. \A s \in Sids : ~Live(s)
  BY <1>1 DEF Live
<1>3. TypeOK
  BY <1>1, <1>2 DEF TypeOK
<1> QED BY <1>3 DEF AccessInv, IdentityInv, Paired, StoreInv, FlightInv, NoFlight

(* The steps that leave the client and its sessions alone. *)
LEMMA AloneStep ==
  ASSUME AccessInv, issued \subseteq issued',
         UNCHANGED <<authKind, session, flight, token, known, as>>
  PROVE  /\ IdentityInv' /\ FlightInv'
         /\ (\A s \in Sids : Live(s) => session[s].key \in Keys)'
<1>1. /\ authKind' = authKind /\ session' = session /\ flight' = flight
      /\ token' = token /\ known' = known /\ as' = as
  OBVIOUS
<1>2. FlightInv'
  BY <1>1 DEF AccessInv, FlightInv, Keys
<1>3. (\A s \in Sids : Live(s) => session[s].key \in Keys)'
  BY <1>1 DEF AccessInv, TypeOK, Live, Keys
<1>4. IdentityInv'
  BY <1>1 DEF AccessInv, IdentityInv, Paired, Live
<1> QED BY <1>2, <1>3, <1>4

(* What the steps of pairing do to the variables they change. *)
PairingType ==
  /\ issued \subseteq Tokens /\ stored \subseteq Tokens /\ saved \subseteq Tokens
  /\ code \in 0..CodeTTL + 1 /\ grant \in {"none", "code"}
  /\ faults \in 0..MaxFaults /\ restarts \in 0..MaxRestarts

LEMMA PairingKeeps ==
  ASSUME AccessInv, PairingType', StoreInv', issued \subseteq issued',
         UNCHANGED <<authKind, session, flight, token, known, as>>
  PROVE  AccessInv'
<1>1. IdentityInv' /\ FlightInv' /\ (\A s \in Sids : Live(s) => session[s].key \in Keys)'
  BY AloneStep
<1>2. /\ authKind' = authKind /\ session' = session /\ flight' = flight
      /\ token' = token /\ known' = known /\ as' = as
  OBVIOUS
<1>3. TypeOK'
  BY <1>1, <1>2 DEF AccessInv, TypeOK, PairingType, Keys
<1> QED BY <1>1, <1>3 DEF AccessInv

(* The steps of pairing. *)
LEMMA PairingStep ==
  ASSUME AccessInv,
         Authorize \/ Redeem \/ RedeemUnheard \/ CodeRefused \/ VerifierRefused \/ OthersPair
  PROVE  AccessInv'
<1> USE AccessAssumption DEF pairVars, tokenVars, clientVars, counters
<1>0. TypeOK /\ StoreInv /\ PairingType
  BY DEF AccessInv, TypeOK, PairingType
<1>1. CASE Authorize
  <2>1. /\ UNCHANGED <<authKind, session, flight, token, known, as>> /\ issued' = issued
        /\ stored' = stored /\ saved' = saved /\ code' = 0 /\ grant' = "code"
    BY <1>1 DEF Authorize
  <2>2. faults' \in 0..MaxFaults /\ restarts' \in 0..MaxRestarts
    BY <1>0, <1>1 DEF Authorize, Fault, PairingType
  <2>3. PairingType' /\ StoreInv'
    BY <1>0, <2>1, <2>2 DEF PairingType, StoreInv
  <2> QED BY <2>1, <2>3, PairingKeeps
<1>2. CASE Redeem
  <2>1. PICK t \in NewTokens : IssueToken(t) /\ token' = t
    BY <1>2 DEF Redeem
  <2>2. t \in Tokens
    BY NewTokenIsToken
  <2>3. /\ issued' = issued \cup {t} /\ stored' \subseteq Tokens /\ saved' \subseteq issued'
        /\ saved' \subseteq stored' /\ faults' \in 0..MaxFaults /\ restarts' = restarts
    BY <1>0, <2>1, <2>2 DEF IssueToken, Written, Fault, PairingType, StoreInv
  <2>4. /\ UNCHANGED <<authKind, session, flight>> /\ known' = NoSid /\ as' = NoKey
        /\ code' = CodeTTL + 1 /\ grant' = "none"
    BY <1>2 DEF Redeem, CodeUsed
  <2>5. IdentityInv' /\ FlightInv' /\ StoreInv'
    BY <2>3, <2>4 DEF AccessInv, IdentityInv, FlightInv, StoreInv, Keys
  <2>6. (\A s \in Sids : Live(s) => session[s].key \in Keys)'
    BY <1>0, <2>4 DEF TypeOK, Live, Keys
  <2>7. TypeOK'
    BY <1>0, <2>1, <2>2, <2>3, <2>4, <2>6 DEF TypeOK, Keys
  <2> QED BY <2>5, <2>7 DEF AccessInv
<1>3. ASSUME NEW t \in NewTokens,
             Fault, issued' = issued \cup {t}, stored' = Written(t), saved' = issued',
             code' \in {code, CodeUsed}, grant' = grant,
             UNCHANGED <<authKind, session, flight, token, known, as>>
      PROVE  AccessInv'
  <2>1. t \in Tokens
    BY NewTokenIsToken
  <2>2. PairingType' /\ StoreInv'
    BY <1>0, <1>3, <2>1 DEF PairingType, StoreInv, Written, CodeUsed, Fault
  <2> QED BY <1>3, <2>2, PairingKeeps
<1>4. CASE CodeRefused \/ VerifierRefused
  <2>1. /\ UNCHANGED <<authKind, session, flight, token, known, as>> /\ issued' = issued
        /\ stored' = stored /\ saved' = saved /\ code' \in {code, CodeTTL + 1}
        /\ grant' = "none"
    BY <1>4 DEF CodeRefused, VerifierRefused, CodeUsed
  <2>2. faults' \in 0..MaxFaults /\ restarts' = restarts
    <3>1. CASE CodeRefused
      BY <1>0, <3>1 DEF CodeRefused, PairingType
    <3>2. CASE VerifierRefused
      BY <1>0, <3>2 DEF VerifierRefused, Fault, PairingType
    <3> QED BY <1>4, <3>1, <3>2
  <2>3. PairingType' /\ StoreInv'
    BY <1>0, <2>1, <2>2 DEF PairingType, StoreInv
  <2> QED BY <2>1, <2>3, PairingKeeps
<1>5. CASE RedeemUnheard \/ OthersPair
  BY <1>3, <1>5 DEF RedeemUnheard, OthersPair
<1> QED BY <1>1, <1>2, <1>4, <1>5

(* What the handlers of requests have to keep; they leave the tokens and codes alone. *)
SessionType ==
  /\ session \in [Sids -> [key : Keys \cup {NoKey}, age : 0..SessionTTL + 1]]
  /\ \A s \in Sids : Live(s) => session[s].key \in Keys

ClientType ==
  /\ flight \in [sid : Sids \cup {NoSid}, key : Keys \cup {NoKey}]
  /\ token \in Tokens \cup {NoKey} /\ known \in Sids \cup {NoSid}
  /\ as \in Keys \cup {NoKey}
  /\ faults \in 0..MaxFaults /\ restarts \in 0..MaxRestarts

LEMMA RequestKeeps ==
  ASSUME AccessInv, SessionType', ClientType', IdentityInv', FlightInv',
         authKind' = authKind, issued' = issued, stored' = stored, saved' = saved,
         code' = code, grant' = grant
  PROVE  AccessInv'
<1>1. TypeOK'
  BY DEF AccessInv, TypeOK, SessionType, ClientType
<1>2. StoreInv'
  BY DEF AccessInv, StoreInv
<1> QED BY <1>1, <1>2 DEF AccessInv

LEMMA InvTypes ==
  ASSUME AccessInv
  PROVE  /\ TypeOK /\ SessionType /\ ClientType /\ IdentityInv /\ StoreInv /\ FlightInv
BY DEF AccessInv, TypeOK, SessionType, ClientType

(* A request that is refused. *)
LEMMA DeniedStep ==
  ASSUME AccessInv, NEW bare \in BOOLEAN, Denied(bare) PROVE AccessInv'
<1> USE AccessAssumption
    DEF AccessInv, TypeOK, StoreInv, FlightInv, Keys, pairVars, tokenVars, counters
<1>1. /\ session' = Pruned /\ as' = NoKey /\ ~Live(known)
      /\ UNCHANGED <<authKind, tokenVars, pairVars, flight, counters>>
      /\ ~bare => Paired /\ token \notin issued /\ token' = NoKey /\ known' = known
      /\ bare => known' = NoSid /\ token' = token
  BY DEF Denied, Admitted
<1>2. session' \in [Sids -> [key : Keys \cup {NoKey}, age : 0..SessionTTL + 1]]
  BY <1>1, PrunedType
<1>3. \A s \in Sids : /\ session'[s].key \in {NoKey, session[s].key}
                      /\ session'[s].age <= SessionTTL => session'[s] = session[s] /\ Live(s)
  BY <1>1, LiveAfter
<1>4. (\A s \in Sids : Live(s) => session[s].key \in Keys)'
  BY <1>3 DEF Live
<1>5. known # NoSid => session'[known] = Gone
  BY <1>1, PrunedType
<1>6. IdentityInv'
  BY <1>1, <1>3, <1>5 DEF IdentityInv, Paired, Gone, Live
<1> QED BY <1>1, <1>2, <1>4, <1>6

LEMMA EnterStep ==
  ASSUME AccessInv, NEW bare \in BOOLEAN, NEW keep \in BOOLEAN, Enter(bare, keep)
  PROVE  AccessInv'
<1> DEFINE sid == IF keep THEN known ELSE NoSid
           key == ClientKey(bare, sid)
<1>0. SessionType /\ ClientType /\ IdentityInv /\ FlightInv /\ TypeOK
  BY InvTypes
<1>1. PICK s \in SessionFor(sid) :
        /\ session' = [Pruned EXCEPT ![s] =
                         IF Live(s) THEN [Pruned[s] EXCEPT !.key = key] ELSE NewSession(key)]
        /\ \/ known' = s /\ UNCHANGED counters
           \/ s # sid /\ Fault /\ UNCHANGED known
  BY DEF Enter
<1>2. /\ Admitted(bare) /\ (bare => keep) /\ as' = key /\ authKind' = authKind
      /\ issued' = issued /\ stored' = stored /\ saved' = saved
      /\ code' = code /\ grant' = grant /\ flight' = flight /\ token' = token
  BY DEF Enter, tokenVars, pairVars
<1>3. key \in Keys /\ (Paired => key = token /\ token \in issued)
  BY <1>2, AdmittedKey
<1>4. s \in Sids /\ (s # known => s # flight.sid) /\ (s = known => s = sid)
  <2>1. CASE Live(sid)
    <3>1. s = sid /\ sid = known /\ known # NoSid
      BY <1>1, <2>1 DEF SessionFor, Live
    <3> QED BY <1>0, <3>1 DEF ClientType
  <2>2. CASE ~Live(sid)
    <3>1. s \in NewSids
      BY <1>1, <2>2 DEF SessionFor
    <3> QED BY <3>1, NewSidIsNew
  <2> QED BY <2>1, <2>2
<1> DEFINE Rec == [key : Keys \cup {NoKey}, age : 0..SessionTTL + 1]
<1>5. Pruned \in [Sids -> Rec] /\ \A r \in Sids : Pruned[r] = IF Live(r) THEN session[r] ELSE Gone
  BY <1>0, PrunedType
<1> DEFINE rec == IF Live(s) THEN [Pruned[s] EXCEPT !.key = key] ELSE NewSession(key)
<1>6. rec \in Rec /\ rec.key = key
  <2>1. Pruned[s] \in Rec
    BY <1>4, <1>5
  <2>2. CASE Live(s)
    BY <1>3, <2>1, <2>2
  <2>3. CASE ~Live(s)
    BY <1>3, <2>3, AccessAssumption DEF NewSession
  <2> QED BY <2>2, <2>3
<1>7. session' = [Pruned EXCEPT ![s] = rec]
  BY <1>1
<1> HIDE DEF rec, Rec, key
<1>8. /\ session' \in [Sids -> Rec] /\ session'[s].key = key
      /\ \A r \in Sids : r # s => session'[r] = Pruned[r]
  BY <1>4, <1>5, <1>6, <1>7
<1>9. \A r \in Sids : r # s =>
        /\ session'[r].key \in {NoKey, session[r].key}
        /\ session'[r].age <= SessionTTL => session'[r] = session[r] /\ Live(r)
  <2> SUFFICES ASSUME NEW r \in Sids, r # s
               PROVE  /\ session'[r].key \in {NoKey, session[r].key}
                      /\ session'[r].age <= SessionTTL => session'[r] = session[r] /\ Live(r)
    OBVIOUS
  <2>1. session'[r] = IF Live(r) THEN session[r] ELSE Gone
    BY <1>5, <1>8
  <2> QED BY <2>1, AccessAssumption DEF Gone
<1>10. SessionType'
  <2>1. \A r \in Sids : Live(r)' => session'[r].key \in Keys
    <3> SUFFICES ASSUME NEW r \in Sids, Live(r)' PROVE session'[r].key \in Keys
      OBVIOUS
    <3>1. CASE r = s
      BY <1>3, <1>8, <3>1
    <3>2. CASE r # s
      BY <1>0, <1>9, <3>2 DEF Live, SessionType
    <3> QED BY <3>1, <3>2
  <2>2. session' \in [Sids -> [key : Keys \cup {NoKey}, age : 0..SessionTTL + 1]]
    BY <1>8 DEF Rec
  <2> QED BY <2>1, <2>2 DEF SessionType, Keys
<1>11. known' \in {s, known} /\ faults' \in 0..MaxFaults /\ restarts' = restarts
  BY <1>0, <1>1, AccessAssumption DEF Fault, counters, ClientType
<1>12. ClientType'
  <2>1. known' \in Sids \cup {NoSid}
    BY <1>0, <1>4, <1>11 DEF ClientType
  <2> QED BY <1>0, <1>2, <1>3, <1>11, <2>1 DEF ClientType, Keys
<1>13. IdentityInv'
  <2> SUFFICES ASSUME Paired' PROVE IdentityInv'
    BY DEF IdentityInv
  <2>1. Paired /\ key = token /\ token \in issued
    BY <1>2, <1>3 DEF Paired
  <2>2. known' # NoSid => session'[known'].key \in {NoKey, token}
    <3>1. CASE known' = s
      BY <1>8, <2>1, <3>1
    <3>2. CASE known' = known /\ known # s
      <4>1. known # NoSid => known \in Sids
        BY <1>0 DEF ClientType
      <4> QED BY <1>0, <1>9, <2>1, <3>2, <4>1 DEF IdentityInv
    <3> QED BY <1>11, <3>1, <3>2
  <2>3. known' # NoSid /\ flight.sid = known' => flight.key = token
    BY <1>0, <1>4, <1>11, <2>1 DEF IdentityInv
  <2> QED BY <1>2, <2>1, <2>2, <2>3 DEF IdentityInv
<1>14. FlightInv'
  BY <1>0, <1>2 DEF FlightInv, Keys
<1> QED BY <1>2, <1>10, <1>12, <1>13, <1>14, RequestKeeps

LEMMA CallStep ==
  ASSUME AccessInv, NEW bare \in BOOLEAN, Call(bare) PROVE AccessInv'
<1> DEFINE key == ClientKey(bare, known)
<1>0. SessionType /\ ClientType /\ IdentityInv /\ FlightInv /\ TypeOK
  BY InvTypes
<1>1. /\ Admitted(bare) /\ session' = Pruned /\ as' = key
      /\ flight' = [sid |-> Held(known), key |-> key]
      /\ authKind' = authKind /\ issued' = issued /\ stored' = stored /\ saved' = saved
      /\ code' = code /\ grant' = grant /\ token' = token /\ known' = known
      /\ faults' = faults /\ restarts' = restarts
  BY DEF Call, tokenVars, pairVars, counters
<1>2. key \in Keys /\ (Paired => key = token /\ token \in issued)
  BY <1>1, AdmittedKey
<1> HIDE DEF key
<1>3. \A s \in Sids : /\ session'[s].key \in {NoKey, session[s].key}
                      /\ session'[s].age <= SessionTTL => session'[s] = session[s] /\ Live(s)
  BY <1>0, <1>1, LiveAfter
<1>4. SessionType'
  <2>1. session' \in [Sids -> [key : Keys \cup {NoKey}, age : 0..SessionTTL + 1]]
    BY <1>0, <1>1, PrunedType
  <2>2. \A s \in Sids : Live(s)' => session'[s].key \in Keys
    BY <1>0, <1>3 DEF Live, SessionType
  <2> QED BY <2>1, <2>2 DEF SessionType, Keys
<1>5. Held(known) \in Sids \cup {NoSid}
  BY <1>0 DEF Held, ClientType
<1>6. ClientType' /\ flight'.key = key
  BY <1>0, <1>1, <1>2, <1>5 DEF ClientType, Keys
<1>7. IdentityInv'
  <2> SUFFICES ASSUME Paired' PROVE IdentityInv'
    BY DEF IdentityInv
  <2>1. Paired /\ key = token /\ token \in issued
    BY <1>1, <1>2 DEF Paired
  <2>2. known # NoSid => session'[known].key \in {NoKey, token}
    BY <1>0, <1>3, <2>1 DEF IdentityInv, ClientType
  <2> QED BY <1>1, <1>6, <2>1, <2>2 DEF IdentityInv
<1>8. FlightInv'
  BY <1>2, <1>6 DEF FlightInv, Keys
<1> QED BY <1>1, <1>4, <1>6, <1>7, <1>8, RequestKeeps

LEMMA DeleteStep ==
  ASSUME AccessInv, NEW bare \in BOOLEAN, Delete(bare) PROVE AccessInv'
<1> DEFINE key == ClientKey(bare, known)
<1>0. SessionType /\ ClientType /\ IdentityInv /\ FlightInv /\ TypeOK
  BY InvTypes
<1>1. /\ Admitted(bare) /\ known # NoSid /\ session' = [Pruned EXCEPT ![known] = Gone]
      /\ known' = NoSid /\ as' = key
      /\ authKind' = authKind /\ issued' = issued /\ stored' = stored /\ saved' = saved
      /\ code' = code /\ grant' = grant /\ token' = token /\ flight' = flight
      /\ faults' = faults /\ restarts' = restarts
  BY DEF Delete, tokenVars, pairVars, counters
<1>2. key \in Keys /\ (Paired => key = token)
  BY <1>1, AdmittedKey
<1> HIDE DEF key
<1> DEFINE Rec == [key : Keys \cup {NoKey}, age : 0..SessionTTL + 1]
<1>3. Gone \in Rec /\ Gone.age > SessionTTL
  BY AccessAssumption DEF Gone
<1>4. Pruned \in [Sids -> Rec] /\ \A r \in Sids : Pruned[r] = IF Live(r) THEN session[r] ELSE Gone
  BY <1>0, PrunedType
<1> HIDE DEF Rec
<1>5. /\ session' \in [Sids -> Rec]
      /\ \A r \in Sids : session'[r] = Gone \/ (session'[r] = session[r] /\ Live(r))
  BY <1>1, <1>3, <1>4
<1>6. SessionType'
  <2>1. \A r \in Sids : Live(r)' => session'[r].key \in Keys
    <3> SUFFICES ASSUME NEW r \in Sids, Live(r)' PROVE session'[r].key \in Keys
      OBVIOUS
    <3>1. session'[r].age <= SessionTTL
      BY DEF Live
    <3>2. session'[r] # Gone
      BY <1>3, <3>1, AccessAssumption DEF Gone
    <3> QED BY <1>0, <1>5, <3>2 DEF SessionType
  <2>2. session' \in [Sids -> [key : Keys \cup {NoKey}, age : 0..SessionTTL + 1]]
    BY <1>5 DEF Rec
  <2> QED BY <2>1, <2>2 DEF SessionType, Keys
<1>7. ClientType' /\ FlightInv'
  BY <1>0, <1>1, <1>2 DEF ClientType, FlightInv, Keys
<1>8. IdentityInv'
  BY <1>1, <1>2 DEF IdentityInv, Paired
<1> QED BY <1>1, <1>6, <1>7, <1>8, RequestKeeps

LEMMA ReturnStep == ASSUME AccessInv, Return PROVE AccessInv'
<1> USE AccessAssumption
    DEF AccessInv, TypeOK, StoreInv, FlightInv, Keys, pairVars, tokenVars, clientVars, counters
<1>1. /\ flight' = NoFlight
      /\ UNCHANGED <<authKind, tokenVars, pairVars, clientVars, counters>>
      /\ IF flight.sid = NoSid THEN UNCHANGED session
         ELSE session' = [session EXCEPT ![flight.sid] =
                            IF session[flight.sid] = Gone THEN NewSession(flight.key)
                            ELSE [session[flight.sid] EXCEPT !.key = flight.key]]
  BY DEF Return
<1>2. CASE flight.sid = NoSid
  BY <1>1, <1>2 DEF NoFlight, IdentityInv, Paired, Live
<1>3. CASE flight.sid # NoSid
  <2>1. flight.sid \in Sids /\ flight.key \in Keys
    BY <1>3
  <2>2. /\ session' \in [Sids -> [key : Keys \cup {NoKey}, age : 0..SessionTTL + 1]]
        /\ session'[flight.sid].key = flight.key
        /\ \A s \in Sids : s # flight.sid => session'[s] = session[s]
    BY <1>1, <1>3, <2>1 DEF NewSession
  <2>3. \A s \in Sids : Live(s)' => session'[s].key \in Keys
    BY <2>1, <2>2 DEF Live
  <2>4. IdentityInv'
    BY <1>1, <2>1, <2>2 DEF IdentityInv, Paired, NoFlight, Live
  <2> QED BY <1>1, <2>2, <2>3, <2>4 DEF NoFlight
<1> QED BY <1>2, <1>3

LEMMA TickStep == ASSUME AccessInv, Tick PROVE AccessInv'
<1> USE AccessAssumption
    DEF AccessInv, TypeOK, StoreInv, FlightInv, Keys, tokenVars, clientVars, counters
<1>1. UNCHANGED <<authKind, tokenVars, grant, flight, clientVars, counters>>
  BY DEF Tick
<1>2. code' \in 0..CodeTTL + 1
  BY DEF Tick
<1>3. /\ session' \in [Sids -> [key : Keys \cup {NoKey}, age : 0..SessionTTL + 1]]
      /\ \A s \in Sids : session'[s].key = session[s].key /\ (Live(s)' => Live(s))
  BY DEF Tick, Live
<1>4. \A s \in Sids : Live(s)' => session'[s].key \in Keys
  BY <1>3
<1>5. IdentityInv'
  BY <1>1, <1>3 DEF IdentityInv, Paired
<1> QED BY <1>1, <1>2, <1>3, <1>4, <1>5

LEMMA RestartStep == ASSUME AccessInv, Restart PROVE AccessInv'
<1>0. SessionType /\ ClientType /\ IdentityInv /\ FlightInv /\ TypeOK /\ StoreInv
  BY InvTypes
<1>1. /\ authKind' = authKind /\ stored' = stored /\ grant' = grant /\ token' = token
      /\ known' = known /\ as' = NoKey /\ code' = CodeTTL + 1 /\ flight' = NoFlight
      /\ session' = [s \in Sids |-> Gone] /\ restarts < MaxRestarts /\ restarts' = restarts + 1
  BY DEF Restart
<1>2. /\ issued' \subseteq Tokens /\ saved' \subseteq issued' /\ saved' \subseteq stored
      /\ saved' \subseteq Tokens /\ faults' \in 0..MaxFaults
  BY <1>0, AccessAssumption DEF Restart, StoreInv, TypeOK
<1>3. Gone \in [key : Keys \cup {NoKey}, age : 0..SessionTTL + 1] /\ Gone.age = SessionTTL + 1
      /\ Gone.key = NoKey
  BY AccessAssumption DEF Gone
<1>4. session' \in [Sids -> [key : Keys \cup {NoKey}, age : 0..SessionTTL + 1]]
      /\ \A s \in Sids : session'[s] = Gone
  BY <1>1, <1>3
<1>5. \A s \in Sids : ~Live(s)'
  BY <1>3, <1>4, AccessAssumption DEF Live
<1>6. SessionType'
  BY <1>4, <1>5 DEF SessionType, Keys
<1>7. ClientType' /\ FlightInv' /\ flight'.sid = NoSid
  BY <1>0, <1>1, <1>2, AccessAssumption DEF ClientType, FlightInv, NoFlight, Keys
<1>8. known # NoSid => known \in Sids
  BY <1>0 DEF ClientType
<1>9. known # NoSid => session'[known].key = NoKey /\ ~Live(known)'
  BY <1>1, <1>3, <1>4, <1>8, AccessAssumption DEF Live
<1>10. IdentityInv'
  BY <1>1, <1>7, <1>9 DEF IdentityInv
<1>11. TypeOK'
  BY <1>0, <1>1, <1>2, <1>6, <1>7, AccessAssumption DEF TypeOK, SessionType, ClientType
<1> QED BY <1>1, <1>2, <1>7, <1>10, <1>11 DEF AccessInv, StoreInv

LEMMA AccessStep == AccessInv /\ [Next]_vars => AccessInv'
<1> SUFFICES ASSUME AccessInv, [Next]_vars PROVE AccessInv'
  OBVIOUS
<1>1. ASSUME NEW bare \in BOOLEAN, Ask(bare) PROVE AccessInv'
  BY <1>1, DeniedStep, CallStep, DeleteStep, EnterStep DEF Ask
<1>2. CASE UNCHANGED vars
  <2>1. /\ UNCHANGED <<authKind, session, flight, token, known, as>> /\ issued' = issued
        /\ stored' = stored /\ saved' = saved /\ code' = code /\ grant' = grant
        /\ faults' = faults /\ restarts' = restarts
    BY <1>2 DEF vars, tokenVars, pairVars, clientVars, counters
  <2>2. PairingType' /\ StoreInv'
    BY <2>1 DEF PairingType, StoreInv, AccessInv, TypeOK
  <2> QED BY <2>1, <2>2, PairingKeeps
<1> QED BY <1>1, <1>2, PairingStep, ReturnStep, TickStep, RestartStep DEF Next

(* The inductive invariant of BridgeAccess. *)
THEOREM AccessInvariant == Spec => []AccessInv
BY AccessInit, AccessStep, PTL DEF Spec

(* Every variable of the transport stays in its type, and a live session is
   somebody's. *)
THEOREM AccessTypeCorrect == Spec => []TypeOK
<1>1. AccessInv => TypeOK
  BY DEF AccessInv
<1> QED BY <1>1, AccessInvariant, PTL

(* A client with an access token is one coordinator, whatever becomes of its
   sessions (deriveClientKey, authenticate). *)
THEOREM AccessClientIsItsToken == Spec => []ClientIsItsToken
<1>1. AccessInv => ClientIsItsToken
  BY DEF AccessInv, IdentityInv, Paired, ClientIsItsToken
<1> QED BY <1>1, AccessInvariant, PTL

(* A token in a file that was written and is readable is valid, through failed
   writes and restarts (persistTokens). *)
THEOREM AccessSavedTokensAreValid == Spec => []SavedTokensAreValid
<1>1. AccessInv => SavedTokensAreValid
  BY DEF AccessInv, StoreInv, SavedTokensAreValid
<1> QED BY <1>1, AccessInvariant, PTL

-----------------------------------------------------------------------------
(* The session the client holds the id of. *)

Over == known # NoSid /\ ~Live(known) /\ flight.sid # known

LEMMA OverStays ==
  ASSUME AccessInv, [Next]_vars, Over PROVE session'[known].age > SessionTTL
<1>0. TypeOK /\ known \in Sids /\ ~Live(known) /\ flight.sid # known /\ known # NoSid
  BY DEF Over, AccessInv, TypeOK
<1>1. session[known].age > SessionTTL /\ Pruned[known] = Gone /\ Gone.age > SessionTTL
  <2>1. session[known].age \in 0..SessionTTL + 1
    BY <1>0 DEF TypeOK
  <2>2. session[known].age > SessionTTL
    BY <1>0, <2>1, AccessAssumption DEF Live
  <2>3. Pruned[known] = Gone
    BY <1>0, PrunedType
  <2> QED BY <2>2, <2>3, AccessAssumption DEF Gone
<1> USE AccessAssumption, <1>0 DEF TypeOK
<1>2. ASSUME NEW bare \in BOOLEAN, Ask(bare) PROVE session'[known].age > SessionTTL
  <2>1. CASE Denied(bare) \/ Call(bare)
    BY <1>1, <2>1 DEF Denied, Call
  <2>2. CASE Delete(bare)
    BY <1>1, <2>2, PrunedType DEF Delete
  <2>3. ASSUME NEW keep \in BOOLEAN, Enter(bare, keep) PROVE session'[known].age > SessionTTL
    <3> DEFINE sid == IF keep THEN known ELSE NoSid
    <3>1. PICK s \in SessionFor(sid) :
            session' = [Pruned EXCEPT ![s] =
                          IF Live(s) THEN [Pruned[s] EXCEPT !.key = ClientKey(bare, sid)]
                          ELSE NewSession(ClientKey(bare, sid))]
      BY <2>3 DEF Enter
    <3>2. s \in NewSids
      BY <3>1 DEF SessionFor, Live
    <3>3. s # known
      BY <3>2, NewSidIsNew
    <3>4. Pruned \in [Sids -> [key : Keys \cup {NoKey}, age : 0..SessionTTL + 1]]
      BY PrunedType
    <3>5. session'[known] = Pruned[known]
      BY <1>1, <3>1, <3>3, <3>4
    <3> QED BY <1>1, <3>5
  <2> QED BY <1>2, <2>1, <2>2, <2>3 DEF Ask
<1>3. CASE Return
  BY <1>1, <1>3 DEF Return
<1>4. CASE Tick
  BY <1>1, <1>4 DEF Tick
<1>5. CASE Restart
  BY <1>1, <1>5 DEF Restart
<1>6. CASE UNCHANGED session
  BY <1>1, <1>6
<1>7. Authorize \/ Redeem \/ RedeemUnheard \/ CodeRefused \/ VerifierRefused \/ OthersPair
        => UNCHANGED session
  BY DEF Authorize, Redeem, RedeemUnheard, CodeRefused, VerifierRefused, OthersPair
<1> QED BY <1>2, <1>3, <1>4, <1>5, <1>6, <1>7 DEF Next, vars

(* A session that is over, and that no call has in its hands, does not come back
   (touchSession, pruneSessions, the handler of DELETE). *)
THEOREM AccessSessionsEnd == Spec => SessionsEnd
<1>1. AccessInv /\ [Next]_vars =>
        [known # NoSid /\ ~Live(known) /\ flight.sid # known
           => session'[known].age > SessionTTL]_vars
  BY OverStays DEF Over
<1> QED BY <1>1, AccessInvariant, PTL DEF Spec, SessionsEnd
=================================================================================
