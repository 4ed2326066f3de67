---------------------------- MODULE RequestProofs ----------------------------
(* What a request of a client may count on: its turn, which the promise chain of
   createSerialLockMap gives out in order, whichever requests are aborted; and,
   once it is its turn to await, that the next step it is told, and the rows it
   leaves in the registry, rest on what the workers have sent.  Both for any
   number of clients, requests, workers and messages. *)
EXTENDS OrchLock, WorkerVerdicts, WellFoundedInduction, TLAPS

-----------------------------------------------------------------------------
(* The lock (module OrchLock). *)

(* Tickets number the arrivals of a key, without gaps or repetition. *)
TicketsOK ==
  /\ \A r \in Requests : ticket[r] = 0 <=> phase[r] = "new"
  /\ \A r \in Requests : ticket[r] <= tickets[keyOf[r]]
  /\ \A q, r \in Requests :
       keyOf[q] = keyOf[r] /\ ticket[q] = ticket[r] /\ ticket[r] # 0 => q = r

(* tails and prev chain the requests of a key in the order of their tickets. *)
ChainOK ==
  /\ \A k \in Keys : tail[k] = NoRequest => tickets[k] = 0
  /\ \A k \in Keys : tail[k] # NoRequest =>
       keyOf[tail[k]] = k /\ ticket[tail[k]] = tickets[k] /\ tickets[k] # 0
  /\ \A r \in Requests : phase[r] # "new" /\ prev[r] = NoRequest => ticket[r] = 1
  /\ \A r \in Requests : phase[r] # "new" /\ prev[r] # NoRequest =>
       keyOf[prev[r]] = keyOf[r] /\ ticket[prev[r]] = ticket[r] - 1 /\ ticket[r] > 1

Before(q, r) == keyOf[q] = keyOf[r] /\ ticket[q] \in 1..(ticket[r] - 1)

(* A request settles, and proceeds, only when every earlier one has settled. *)
OrderOK ==
  /\ \A q \in gate : phase[q] = "done"
  /\ \A q \in Requests \cap settled : q \in gate
  /\ \A q, r \in Requests : r \in settled /\ Before(q, r) => q \in settled
  /\ \A q, r \in Requests :
       phase[r] \in {"holding", "done"} /\ Before(q, r) => q \in settled

(* A body runs only after its request was admitted, and outlives the lock only
   when the request was aborted. *)
BodyOK ==
  \A r \in Requests : body[r] = "running" =>
    \/ phase[r] = "holding"
    \/ phase[r] = "done" /\ r \in aborted

LockInv == OrchTypeOK /\ TicketsOK /\ ChainOK /\ OrderOK /\ BodyOK

-----------------------------------------------------------------------------

LEMMA LockInitOK == OrchInit => LockInv
BY OrchAssumption DEF OrchInit, LockInv, OrchTypeOK, TicketsOK, ChainOK, OrderOK, BodyOK, Before, Phases

(* The steps that move no ticket and no link of the chain. *)
LEMMA TypeStep ==
  ASSUME OrchTypeOK, [OrchNext]_orchVars PROVE OrchTypeOK'
<1>1. ASSUME NEW r \in Requests, Arrive(r) PROVE OrchTypeOK'
  BY <1>1, OrchTypeOK, OrchAssumption DEF Arrive, OrchTypeOK, Phases
<1>2. ASSUME NEW r \in Requests, Enter(r) PROVE OrchTypeOK'
  BY <1>2, OrchTypeOK DEF Enter, OrchTypeOK, Phases
<1>3. ASSUME NEW r \in Requests, BodyEnds(r) PROVE OrchTypeOK'
  BY <1>3, OrchTypeOK DEF BodyEnds, Unlock, OrchTypeOK, Phases
<1>4. ASSUME NEW r \in Requests, Yield(r) PROVE OrchTypeOK'
  BY <1>4, OrchTypeOK DEF Yield, Unlock, OrchTypeOK, Phases
<1>5. ASSUME NEW r \in Requests, DetachedBodyEnds(r) PROVE OrchTypeOK'
  BY <1>5, OrchTypeOK DEF DetachedBodyEnds, OrchTypeOK, Phases
<1>6. ASSUME NEW r \in Requests, Disconnect(r) PROVE OrchTypeOK'
  BY <1>6, OrchTypeOK DEF Disconnect, OrchTypeOK, Phases
<1>7. ASSUME NEW r \in Requests, TailSettles(r) PROVE OrchTypeOK'
  BY <1>7, OrchTypeOK DEF TailSettles, OrchTypeOK, Phases
<1>8. CASE UNCHANGED orchVars
  BY <1>8, OrchTypeOK DEF orchVars, OrchTypeOK, Phases
<1> QED
  BY <1>1, <1>2, <1>3, <1>4, <1>5, <1>6, <1>7, <1>8 DEF OrchNext

(* A new request takes the next ticket and hangs itself on the tail. *)
LEMMA ArriveStep ==
  ASSUME LockInv, NEW r \in Requests, Arrive(r) PROVE TicketsOK' /\ ChainOK' /\ OrderOK' /\ BodyOK'
<1> USE OrchAssumption
<1> DEFINE k == keyOf[r]
<1>1. /\ phase[r] = "new" /\ ticket[r] = 0
      /\ k \in Keys /\ tickets[k] \in Nat
      /\ phase' = [phase EXCEPT ![r] = "waiting"]
      /\ prev' = [prev EXCEPT ![r] = tail[k]]
      /\ tail' = [tail EXCEPT ![k] = r]
      /\ tickets' = [tickets EXCEPT ![k] = tickets[k] + 1]
      /\ ticket' = [ticket EXCEPT ![r] = tickets[k] + 1]
      /\ UNCHANGED <<gate, settled, body, aborted>>
  BY DEF Arrive, LockInv, OrchTypeOK, TicketsOK
<1>2. \A q \in Requests : q # r => ticket'[q] = ticket[q] /\ phase'[q] = phase[q] /\ prev'[q] = prev[q]
  BY <1>1 DEF LockInv, OrchTypeOK
<1>3. ticket'[r] = tickets[k] + 1 /\ phase'[r] = "waiting" /\ prev'[r] = tail[k]
  BY <1>1 DEF LockInv, OrchTypeOK
<1>4. \A j \in Keys : j # k => tickets'[j] = tickets[j] /\ tail'[j] = tail[j]
  BY <1>1 DEF LockInv, OrchTypeOK
<1>5. tickets'[k] = tickets[k] + 1 /\ tail'[k] = r
  BY <1>1 DEF LockInv, OrchTypeOK
<1>6. \A q \in Requests : ticket[q] \in Nat /\ ticket[q] <= tickets[keyOf[q]]
  BY DEF LockInv, OrchTypeOK, TicketsOK
<1>7. TicketsOK'
  <2>1. \A q \in Requests : ticket'[q] = 0 <=> phase'[q] = "new"
    BY <1>1, <1>2, <1>3 DEF LockInv, TicketsOK
  <2>2. \A q \in Requests : ticket'[q] <= tickets'[keyOf[q]]
    BY <1>1, <1>2, <1>3, <1>4, <1>5, <1>6
  <2>3. \A p, q \in Requests :
          keyOf[p] = keyOf[q] /\ ticket'[p] = ticket'[q] /\ ticket'[q] # 0 => p = q
    BY <1>1, <1>2, <1>3, <1>6 DEF LockInv, TicketsOK
  <2> QED
    BY <2>1, <2>2, <2>3 DEF TicketsOK
<1>8. ChainOK'
  <2>1. \A j \in Keys : tail'[j] = NoRequest => tickets'[j] = 0
    BY <1>4, <1>5 DEF LockInv, ChainOK
  <2>2. \A j \in Keys : tail[j] # NoRequest => tail[j] \in Requests /\ tail[j] # r
    BY <1>1 DEF LockInv, OrchTypeOK, ChainOK
  <2>3. \A j \in Keys : tail'[j] # NoRequest =>
          keyOf[tail'[j]] = j /\ ticket'[tail'[j]] = tickets'[j] /\ tickets'[j] # 0
    BY <1>1, <1>2, <1>3, <1>4, <1>5, <2>2 DEF LockInv, ChainOK
  <2>4. \A q \in Requests : phase'[q] # "new" /\ prev'[q] = NoRequest => ticket'[q] = 1
    BY <1>1, <1>2, <1>3 DEF LockInv, ChainOK
  <2>5. \A q \in Requests : q # r /\ phase[q] # "new" /\ prev[q] # NoRequest => prev[q] \in Requests /\ prev[q] # r
    BY <1>1, <1>6 DEF LockInv, OrchTypeOK, ChainOK
  <2>6. \A q \in Requests : phase'[q] # "new" /\ prev'[q] # NoRequest =>
          keyOf[prev'[q]] = keyOf[q] /\ ticket'[prev'[q]] = ticket'[q] - 1 /\ ticket'[q] > 1
    <3> SUFFICES ASSUME NEW q \in Requests, phase'[q] # "new", prev'[q] # NoRequest
                 PROVE  keyOf[prev'[q]] = keyOf[q] /\ ticket'[prev'[q]] = ticket'[q] - 1 /\ ticket'[q] > 1
      OBVIOUS
    <3>1. CASE q = r
      BY <3>1, <1>1, <1>2, <1>3, <1>6, <2>2 DEF LockInv, ChainOK
    <3>2. CASE q # r
      BY <3>2, <1>2, <2>5 DEF LockInv, ChainOK
    <3> QED
      BY <3>1, <3>2
  <2> QED
    BY <2>1, <2>3, <2>4, <2>6 DEF ChainOK
<1>9. \A p, q \in Requests : Before(p, q)' /\ q # r => Before(p, q)
  BY <1>1, <1>2, <1>3, <1>6 DEF Before
<1>10. r \notin gate /\ r \notin settled
  BY <1>1 DEF LockInv, OrderOK
<1>11. OrderOK'
  BY <1>1, <1>2, <1>3, <1>9, <1>10 DEF LockInv, OrchTypeOK, OrderOK
<1>12. BodyOK'
  BY <1>1, <1>2, <1>3 DEF LockInv, BodyOK
<1> QED
  BY <1>7, <1>8, <1>11, <1>12

(* Steps that leave tickets, tails and links alone, and move a phase forward. *)
LEMMA KeepsChain ==
  ASSUME LockInv, UNCHANGED <<ticket, tickets, tail, prev>>,
         phase' \in [Requests -> Phases],
         \A q \in Requests : phase'[q] = "new" <=> phase[q] = "new"
  PROVE  TicketsOK' /\ ChainOK'
BY DEF LockInv, OrchTypeOK, TicketsOK, ChainOK

LEMMA EnterStep ==
  ASSUME LockInv, NEW r \in Requests, Enter(r) PROVE TicketsOK' /\ ChainOK' /\ OrderOK' /\ BodyOK'
<1> USE OrchAssumption
<1>1. /\ phase[r] = "waiting" /\ prev[r] \in settled
      /\ phase' = [phase EXCEPT ![r] = "holding"]
      /\ body' = [body EXCEPT ![r] = IF r \in aborted THEN "over" ELSE "running"]
      /\ UNCHANGED <<tail, prev, gate, settled, aborted, ticket, tickets>>
  BY DEF Enter, MayProceed
<1>2. TicketsOK' /\ ChainOK'
  BY <1>1, KeepsChain DEF LockInv, OrchTypeOK, Phases
<1>3. ASSUME NEW q \in Requests, Before(q, r) PROVE q \in settled
  <2>1. prev[r] # NoRequest
    BY <1>1, <1>3 DEF LockInv, OrchTypeOK, ChainOK, Before
  <2>2. /\ prev[r] \in Requests /\ keyOf[prev[r]] = keyOf[r]
        /\ ticket[prev[r]] = ticket[r] - 1 /\ ticket[r] > 1
    BY <1>1, <2>1 DEF LockInv, OrchTypeOK, ChainOK
  <2>3. CASE ticket[q] = ticket[r] - 1
    BY <2>2, <2>3, <1>1, <1>3 DEF LockInv, OrchTypeOK, TicketsOK, Before
  <2>4. CASE ticket[q] # ticket[r] - 1
    <3>1. Before(q, prev[r])
      BY <2>2, <2>4, <1>3 DEF LockInv, OrchTypeOK, Before
    <3> QED
      BY <3>1, <2>2, <1>1 DEF LockInv, OrderOK
  <2> QED
    BY <2>3, <2>4
<1>4. OrderOK'
  <2>1. \A p, q \in Requests : Before(p, q)' <=> Before(p, q)
    BY <1>1 DEF Before
  <2>2. r \notin gate
    BY <1>1 DEF LockInv, OrderOK
  <2> QED
    BY <1>1, <1>3, <2>1, <2>2 DEF LockInv, OrchTypeOK, OrderOK
<1>5. BodyOK'
  BY <1>1 DEF LockInv, OrchTypeOK, BodyOK
<1> QED
  BY <1>2, <1>4, <1>5

(* The lock is given up, by the end of the body or by an abort. *)
LEMMA UnlockStep ==
  ASSUME LockInv, NEW r \in Requests, Unlock(r),
         body' \in [Requests -> {"idle", "running", "over"}],
         \A q \in Requests : body'[q] = "running" => body[q] = "running",
         body'[r] = "running" => r \in aborted
  PROVE  TicketsOK' /\ ChainOK' /\ OrderOK' /\ BodyOK'
<1> USE OrchAssumption
<1>1. /\ phase[r] = "holding"
      /\ gate' = gate \cup {r}
      /\ phase' = [phase EXCEPT ![r] = "done"]
      /\ UNCHANGED <<tail, prev, settled, aborted, ticket, tickets>>
  BY DEF Unlock
<1>2. TicketsOK' /\ ChainOK'
  BY <1>1, KeepsChain DEF LockInv, OrchTypeOK, Phases
<1>3. \A p, q \in Requests : Before(p, q)' <=> Before(p, q)
  BY <1>1 DEF Before
<1>4. OrderOK'
  BY <1>1, <1>3 DEF LockInv, OrchTypeOK, OrderOK
<1>5. BodyOK'
  BY <1>1 DEF LockInv, OrchTypeOK, BodyOK
<1> QED
  BY <1>2, <1>4, <1>5

LEMMA SettleStep ==
  ASSUME LockInv, NEW r \in Requests, TailSettles(r) PROVE TicketsOK' /\ ChainOK' /\ OrderOK' /\ BodyOK'
<1> USE OrchAssumption
<1>1. /\ r \in gate /\ settled' = settled \cup {r}
      /\ UNCHANGED <<phase, tail, prev, gate, body, aborted, ticket, tickets>>
  BY DEF TailSettles
<1>2. TicketsOK' /\ ChainOK' /\ BodyOK'
  BY <1>1 DEF LockInv, OrchTypeOK, TicketsOK, ChainOK, BodyOK
<1>3. \A p, q \in Requests : Before(p, q)' <=> Before(p, q)
  BY <1>1 DEF Before
<1>4. phase[r] = "done"
  BY <1>1 DEF LockInv, OrderOK
<1>5. OrderOK'
  BY <1>1, <1>3, <1>4 DEF LockInv, OrchTypeOK, OrderOK
<1> QED
  BY <1>2, <1>5

(* A disconnect or the end of a detached body changes neither order nor chain. *)
LEMMA QuietStep ==
  ASSUME LockInv, UNCHANGED <<phase, tail, prev, gate, settled, ticket, tickets>>,
         aborted \subseteq aborted',
         \A q \in Requests : body'[q] = "running" => body[q] = "running"
  PROVE  TicketsOK' /\ ChainOK' /\ OrderOK' /\ BodyOK'
<1>1. TicketsOK' /\ ChainOK'
  BY DEF LockInv, OrchTypeOK, TicketsOK, ChainOK
<1>2. \A p, q \in Requests : Before(p, q)' <=> Before(p, q)
  BY DEF Before
<1>3. OrderOK' /\ BodyOK'
  BY <1>2 DEF LockInv, OrderOK, BodyOK
<1> QED
  BY <1>1, <1>3

LEMMA LockStep == LockInv /\ [OrchNext]_orchVars => LockInv'
<1> SUFFICES ASSUME LockInv, [OrchNext]_orchVars PROVE TicketsOK' /\ ChainOK' /\ OrderOK' /\ BodyOK'
  BY TypeStep DEF LockInv
<1>1. ASSUME NEW r \in Requests, BodyEnds(r)
      PROVE  TicketsOK' /\ ChainOK' /\ OrderOK' /\ BodyOK'
  BY <1>1, UnlockStep DEF BodyEnds, LockInv, OrchTypeOK
<1>2. ASSUME NEW r \in Requests, Yield(r)
      PROVE  TicketsOK' /\ ChainOK' /\ OrderOK' /\ BodyOK'
  BY <1>2, UnlockStep DEF Yield, LockInv, OrchTypeOK
<1>3. ASSUME NEW r \in Requests, DetachedBodyEnds(r)
      PROVE  TicketsOK' /\ ChainOK' /\ OrderOK' /\ BodyOK'
  BY <1>3, QuietStep DEF DetachedBodyEnds, LockInv, OrchTypeOK
<1>4. ASSUME NEW r \in Requests, Disconnect(r)
      PROVE  TicketsOK' /\ ChainOK' /\ OrderOK' /\ BodyOK'
  BY <1>4, QuietStep DEF Disconnect, LockInv, OrchTypeOK
<1>5. CASE UNCHANGED orchVars
  BY <1>5, QuietStep DEF orchVars
<1> QED
  BY <1>1, <1>2, <1>3, <1>4, <1>5, ArriveStep, EnterStep, SettleStep DEF OrchNext

-----------------------------------------------------------------------------

(* The inductive invariant: tickets, the promise chain and the order in which
   its promises settle agree in every reachable state of createSerialLockMap. *)
THEOREM LockInvariant == OrchSpec => []LockInv
BY LockInitOK, LockStep, PTL DEF OrchSpec

(* The lock's state is type-correct for every set of clients and requests. *)
THEOREM LockTypeCorrect == OrchSpec => []OrchTypeOK
<1>1. LockInv => OrchTypeOK
  BY DEF LockInv
<1> QED
  BY <1>1, LockInvariant, PTL

(* Two bodies of one client run together only if one of them was abandoned by
   an abort (callTool, withAbortableLock). *)
THEOREM LockSerializes == OrchSpec => []LiveBodiesSerialize
<1>1. LockInv => LiveBodiesSerialize
  <2> SUFFICES ASSUME LockInv, NEW q \in Requests, NEW r \in Requests, SameKey(q, r),
                      body[q] = "running", body[r] = "running"
               PROVE  (q \in aborted /\ phase[q] = "done") \/ (r \in aborted /\ phase[r] = "done")
    BY DEF LiveBodiesSerialize
  <2>1. /\ phase[q] \in {"holding", "done"} /\ phase[r] \in {"holding", "done"}
        /\ ticket[q] \in Nat \ {0} /\ ticket[r] \in Nat \ {0} /\ ticket[q] # ticket[r]
    BY DEF LockInv, OrchTypeOK, TicketsOK, BodyOK, SameKey
  <2>2. Before(q, r) \/ Before(r, q)
    BY <2>1 DEF Before, SameKey
  <2>3. phase[q] = "done" \/ phase[r] = "done"
    BY <2>1, <2>2 DEF LockInv, OrderOK
  <2> QED
    BY <2>3 DEF LockInv, BodyOK
<1> QED
  BY <1>1, LockInvariant, PTL

(* createSerialLockMap implements the FIFO lock: every step of the promise chain
   is a step of SerialLock or leaves its state alone. *)
THEOREM LockRefines == OrchSpec => IsSerialLock
<1>1. OrchInit => Lock!LockInit
  BY DEF OrchInit, Lock!LockInit
<1>2. LockInv /\ LockInv' /\ [OrchNext]_orchVars => [Lock!LockNext]_(Lock!lockVars)
  <2> SUFFICES ASSUME LockInv, LockInv', [OrchNext]_orchVars PROVE [Lock!LockNext]_(Lock!lockVars)
    OBVIOUS
  <2>1. ASSUME NEW r \in Requests, Arrive(r) PROVE Lock!TakeTicket(r)
    BY <2>1 DEF Arrive, Lock!TakeTicket
  <2>2. ASSUME NEW r \in Requests, Enter(r) PROVE Lock!Acquire(r)
    <3>1. \A q \in Requests : Before(q, r) => phase[q] = "done"
      <4>1. ticket' = ticket /\ phase' = [phase EXCEPT ![r] = "holding"] /\ settled' = settled /\ gate' = gate
        BY <2>2 DEF Enter
      <4>2. \A q \in Requests : Before(q, r) => q \in settled
        BY <4>1 DEF LockInv, OrchTypeOK, OrderOK, Before
      <4> QED
        BY <4>2 DEF LockInv, OrderOK
    <3> QED
      BY <2>2, <3>1 DEF Enter, Lock!Acquire, Before
  <2>3. ASSUME NEW r \in Requests, BodyEnds(r) \/ Yield(r) PROVE Lock!Release(r)
    BY <2>3 DEF BodyEnds, Yield, Unlock, Lock!Release
  <2>4. ASSUME NEW r \in Requests, DetachedBodyEnds(r) \/ Disconnect(r) \/ TailSettles(r)
        PROVE  UNCHANGED Lock!lockVars
    BY <2>4 DEF DetachedBodyEnds, Disconnect, TailSettles, Lock!lockVars
  <2>5. CASE UNCHANGED orchVars
    BY <2>5 DEF orchVars, Lock!lockVars
  <2> QED
    BY <2>1, <2>2, <2>3, <2>4, <2>5 DEF OrchNext, Lock!LockNext
<1> QED
  BY <1>1, <1>2, LockInvariant, PTL DEF OrchSpec, IsSerialLock, Lock!LockSpec

-----------------------------------------------------------------------------
(* The await (module WorkerVerdicts). *)

(* Of a set of positions First is the least: < on the naturals is well-founded. *)
LEMMA FirstIsLeast ==
  ASSUME NEW S, S \subseteq Nat, S # {}
  PROVE  First(S) \in S /\ \A j \in S : First(S) <= j
<1> DEFINE R == OpToRel(<, Nat)
<1>1. \A i, j \in Nat : i < j => <<i, j>> \in R
  BY DEF OpToRel
<1>2. PICK i \in S : \A j \in S : <<j, i>> \notin R
  BY NatLessThanWellFounded, WFMin, Zenon
<1> HIDE DEF R
<1>3. \A j \in S : i <= j
  <2> TAKE j \in S
  <2>1. i \in Nat /\ j \in Nat
    OBVIOUS
  <2>2. ~(j < i)
    BY <1>1, <1>2, <2>1
  <2> QED
    BY <2>1, <2>2
<1> QED
  BY <1>3 DEF First

(* Of a bounded set of positions Last is the greatest: the least counted from the end. *)
LEMMA LastIsGreatest ==
  ASSUME NEW n \in Nat, NEW S, S \subseteq 0..n, S # {}
  PROVE  Last(S) \in S /\ \A j \in S : j <= Last(S)
<1> DEFINE T == {n - j : j \in S}
<1>1. PICK e \in S : TRUE
  OBVIOUS
<1>2. n - e \in T
  BY <1>1
<1>3. T \subseteq Nat
  OBVIOUS
<1>4. First(T) \in T /\ \A j \in T : First(T) <= j
  <2> HIDE DEF T
  <2> QED
    BY <1>2, <1>3, FirstIsLeast
<1>5. PICK k \in S : First(T) = n - k
  BY <1>4
<1>6. ASSUME NEW j \in S PROVE j <= k
  <2>1. First(T) <= n - j
    BY <1>4
  <2>2. n - k <= n - j
    BY <2>1, <1>5
  <2> QED
    BY <2>2
<1> QED
  BY <1>6 DEF Last

-----------------------------------------------------------------------------

(* The times of some rows: no row is both before and after another. *)
Ordered(pairs, rows) ==
  /\ pairs \subseteq rows \X rows
  /\ \A d, e \in rows : <<d, e>> \in pairs => <<e, d>> \notin pairs
  /\ \A d, e, f \in rows : <<d, e>> \in pairs /\ <<e, f>> \in pairs => <<d, f>> \in pairs

(* An update moves its rows before all others. *)
LEMMA TouchKeepsOrder ==
  ASSUME NEW ds, Ordered(newer, Owned)
  PROVE  Ordered(Touch(ds), Owned \cup ds)
<1> DEFINE pairs == Touch(ds)
<1>1. \A d, e : <<d, e>> \in pairs <=>
        \/ <<d, e>> \in newer /\ d \notin ds /\ e \notin ds
        \/ d \in ds /\ e \in Owned \ ds
  BY DEF Touch
<1>2. pairs \subseteq (Owned \cup ds) \X (Owned \cup ds)
  BY DEF Touch, Ordered
<1> HIDE DEF pairs
<1>3. \A d, e \in Owned \cup ds : <<d, e>> \in pairs => <<e, d>> \notin pairs
  BY <1>1 DEF Ordered
<1>4. \A d, e, f \in Owned \cup ds :
        <<d, e>> \in pairs /\ <<e, f>> \in pairs => <<d, f>> \in pairs
  BY <1>1 DEF Ordered
<1> QED
  BY <1>2, <1>3, <1>4 DEF Ordered, pairs

Verdicted == ReleaseIsEarned /\ DoneRowsHaveReported
VerdictsInv == TypeOK /\ Verdicted

Row == [status : Statuses, empties : 0..StalledEmptyMin, quiet : 0..StalledAge]

LEMMA TypeParts ==
  ASSUME TypeOK
  PROVE  /\ Ordered(newer, Owned)
         /\ row \in [Dispatches -> Row]
         /\ mail \in Seq(sent) /\ out \in 0..Len(mail) /\ sent \subseteq Letters
         /\ Owned \subseteq Dispatches
BY DEF TypeOK, Ordered, Row, Owned

(* The own messages of a batch have been sent by workers. *)
LEMMA OwnWasSent ==
  ASSUME VerdictsAssumption, TypeOK
  PROVE  /\ Len(mail) \in Nat /\ Own \subseteq 0..Len(mail)
         /\ \A i \in Own : /\ mail[i] \in sent /\ mail[i] \in Letter
                           /\ SeenId(mail[i]) \in Owned \cup {NoDispatch}
<1>1. mail \in Seq(sent) /\ sent \subseteq Letter
  BY DEF TypeOK, VerdictsAssumption
<1>2. Len(mail) \in Nat /\ Batch \in 0..Len(mail)
  BY <1>1, TypeParts DEF Batch
<1>3. \A i \in Own : i \in 1..Len(mail) /\ SeenId(mail[i]) \in Owned \cup {NoDispatch}
  BY <1>2 DEF Own
<1>4. \A i \in 1..Len(mail) : mail[i] \in sent
  BY <1>1
<1> QED
  BY <1>1, <1>2, <1>3, <1>4

(* What the summary says of a batch is what one of its messages says. *)
LEMMA SummaryIsSent ==
  ASSUME VerdictsAssumption, TypeOK
  PROVE  /\ Status \in Verdicts \cup {"escalation", "question", "messages"}
         /\ DoneId \in Owned \cup {NoDispatch}
         /\ DoneId # NoDispatch =>
              \E m \in sent : /\ m.about = DoneId /\ m.type = "worker_done"
                              /\ Status = m.verdict
<1> DEFINE done == Of("worker_done")
           f    == First(done)
<1>1. done \subseteq Own /\ \A i \in done : mail[i].type = "worker_done"
  BY DEF Of
<1>2. done # {} => f \in done
  <2>1. done \subseteq Nat
    BY <1>1, OwnWasSent
  <2> HIDE DEF done
  <2> QED
    BY <2>1, FirstIsLeast
<1>3. done # {} => /\ mail[f] \in sent /\ mail[f] \in Letter /\ mail[f].type = "worker_done"
                   /\ Status = mail[f].verdict
  BY <1>1, <1>2, OwnWasSent DEF Status, Verdict
<1>4. done = {} => Status \in {"escalation", "question", "messages"} /\ DoneId = NoDispatch
  BY DEF Status, DoneId
<1>5. done # {} => mail[f].verdict \in Verdicts
  BY <1>3 DEF Letter
<1>6. done # {} => DoneId = IF ParsedId(mail[f]) \in Owned THEN ParsedId(mail[f]) ELSE NoDispatch
  BY DEF DoneId
<1>7. NoDispatch \notin Owned
  BY DEF Owned, VerdictsAssumption
<1>8. \A m : ParsedId(m) \in Owned => m.about = ParsedId(m)
  BY <1>7 DEF ParsedId
<1> HIDE DEF done, f
<1> QED
  BY <1>3, <1>4, <1>5, <1>6, <1>8

(* A message is put down to an own row, and a worker_done to the row of a worker
   that has sent one. *)
LEMMA NotesAreSent ==
  ASSUME VerdictsAssumption, TypeOK, NEW d \in Dispatches, Notes(d) # {}
  PROVE  /\ d \in Owned
         /\ Noted(mail[Last(Notes(d))]) \in Statuses \ {"none"}
         /\ Noted(mail[Last(Notes(d))]) \in Verdicts =>
              \E m \in sent : m.about = d /\ m.type = "worker_done"
<1> DEFINE i == Last(Notes(d))
<1>1. i \in Notes(d)
  <2>1. Notes(d) \subseteq 0..Len(mail) /\ Len(mail) \in Nat
    BY OwnWasSent DEF Notes
  <2> QED
    BY <2>1, LastIsGreatest
<1>2. i \in Own /\ PutTo(mail[i]) = d
  BY <1>1 DEF Notes
<1> HIDE DEF i
<1> DEFINE m == mail[i]
<1>3. m \in sent /\ m \in Letter /\ SeenId(m) \in Owned \cup {NoDispatch}
  BY <1>2, OwnWasSent
<1> HIDE DEF m
<1>4. d # NoDispatch
  BY DEF VerdictsAssumption
<1>5. CASE SeenId(m) # NoDispatch
  <2>1. m.about = d /\ SeenId(m) = d
    BY <1>2, <1>5 DEF PutTo, SeenId, m
  <2>2. m.type = "worker_done" => \E n \in sent : n.about = d /\ n.type = "worker_done"
    BY <2>1, <1>3
  <2> QED
    BY <2>1, <2>2, <1>3, <1>4, SummaryIsSent DEF Noted, Letter, Statuses, Verdicts, m, i
<1>6. CASE SeenId(m) = NoDispatch
  <2>1. d = DoneId
    BY <1>2, <1>6 DEF PutTo, m
  <2>2. d \in Owned /\ \E n \in sent : n.about = d /\ n.type = "worker_done"
    BY <2>1, <1>4, SummaryIsSent
  <2> QED
    BY <2>2, <1>3, SummaryIsSent DEF Noted, Letter, Statuses, Verdicts, m, i
<1> QED
  BY <1>5, <1>6

(* What a batch leaves in a row. *)
LEMMA RowAfterBatch ==
  ASSUME VerdictsAssumption, VerdictsInv, NEW d \in Dispatches
  PROVE  /\ RowAfter(d) \in Row
         /\ RowAfter(d).status # "none" <=> d \in Owned
         /\ IsDone(d) \/ Notes(d) # {} => d \in Owned
         /\ RowAfter(d).status \in Verdicts =>
              \E m \in sent : m.about = d /\ m.type = "worker_done"
<1>1. CASE IsDone(d)
  <2>1. RowAfter(d) = Heard("worker_done") /\ d = DoneId /\ d # NoDispatch
    BY <1>1 DEF RowAfter, IsDone, VerdictsAssumption
  <2>2. d \in Owned /\ \E m \in sent : m.about = d /\ m.type = "worker_done"
    BY <2>1, SummaryIsSent DEF VerdictsInv
  <2> QED
    BY <2>1, <2>2 DEF Heard, Row, Statuses, Verdicts, VerdictsAssumption
<1>2. CASE ~IsDone(d) /\ Notes(d) # {}
  <2>1. RowAfter(d) = Heard(Noted(mail[Last(Notes(d))]))
    BY <1>2 DEF RowAfter
  <2>2. /\ d \in Owned
        /\ Noted(mail[Last(Notes(d))]) \in Statuses \ {"none"}
        /\ Noted(mail[Last(Notes(d))]) \in Verdicts =>
             \E m \in sent : m.about = d /\ m.type = "worker_done"
    BY <1>2, NotesAreSent DEF VerdictsInv
  <2> QED
    BY <2>1, <2>2 DEF Heard, Row, VerdictsAssumption
<1>3. CASE ~IsDone(d) /\ Notes(d) = {}
  <2>1. RowAfter(d) = row[d] /\ row[d] \in Row
    BY <1>3, TypeParts DEF RowAfter, VerdictsInv
  <2> QED
    BY <2>1, <1>3 DEF VerdictsInv, Verdicted, DoneRowsHaveReported, Owned
<1> QED
  BY <1>1, <1>2, <1>3

-----------------------------------------------------------------------------

LEMMA VerdictsInitOK == VerdictsAssumption /\ Init => VerdictsInv
<1> SUFFICES ASSUME VerdictsAssumption, Init PROVE VerdictsInv
  OBVIOUS
<1>1. /\ mail = <<>> /\ out = 0 /\ sent = {} /\ outputs = 0 /\ shows = {} /\ newer = {}
      /\ row = [d \in Dispatches |-> Heard("none")]
      /\ next = [action |-> "none", dispatch |-> NoDispatch]
  BY DEF Init, Step
<1>2. TypeOK
  BY <1>1 DEF TypeOK, Heard, Statuses, Actions, VerdictsAssumption
<1>3. Verdicted
  BY <1>1 DEF Verdicted, ReleaseIsEarned, DoneRowsHaveReported, Heard, Verdicts
<1> QED
  BY <1>2, <1>3 DEF VerdictsInv

(* A step that drops no message that was sent, gives no new order to release and
   marks no row as done. *)
LEMMA NothingNewIsSaid ==
  ASSUME Verdicted, sent \subseteq sent',
         next' = next \/ next'.action # "release",
         \A d \in Dispatches : row'[d].status \in Verdicts => row'[d].status = row[d].status
  PROVE  Verdicted'
<1>1. ReleaseIsEarned'
  BY DEF Verdicted, ReleaseIsEarned
<1>2. DoneRowsHaveReported'
  <2> SUFFICES ASSUME NEW d \in Dispatches, row'[d].status \in Verdicts
               PROVE  \E m \in sent' : m.about = d /\ m.type = "worker_done"
    BY DEF DoneRowsHaveReported
  <2>1. row[d].status \in Verdicts
    OBVIOUS
  <2>2. \E m \in sent : m.about = d /\ m.type = "worker_done"
    BY <2>1 DEF Verdicted, DoneRowsHaveReported
  <2> QED
    BY <2>2
<1> QED
  BY <1>1, <1>2 DEF Verdicted

(* What a step that updates some own rows owes to the types. *)
LEMMA TypesAfterUpdate ==
  ASSUME TypeOK, NEW ds, newer' = Touch(ds), Owned' = Owned \cup ds,
         row' \in [Dispatches -> Row],
         mail' \in Seq(sent'), out' \in 0..Len(mail'), sent' \subseteq Letters,
         outputs' \in 0..MaxOutputs, shows' \subseteq Undated,
         next' \in [action : Actions, dispatch : Dispatches \cup {NoDispatch}]
  PROVE  TypeOK'
<1>1. Ordered(Touch(ds), Owned \cup ds)
  BY TypeParts, TouchKeepsOrder
<1> QED
  BY <1>1 DEF TypeOK, Row, Ordered

LEMMA BindStep ==
  ASSUME VerdictsAssumption, VerdictsInv, NEW d \in Dispatches, Bind(d) PROVE VerdictsInv'
<1>1. /\ row[d].status = "none" /\ row' = [row EXCEPT ![d] = Heard("running")]
      /\ newer' = Touch({d}) /\ out' = 0
      /\ UNCHANGED <<mail, sent, outputs, shows, next>>
  BY DEF Bind, terminals
<1>2. row \in [Dispatches -> Row]
  BY TypeParts DEF VerdictsInv
<1>3. Heard("running") \in Row
  BY DEF Heard, Row, Statuses, VerdictsAssumption
<1>4. row' \in [Dispatches -> Row]
  BY <1>1, <1>2, <1>3
<1>5. \A e \in Dispatches : row'[e] = IF e = d THEN Heard("running") ELSE row[e]
  BY <1>1, <1>2
<1>6. Owned' = Owned \cup {d}
  BY <1>5 DEF Owned, Heard
<1>7. TypeOK'
  <2>1. out' \in 0..Len(mail')
    BY <1>1, TypeParts DEF VerdictsInv
  <2> QED
    BY <2>1, <1>1, <1>4, <1>6, TypesAfterUpdate DEF VerdictsInv, TypeOK
<1>8. Verdicted'
  BY <1>1, <1>5, NothingNewIsSaid DEF VerdictsInv, Heard, Verdicts
<1> QED
  BY <1>7, <1>8 DEF VerdictsInv

LEMMA ReleaseStep ==
  ASSUME VerdictsAssumption, VerdictsInv, NEW d \in Dispatches, Release(d) PROVE VerdictsInv'
<1>1. /\ row[d].status # "none" /\ row' = [row EXCEPT ![d].status = "released"]
      /\ newer' = Touch({d})
      /\ UNCHANGED <<mail, out, sent, outputs, shows, next>>
  BY DEF Release, mailbox, terminals
<1>2. row \in [Dispatches -> Row]
  BY TypeParts DEF VerdictsInv
<1>3. row' \in [Dispatches -> Row]
  BY <1>1, <1>2 DEF Row, Statuses
<1>4. \A e \in Dispatches : row'[e].status = IF e = d THEN "released" ELSE row[e].status
  BY <1>1, <1>2 DEF Row
<1>5. Owned' = Owned \cup {d}
  BY <1>1, <1>4 DEF Owned
<1>6. TypeOK'
  BY <1>1, <1>3, <1>5, TypesAfterUpdate DEF VerdictsInv, TypeOK
<1>7. Verdicted'
  BY <1>1, <1>4, NothingNewIsSaid DEF VerdictsInv, Verdicts
<1> QED
  BY <1>6, <1>7 DEF VerdictsInv

(* Mail comes or goes; the registry and the client's order stay. *)
LEMMA MailStep ==
  ASSUME VerdictsInv, mail' \in Seq(sent'), out' \in 0..Len(mail'), sent \subseteq sent', sent' \subseteq Letters,
         UNCHANGED <<outputs, shows, row, newer, next>>
  PROVE  VerdictsInv'
<1>1. TypeOK'
  BY DEF VerdictsInv, TypeOK, Owned
<1>2. Verdicted'
  BY NothingNewIsSaid DEF VerdictsInv
<1> QED
  BY <1>1, <1>2 DEF VerdictsInv

LEMMA SendStep ==
  ASSUME VerdictsInv, NEW m \in Letters, Send(m) PROVE VerdictsInv'
<1>1. /\ mail' = Append(mail, m) /\ sent' = sent \cup {m} /\ out' = out
      /\ UNCHANGED <<outputs, shows, row, newer, next>>
  BY DEF Send, terminals, registry
<1>2. mail \in Seq(sent) /\ sent \subseteq Letters
  BY TypeParts DEF VerdictsInv
<1>3. mail \in Seq(sent')
  BY <1>1, <1>2
<1>4. mail' \in Seq(sent') /\ Len(mail') = Len(mail) + 1
  BY <1>1, <1>3
<1>5. out' \in 0..Len(mail')
  BY <1>1, <1>2, <1>4, TypeParts DEF VerdictsInv
<1> QED
  BY <1>1, <1>2, <1>4, <1>5, MailStep

LEMMA TickStep ==
  ASSUME VerdictsAssumption, VerdictsInv, Tick PROVE VerdictsInv'
<1>1. /\ row' = [d \in Dispatches |-> IF d \in Owned
                   THEN [row[d] EXCEPT !.quiet = Lesser(row[d].quiet + 1, StalledAge)] ELSE row[d]]
      /\ UNCHANGED <<mail, out, sent, outputs, shows, newer, next>>
  BY DEF Tick, mailbox, terminals
<1>2. \A d \in Dispatches : row[d] \in Row
  BY TypeParts DEF VerdictsInv
<1>3. \A d \in Dispatches : Lesser(row[d].quiet + 1, StalledAge) \in 0..StalledAge
  BY <1>2 DEF Row, Lesser, VerdictsAssumption
<1>4. row' \in [Dispatches -> Row]
  BY <1>1, <1>2, <1>3 DEF Row
<1>5. \A d \in Dispatches : row'[d].status = row[d].status
  BY <1>1, <1>2 DEF Row
<1>6. Owned' = Owned
  BY <1>5 DEF Owned
<1>7. TypeOK'
  BY <1>1, <1>4, <1>6 DEF VerdictsInv, TypeOK, Row
<1>8. Verdicted'
  BY <1>1, <1>5, NothingNewIsSaid DEF VerdictsInv
<1> QED
  BY <1>7, <1>8 DEF VerdictsInv

(* The mailbox without its first messages. *)
LEMMA WithoutSome ==
  ASSUME TypeOK, NEW n \in 0..Len(mail)
  PROVE  Without(n) \in Seq(sent) /\ 0 \in 0..Len(Without(n))
<1>1. mail \in Seq(sent) /\ Len(mail) \in Nat
  BY TypeParts
<1>2. Without(n) \in Seq(sent)
  BY <1>1 DEF Without
<1> QED
  BY <1>2

(* What an await leaves of the mailbox. *)
LEMMA MailAfterAwait ==
  ASSUME TypeOK, NEW acked \in BOOLEAN, Acknowledge(acked), sent' = sent
  PROVE  mail' \in Seq(sent') /\ out' \in 0..Len(mail')
<1>1. mail \in Seq(sent) /\ Len(mail) \in Nat /\ Batch \in 0..Len(mail)
  BY TypeParts DEF Batch
<1>2. CASE acked
  BY <1>1, <1>2, WithoutSome DEF Acknowledge
<1>3. CASE ~acked
  BY <1>1, <1>3 DEF Acknowledge
<1> QED
  BY <1>2, <1>3

LEMMA HearOwnStep ==
  ASSUME VerdictsAssumption, VerdictsInv, NEW acked \in BOOLEAN, HearOwn(acked) PROVE VerdictsInv'
<1> DEFINE ds == {d \in Dispatches : IsDone(d) \/ Notes(d) # {}}
<1>1. /\ row' = [d \in Dispatches |-> RowAfter(d)] /\ newer' = Touch(ds)
      /\ next' = StepFor(Status, DoneId) /\ Acknowledge(acked)
      /\ UNCHANGED <<sent, outputs, shows>>
  BY DEF HearOwn, terminals
<1>2. row' \in [Dispatches -> Row] /\ \A d \in Dispatches : row'[d] = RowAfter(d)
  BY <1>1, RowAfterBatch
<1>3. ds \subseteq Owned
  BY RowAfterBatch
<1>4. Owned' = Owned \cup ds
  BY <1>2, <1>3, RowAfterBatch DEF Owned
<1>5. /\ Status \in Verdicts \cup {"escalation", "question", "messages"}
      /\ DoneId \in Owned \cup {NoDispatch}
      /\ DoneId # NoDispatch =>
           \E m \in sent : /\ m.about = DoneId /\ m.type = "worker_done"
                           /\ Status = m.verdict
  BY SummaryIsSent DEF VerdictsInv
<1>6. next' \in [action : Actions, dispatch : Dispatches \cup {NoDispatch}]
  BY <1>1, <1>5 DEF StepFor, Step, Actions, Verdicts, Owned
<1>7. TypeOK'
  <2> HIDE DEF ds
  <2> QED
    BY <1>1, <1>2, <1>4, <1>6, MailAfterAwait, TypesAfterUpdate DEF VerdictsInv, TypeOK
<1>8. ReleaseIsEarned'
  <2> SUFFICES ASSUME next'.action = "release", next'.dispatch # NoDispatch
               PROVE  \E m \in sent : /\ m.about = next'.dispatch /\ m.type = "worker_done"
                                      /\ m.verdict = "worker_done"
    BY <1>1 DEF ReleaseIsEarned
  <2>1. Status = "worker_done" /\ next'.dispatch = DoneId
    BY <1>1, <1>5 DEF StepFor, Step, Verdicts
  <2> QED
    BY <2>1, <1>5
<1>9. DoneRowsHaveReported'
  BY <1>1, <1>2, RowAfterBatch DEF DoneRowsHaveReported
<1> QED
  BY <1>7, <1>8, <1>9 DEF VerdictsInv, Verdicted

LEMMA HearNothingStep ==
  ASSUME VerdictsAssumption, VerdictsInv, NEW acked \in BOOLEAN,
         NEW d \in Primaries, NEW seen \in Probes, HearNothing(acked, d, seen)
  PROVE  VerdictsInv'
<1> DEFINE quiet   == QuietAfter(d, seen)
           empties == Lesser(row[d].empties + 1, StalledEmptyMin)
<1>1. /\ row' = [row EXCEPT ![d].empties = empties, ![d].quiet = quiet]
      /\ newer' = Touch({d}) /\ Acknowledge(acked) /\ sent' = sent
      /\ \/ next' = Step("diagnose", NoDispatch)
         \/ next' = Step("await", NoDispatch)
  BY DEF HearNothing
<1>2. d \in Owned /\ d \in Dispatches
  BY DEF Primaries, Owned
<1>3. row \in [Dispatches -> Row] /\ row[d] \in Row
  BY <1>2, TypeParts DEF VerdictsInv
<1>4. quiet \in 0..StalledAge
  <2>1. \A age \in seen : age \in 0..StalledAge
    BY DEF Probes
  <2> QED
    BY <1>3, <2>1 DEF QuietAfter, Row, VerdictsAssumption
<1>5. empties \in 0..StalledEmptyMin
  BY <1>3 DEF Lesser, Row, VerdictsAssumption
<1> HIDE DEF quiet, empties
<1>6. row' \in [Dispatches -> Row] /\ \A e \in Dispatches : row'[e].status = row[e].status
  BY <1>1, <1>3, <1>4, <1>5 DEF Row
<1>7. Owned' = Owned \cup {d}
  BY <1>2, <1>6 DEF Owned
<1>8. outputs' \in 0..MaxOutputs /\ shows' \subseteq Undated
  BY DEF HearNothing, Probe, terminals, VerdictsInv, TypeOK, VerdictsAssumption
<1>9. next'.action # "release" /\ next' \in [action : Actions, dispatch : Dispatches \cup {NoDispatch}]
  BY <1>1 DEF Step, Actions
<1>10. TypeOK'
  BY <1>1, <1>6, <1>7, <1>8, <1>9, MailAfterAwait, TypesAfterUpdate DEF VerdictsInv, TypeOK
<1>11. Verdicted'
  BY <1>1, <1>6, <1>9, NothingNewIsSaid DEF VerdictsInv
<1> QED
  BY <1>10, <1>11 DEF VerdictsInv

LEMMA HearWithoutWorkersStep ==
  ASSUME VerdictsInv, NEW acked \in BOOLEAN, HearWithoutWorkers(acked) PROVE VerdictsInv'
<1>1. /\ Acknowledge(acked) /\ next' = Step("await", NoDispatch)
      /\ UNCHANGED <<sent, outputs, shows, row, newer>>
  BY DEF HearWithoutWorkers, terminals, registry
<1>2. mail' \in Seq(sent') /\ out' \in 0..Len(mail')
  BY <1>1, MailAfterAwait DEF VerdictsInv
<1>3. TypeOK'
  BY <1>1, <1>2 DEF VerdictsInv, TypeOK, Owned, Step, Actions
<1>4. Verdicted'
  BY <1>1, NothingNewIsSaid DEF VerdictsInv, Step
<1> QED
  BY <1>3, <1>4 DEF VerdictsInv

LEMMA VerdictsStep == VerdictsAssumption /\ VerdictsInv /\ [Next]_vars => VerdictsInv'
<1> SUFFICES ASSUME VerdictsAssumption, VerdictsInv, [Next]_vars PROVE VerdictsInv'
  OBVIOUS
<1>1. ASSUME NEW n \in 0..Len(mail), OthersTakeRun(n) PROVE VerdictsInv'
  <2>1. mail' = Without(n) /\ out' = 0 /\ UNCHANGED <<sent, outputs, shows, row, newer, next>>
    BY <1>1 DEF OthersTakeRun, terminals, registry
  <2> QED
    BY <2>1, TypeParts, WithoutSome, MailStep DEF VerdictsInv
<1>2. ASSUME NEW acked \in BOOLEAN, Await(acked) PROVE VerdictsInv'
  BY <1>2, HearOwnStep, HearNothingStep, HearWithoutWorkersStep DEF Await
<1>3. CASE UNCHANGED vars
  <2>1. UNCHANGED <<mail, out, sent, outputs, shows, row, newer, next>>
    BY <1>3 DEF vars, mailbox, terminals, registry
  <2> QED
    BY <2>1, TypeParts, MailStep DEF VerdictsInv
<1> QED
  BY <1>1, <1>2, <1>3, BindStep, ReleaseStep, SendStep, TickStep DEF Next

-----------------------------------------------------------------------------

(* The inductive invariant of an await: the registry, the order of its times, and
   what it and the next step say of the workers, in every reachable state. *)
THEOREM VerdictsInvariant == Spec => []VerdictsInv
BY VerdictsAssumption, VerdictsInitOK, VerdictsStep, PTL DEF Spec

(* The state of an await is type-correct, and the times of its rows are ordered,
   for any workers and messages (createDispatchRegistry). *)
THEOREM VerdictsTypeCorrect == Spec => []TypeOK
<1>1. VerdictsInv => TypeOK
  BY DEF VerdictsInv
<1> QED
  BY <1>1, VerdictsInvariant, PTL

(* An order to release a worker was earned by that worker's own worker_done
   (partitionMailbox, summarizeMessages, nextStepForAwait). *)
THEOREM VerdictsReleaseIsEarned == Spec => []ReleaseIsEarned
<1>1. VerdictsInv => ReleaseIsEarned
  BY DEF VerdictsInv, Verdicted
<1> QED
  BY <1>1, VerdictsInvariant, PTL

(* A row that says done is that of a worker that has reported (the rows
   awaitDispatch updates). *)
THEOREM VerdictsDoneRowsHaveReported == Spec => []DoneRowsHaveReported
<1>1. VerdictsInv => DoneRowsHaveReported
  BY DEF VerdictsInv, Verdicted
<1> QED
  BY <1>1, VerdictsInvariant, PTL
=============================================================================
