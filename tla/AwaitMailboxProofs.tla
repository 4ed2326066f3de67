--------------------------- MODULE AwaitMailboxProofs ---------------------------
(***************************************************************************)
(* The mailbox for any number of clients, dispatches and reports: no report   *)
(* is lost, an ack sent in time consumes its delivery, and no client is told   *)
(* to release another's worker, whoever takes the run from whom.             *)
(***************************************************************************)
EXTENDS AwaitMailbox, TLAPS

(* What is in the mailbox was reported by a worker that was placed; a dispatch is
   between placement and registration only while its client is dispatching. *)
ReportInv ==
  /\ queue \subseteq reported
  /\ \A m \in reported : row[m[2]] # "none"
  /\ \A d \in Dispatches : row[d] = "placed" => pc[ownerOf[d]] = "dispatching"
  /\ \A d, e \in Dispatches :
       row[d] = "placed" /\ row[e] = "placed" /\ ownerOf[d] = ownerOf[e] => d = e

(* A delivery that a client holds, or is about to, is the one that is out, and the
   client is the consumer of the run; or it is consumed, and gone from the mailbox;
   or void. *)
Current(c, delivery) ==
  /\ delivery.batch \subseteq reported
  /\ delivery.state = "out" => delivery.batch = out /\ out # {} /\ c \in consumer
  /\ delivery.state = "consumed" => delivery.batch \cap queue = {}

DeliveryInv ==
  \A c \in Clients :
    /\ Current(c, token[c]) /\ Current(c, answer[c])
    /\ pc[c] = "dispatching" => token[c].state # "out"

(* What a client was answered and may acknowledge it has seen, or missed. *)
SeenInv ==
  /\ \A c \in Clients : token[c].state = "out" =>
       \A m \in token[c].batch : ownerOf[m[2]] = c => m \in seen \cup missed
  /\ reported \ queue \subseteq seen \cup taken \cup missed

(* What became of the ack of a request. *)
AckInv ==
  \A c \in Clients :
    /\ pc[c] = "binding" /\ op[c] = "await" => ack[c] = "none"
    /\ pc[c] \in {"rebinding", "rechecking"} => ack[c] \in {"none", "dropped"}
    /\ pc[c] = "checking" /\ op[c] = "await" /\ ack[c] = "delivery" /\ c \in consumer =>
         token[c].state = "out" \/ token[c].batch \cap queue = {}
    /\ pc[c] \in {"waiting", "answered"} /\ ack[c] = "delivery" =>
         token[c].batch \cap queue = {}

MailboxInv ==
  TypeOK /\ ReportInv /\ DeliveryInv /\ SeenInv /\ AckInv /\ ReleaseHintIsOwn

-----------------------------------------------------------------------------

(* What the answer of a request leaves behind: of the client's own dispatches only
   listed ones change their row, what the client dispatched and was handed is seen or
   missed, missed only if it was not listed, and the hint is about a worker that is
   done. *)
LEMMA RespondEffect ==
  ASSUME TypeOK, NEW c \in Clients, Respond(c)
  PROVE  /\ row' \in [Dispatches -> {"none", "placed", "adrift", "lost"} \cup Listed]
         /\ \A d \in Dispatches : row'[d] = row[d] \/ (row[d] \in Listed /\ row'[d] \in Listed)
         /\ seen \subseteq seen' /\ seen' \subseteq Reports
         /\ \A m \in answer[c].batch : ownerOf[m[2]] = c => m \in seen' \cup missed'
         /\ missed \subseteq missed' /\ missed' \subseteq Reports
         /\ \A m \in missed' \ missed :
              m \in answer[c].batch /\ row[m[2]] \notin Listed
         /\ hint' \in [Clients -> Dispatches \cup {NoDispatch}]
         /\ \A x \in Clients \ {c} : hint'[x] = hint[x]
         /\ hint'[c] # NoDispatch =>
              ownerOf[hint'[c]] = c /\ <<"worker_done", hint'[c]>> \in seen'
<1> USE MailboxAssumption DEF Deliveries
<1> DEFINE batch == answer[c].batch
           own   == IF op[c] = "await" THEN Own(c, batch) ELSE {}
           done  == {d \in Dispatches : <<"worker_done", d>> \in own}
<1>1. /\ row' = [d \in Dispatches |-> RowAfter(own, d)]
      /\ \E d \in IF done = {} THEN {NoDispatch} ELSE done : hint' = [hint EXCEPT ![c] = d]
      /\ seen' = seen \cup {m \in IF op[c] = "await" THEN own ELSE batch : ownerOf[m[2]] = c}
      /\ missed' = missed \cup {m \in IF op[c] = "await" THEN batch \ own ELSE {} :
                                  ownerOf[m[2]] = c}
  BY Zenon DEF Respond
<1>2. batch \subseteq Reports /\ op[c] \in {"await", "check"}
  BY DEF TypeOK
<1>3. own \subseteq batch /\ \A m \in own : m[2] \in Owned(c)
  BY DEF Own
<1>4. \A d \in Owned(c) : d \in Dispatches /\ ownerOf[d] = c /\ row[d] \in Listed
  BY DEF Owned
<1>5. \A m \in Reports : m[2] \in Dispatches
  OBVIOUS
<1>6. \A d \in Dispatches :
        RowAfter(own, d) = row[d] \/ (row[d] \in Listed /\ RowAfter(own, d) \in Listed)
  <2> SUFFICES ASSUME NEW d \in Dispatches, RowAfter(own, d) # row[d]
               PROVE  row[d] \in Listed /\ RowAfter(own, d) \in Listed
    OBVIOUS
  <2>1. PICK t \in {"question", "worker_done"} : <<t, d>> \in own /\ RowAfter(own, d) = t
    BY DEF RowAfter
  <2>2. d \in Owned(c)
    BY <2>1, <1>3
  <2>3. QED
    BY <2>1, <2>2, <1>4 DEF Listed
<1>7. row' \in [Dispatches -> {"none", "placed", "adrift", "lost"} \cup Listed]
  BY <1>1, <1>6 DEF TypeOK
<1>8. \A d \in Dispatches : row'[d] = row[d] \/ (row[d] \in Listed /\ row'[d] \in Listed)
  BY <1>1, <1>6
<1>9. seen \subseteq seen' /\ seen' \subseteq Reports
  BY <1>1, <1>2, <1>3 DEF TypeOK
<1>10. /\ \A m \in batch : ownerOf[m[2]] = c => m \in seen' \cup missed'
       /\ missed \subseteq missed' /\ missed' \subseteq Reports
       /\ \A m \in missed' \ missed : m \in batch /\ row[m[2]] \notin Listed
  <2>1. \A m \in batch : ownerOf[m[2]] = c => m \in seen' \cup missed'
    BY <1>1
  <2>2. missed \subseteq missed' /\ missed' \subseteq Reports
    BY <1>1, <1>2 DEF TypeOK
  <2>3. ASSUME NEW m \in missed', m \notin missed
        PROVE  m \in batch /\ row[m[2]] \notin Listed
    <3>1. m \in batch /\ m \notin own /\ op[c] = "await" /\ ownerOf[m[2]] = c
      BY <1>1, <2>3
    <3>2. m[2] \in Dispatches /\ m[2] \notin Owned(c)
      BY <1>2, <1>5, <3>1 DEF Own
    <3>3. QED
      BY <3>1, <3>2 DEF Owned
  <2>4. QED
    BY <2>1, <2>2, <2>3
<1>11. PICK d \in IF done = {} THEN {NoDispatch} ELSE done : hint' = [hint EXCEPT ![c] = d]
  BY <1>1
<1>12. d \in Dispatches \cup {NoDispatch}
  BY <1>11
<1>13. d # NoDispatch => ownerOf[d] = c /\ <<"worker_done", d>> \in seen'
  <2> SUFFICES ASSUME d \in Dispatches, <<"worker_done", d>> \in own
               PROVE  ownerOf[d] = c /\ <<"worker_done", d>> \in seen'
    BY <1>11
  <2>1. ownerOf[d] = c /\ op[c] = "await"
    BY <1>3, <1>4
  <2>2. QED
    BY <2>1, <1>1
<1>14. hint \in [Clients -> Dispatches \cup {NoDispatch}]
  BY DEF TypeOK
<1>15. QED
  BY <1>7, <1>8, <1>9, <1>10, <1>11, <1>12, <1>13, <1>14

(* No step leaves the types. *)
LEMMA TypeStep == ASSUME TypeOK, [Next]_vars PROVE TypeOK'
<1> USE MailboxAssumption
    DEF TypeOK, Deliveries, NoToken, Listed, Checking, runtimeVars, request, clientVars, histories
<1>1. ASSUME NEW c \in Clients, BindRun(c)
      PROVE  TypeOK'
  BY <1>1 DEF BindRun, AfterBinding, Goto, RunUse, Withdraw
<1>2. ASSUME NEW c \in Clients, Fenced(c)
      PROVE  TypeOK'
  BY <1>2 DEF Fenced, Goto, DropAck
<1>3. ASSUME NEW c \in Clients, StaleAck(c)
      PROVE  TypeOK'
  BY <1>3 DEF StaleAck, Goto, DropAck
<1>4. ASSUME NEW c \in Clients, Consume(c)
      PROVE  TypeOK'
  BY <1>4 DEF Consume, Goto, Withdraw
<1>5. ASSUME NEW c \in Clients, Deliver(c)
      PROVE  TypeOK'
  BY <1>5 DEF Deliver, MayReceive, Goto
<1>6. ASSUME NEW c \in Clients, TimesOut(c)
      PROVE  TypeOK'
  BY <1>6 DEF TimesOut, MayReceive, Goto
<1>7. ASSUME NEW c \in Clients, Respond(c)
      PROVE  TypeOK'
  <2>1. row' \in [Dispatches -> {"none", "placed", "adrift", "lost"} \cup Listed] /\ seen' \subseteq Reports
        /\ missed' \subseteq Reports
    BY <1>7, RespondEffect
  <2>2. hint' \in [Clients -> Dispatches \cup {NoDispatch}]
    BY <1>7, RespondEffect
  <2>3. QED
    BY <1>7, <2>1, <2>2 DEF Respond, End, Goto
<1>8. ASSUME NEW c \in Clients, RespondError(c)
      PROVE  TypeOK'
  BY <1>8 DEF RespondError, End, Goto
<1>9. ASSUME NEW c \in Clients, BindFails(c)
      PROVE  TypeOK'
  BY <1>9 DEF BindFails, AfterBinding, Goto, Disturb
<1>10. ASSUME NEW c \in Clients, Lose(c)
      PROVE  TypeOK'
  BY <1>10 DEF Lose, End, Goto, Disturb
<1>11. ASSUME NEW c \in Clients, NEW d \in Dispatches, Place(c, d)
      PROVE  TypeOK'
  BY <1>11 DEF Place, RunUse, Withdraw, Goto
<1>12. ASSUME NEW c \in Clients, NEW d \in Dispatches, Register(c, d)
      PROVE  TypeOK'
  BY <1>12 DEF Register, Goto
<1>13. ASSUME NEW c \in Clients, NEW d \in Dispatches, DispatchFails(c, d) \/ AbortDispatch(c, d)
      PROVE  TypeOK'
  <2>1. CASE DispatchFails(c, d)
    BY <2>1 DEF DispatchFails, Disturb, Goto
  <2>2. CASE AbortDispatch(c, d)
    BY <2>2 DEF AbortDispatch, Disturb, Goto
  <2>3. QED
    BY <1>13, <2>1, <2>2
<1>14. ASSUME NEW c \in Clients, NEW o \in {"await", "check"},
             NEW k \in {"none", "delivery", "message"}, Ask(c, o, k)
      PROVE  TypeOK'
  BY <1>14 DEF Ask, Goto, Disturb
<1>15. ASSUME NEW m \in Reports, WorkerReports(m)
      PROVE  TypeOK'
  BY <1>15 DEF WorkerReports
<1>16. ASSUME Restart
      PROVE  TypeOK'
  BY <1>16 DEF Restart, Disturb
<1>17. ASSUME NEW d \in Dispatches, LateEnd(d)
      PROVE  TypeOK'
  BY <1>17 DEF LateEnd
<1>18. ASSUME UNCHANGED vars
      PROVE  TypeOK'
  BY <1>18 DEF vars
<1>19. QED
  BY <1>1, <1>2, <1>3, <1>4, <1>5, <1>6, <1>7, <1>8, <1>9, <1>10, <1>11, <1>12, <1>13,
     <1>14, <1>15, <1>16, <1>17, <1>18
     DEF Next, AwaitStep

(* A delivery before and after the one that is out is withdrawn. *)
Withdrawn(before, after, s) ==
  /\ after.batch = before.batch
  /\ after.state = IF before.state = "out" THEN s ELSE before.state

(* run-use and the ack of a delivery withdraw it from everyone. *)
LEMMA WithdrawEffect ==
  ASSUME TypeOK, NEW s \in {"consumed", "void"},
         token' = Withdraw(token, s), answer' = Withdraw(answer, s)
  PROVE  \A c \in Clients : Withdrawn(token[c], token'[c], s) /\ Withdrawn(answer[c], answer'[c], s)
BY DEF TypeOK, Withdraw, Withdrawn, Deliveries

(* A report is about a dispatch. *)
LEMMA ReportType == \A m \in Reports : m[2] \in Dispatches
BY MailboxAssumption

(* A report that is not acknowledged was made, by a worker that was placed. *)
LEMMA ReportStep ==
  ASSUME TypeOK, ReportInv, [Next]_vars PROVE ReportInv'
<1> USE MailboxAssumption
    DEF TypeOK, ReportInv, Checking, runtimeVars, request, clientVars, histories
<1>1. ASSUME NEW c \in Clients, BindRun(c)
      PROVE  ReportInv'
  BY <1>1 DEF BindRun, AfterBinding, Goto, RunUse
<1>2. ASSUME NEW c \in Clients, Fenced(c)
      PROVE  ReportInv'
  BY <1>2 DEF Fenced, Goto, DropAck
<1>3. ASSUME NEW c \in Clients, StaleAck(c)
      PROVE  ReportInv'
  BY <1>3 DEF StaleAck, Goto, DropAck
<1>4. ASSUME NEW c \in Clients, Consume(c)
      PROVE  ReportInv'
  BY <1>4 DEF Consume, Goto
<1>5. ASSUME NEW c \in Clients, Deliver(c)
      PROVE  ReportInv'
  BY <1>5 DEF Deliver, MayReceive, Goto
<1>6. ASSUME NEW c \in Clients, TimesOut(c)
      PROVE  ReportInv'
  BY <1>6 DEF TimesOut, MayReceive, Goto
<1>7. ASSUME NEW c \in Clients, Respond(c)
      PROVE  ReportInv'
  <2>1. \A d \in Dispatches : row'[d] = row[d] \/ (row[d] \in Listed /\ row'[d] \in Listed)
    BY <1>7, RespondEffect
  <2>2. UNCHANGED <<queue, reported>> /\ pc' = [pc EXCEPT ![c] = "idle"] /\ pc[c] = "answered"
    BY <1>7 DEF Respond, End, Goto
  <2>3. QED
    BY <2>1, <2>2 DEF Listed
<1>8. ASSUME NEW c \in Clients, RespondError(c)
      PROVE  ReportInv'
  BY <1>8 DEF RespondError, End, Goto
<1>9. ASSUME NEW c \in Clients, BindFails(c)
      PROVE  ReportInv'
  BY <1>9 DEF BindFails, AfterBinding, Goto
<1>10. ASSUME NEW c \in Clients, Lose(c)
      PROVE  ReportInv'
  BY <1>10 DEF Lose, End, Goto
<1>11. ASSUME NEW c \in Clients, NEW d \in Dispatches, Place(c, d)
      PROVE  ReportInv'
  BY <1>11 DEF Place, RunUse, Goto
<1>12. ASSUME NEW c \in Clients, NEW d \in Dispatches, Register(c, d)
      PROVE  ReportInv'
  BY <1>12 DEF Register, Goto
<1>13. ASSUME NEW c \in Clients, NEW d \in Dispatches, DispatchFails(c, d) \/ AbortDispatch(c, d)
      PROVE  ReportInv'
  BY <1>13 DEF DispatchFails, AbortDispatch, Goto
<1>14. ASSUME NEW c \in Clients, NEW o \in {"await", "check"},
             NEW k \in {"none", "delivery", "message"}, Ask(c, o, k)
      PROVE  ReportInv'
  BY <1>14 DEF Ask, Goto, NeedsRunUse
<1>15. ASSUME NEW m \in Reports, WorkerReports(m)
      PROVE  ReportInv'
  BY <1>15 DEF WorkerReports
<1>16. ASSUME Restart
      PROVE  ReportInv'
  BY <1>16 DEF Restart, Listed
<1>17. ASSUME NEW d \in Dispatches, LateEnd(d)
      PROVE  ReportInv'
  BY <1>17 DEF LateEnd
<1>18. ASSUME UNCHANGED vars
      PROVE  ReportInv'
  BY <1>18 DEF vars
<1>19. QED
  BY <1>1, <1>2, <1>3, <1>4, <1>5, <1>6, <1>7, <1>8, <1>9, <1>10, <1>11, <1>12, <1>13,
     <1>14, <1>15, <1>16, <1>17, <1>18
     DEF Next, AwaitStep

(* Only the consumer of the run holds a delivery that is out. *)
LEMMA DeliveryStep ==
  ASSUME TypeOK, ReportInv, DeliveryInv, [Next]_vars PROVE DeliveryInv'
<1> USE MailboxAssumption
    DEF TypeOK, ReportInv, DeliveryInv, Current, NoToken, runtimeVars, request,
        clientVars, histories
<1>1. ASSUME NEW c \in Clients, BindRun(c)
      PROVE  DeliveryInv'
  <2>1. \A x \in Clients : /\ Withdrawn(token[x], token'[x], "void")
                           /\ Withdrawn(answer[x], answer'[x], "void")
    BY <1>1, WithdrawEffect DEF BindRun, RunUse
  <2>2. QED
    BY <1>1, <2>1 DEF Withdrawn, BindRun, AfterBinding, Goto, RunUse
<1>2. ASSUME NEW c \in Clients, Fenced(c)
      PROVE  DeliveryInv'
  BY <1>2 DEF Fenced, Goto, DropAck
<1>3. ASSUME NEW c \in Clients, StaleAck(c)
      PROVE  DeliveryInv'
  BY <1>3 DEF StaleAck, Goto, DropAck
<1>4. ASSUME NEW c \in Clients, Consume(c)
      PROVE  DeliveryInv'
  <2>1. \A x \in Clients : /\ Withdrawn(token[x], token'[x], "consumed")
                           /\ Withdrawn(answer[x], answer'[x], "consumed")
    BY <1>4, WithdrawEffect DEF Consume
  <2>2. QED
    BY <1>4, <2>1 DEF Withdrawn, Consume, Goto
<1>5. ASSUME NEW c \in Clients, Deliver(c)
      PROVE  DeliveryInv'
  BY <1>5 DEF Deliver, MayReceive, Goto
<1>6. ASSUME NEW c \in Clients, TimesOut(c)
      PROVE  DeliveryInv'
  BY <1>6 DEF TimesOut, MayReceive, Goto
<1>7. ASSUME NEW c \in Clients, Respond(c)
      PROVE  DeliveryInv'
  BY <1>7 DEF Respond, End, Goto
<1>8. ASSUME NEW c \in Clients, RespondError(c)
      PROVE  DeliveryInv'
  BY <1>8 DEF RespondError, End, Goto
<1>9. ASSUME NEW c \in Clients, BindFails(c)
      PROVE  DeliveryInv'
  BY <1>9 DEF BindFails, AfterBinding, Goto
<1>10. ASSUME NEW c \in Clients, Lose(c)
      PROVE  DeliveryInv'
  BY <1>10 DEF Lose, End, Goto
<1>11. ASSUME NEW c \in Clients, NEW d \in Dispatches, Place(c, d)
      PROVE  DeliveryInv'
  <2>1. \A x \in Clients : /\ Withdrawn(token[x], token'[x], "void")
                           /\ Withdrawn(answer[x], answer'[x], "void")
    BY <1>11, WithdrawEffect DEF Place, RunUse
  <2>2. QED
    BY <1>11, <2>1 DEF Withdrawn, Place, Goto, RunUse
<1>12. ASSUME NEW c \in Clients, NEW d \in Dispatches, Register(c, d)
      PROVE  DeliveryInv'
  BY <1>12 DEF Register, Goto
<1>13. ASSUME NEW c \in Clients, NEW d \in Dispatches, DispatchFails(c, d) \/ AbortDispatch(c, d)
      PROVE  DeliveryInv'
  BY <1>13 DEF DispatchFails, AbortDispatch, Goto
<1>14. ASSUME NEW c \in Clients, NEW o \in {"await", "check"},
             NEW k \in {"none", "delivery", "message"}, Ask(c, o, k)
      PROVE  DeliveryInv'
  BY <1>14 DEF Ask, Goto, NeedsRunUse
<1>15. ASSUME NEW m \in Reports, WorkerReports(m)
      PROVE  DeliveryInv'
  BY <1>15 DEF WorkerReports
<1>16. ASSUME Restart
      PROVE  DeliveryInv'
  BY <1>16 DEF Restart
<1>17. ASSUME NEW d \in Dispatches, LateEnd(d)
      PROVE  DeliveryInv'
  BY <1>17 DEF LateEnd
<1>18. ASSUME UNCHANGED vars
      PROVE  DeliveryInv'
  BY <1>18 DEF vars
<1>19. QED
  BY <1>1, <1>2, <1>3, <1>4, <1>5, <1>6, <1>7, <1>8, <1>9, <1>10, <1>11, <1>12, <1>13,
     <1>14, <1>15, <1>16, <1>17, <1>18
     DEF Next, AwaitStep

(* What its owner has acknowledged or holds, its owner has seen, or missed. *)
LEMMA SeenStep ==
  ASSUME TypeOK, ReportInv, DeliveryInv, SeenInv, [Next]_vars PROVE SeenInv'
<1> USE MailboxAssumption
    DEF TypeOK, ReportInv, DeliveryInv, Current, SeenInv, runtimeVars,
        request, clientVars, histories
<1>1. ASSUME NEW c \in Clients, BindRun(c)
      PROVE  SeenInv'
  <2>1. \A x \in Clients : /\ Withdrawn(token[x], token'[x], "void")
                           /\ Withdrawn(answer[x], answer'[x], "void")
    BY <1>1, WithdrawEffect DEF BindRun, RunUse
  <2>2. QED
    BY <1>1, <2>1 DEF Withdrawn, BindRun, AfterBinding, Goto, RunUse
<1>2. ASSUME NEW c \in Clients, Fenced(c)
      PROVE  SeenInv'
  BY <1>2 DEF Fenced, Goto, DropAck
<1>3. ASSUME NEW c \in Clients, StaleAck(c)
      PROVE  SeenInv'
  BY <1>3 DEF StaleAck, Goto, DropAck
<1>4. ASSUME NEW c \in Clients, Consume(c)
      PROVE  SeenInv'
  <2>1. \A x \in Clients : /\ Withdrawn(token[x], token'[x], "consumed")
                           /\ Withdrawn(answer[x], answer'[x], "consumed")
    BY <1>4, WithdrawEffect DEF Consume
  <2>2. QED
    BY <1>4, <2>1 DEF Withdrawn, Consume, Goto
<1>5. ASSUME NEW c \in Clients, Deliver(c)
      PROVE  SeenInv'
  BY <1>5 DEF Deliver, MayReceive, Goto
<1>6. ASSUME NEW c \in Clients, TimesOut(c)
      PROVE  SeenInv'
  BY <1>6 DEF TimesOut, MayReceive, Goto
<1>7. ASSUME NEW c \in Clients, Respond(c)
      PROVE  SeenInv'
  <2>1. seen \subseteq seen' /\ missed \subseteq missed'
    BY <1>7, RespondEffect
  <2>2. \A m \in answer[c].batch : ownerOf[m[2]] = c => m \in seen' \cup missed'
    BY <1>7, RespondEffect
  <2>3. QED
    BY <1>7, <2>1, <2>2 DEF Respond, End, Goto
<1>8. ASSUME NEW c \in Clients, RespondError(c)
      PROVE  SeenInv'
  BY <1>8 DEF RespondError, End, Goto
<1>9. ASSUME NEW c \in Clients, BindFails(c)
      PROVE  SeenInv'
  BY <1>9 DEF BindFails, AfterBinding, Goto
<1>10. ASSUME NEW c \in Clients, Lose(c)
      PROVE  SeenInv'
  BY <1>10 DEF Lose, End, Goto
<1>11. ASSUME NEW c \in Clients, NEW d \in Dispatches, Place(c, d)
      PROVE  SeenInv'
  <2>1. \A x \in Clients : /\ Withdrawn(token[x], token'[x], "void")
                           /\ Withdrawn(answer[x], answer'[x], "void")
    BY <1>11, WithdrawEffect DEF Place, RunUse
  <2>2. QED
    BY <1>11, <2>1 DEF Withdrawn, Place, Goto, RunUse
<1>12. ASSUME NEW c \in Clients, NEW d \in Dispatches, Register(c, d)
      PROVE  SeenInv'
  BY <1>12 DEF Register, Goto
<1>13. ASSUME NEW c \in Clients, NEW d \in Dispatches, DispatchFails(c, d) \/ AbortDispatch(c, d)
      PROVE  SeenInv'
  BY <1>13 DEF DispatchFails, AbortDispatch, Goto
<1>14. ASSUME NEW c \in Clients, NEW o \in {"await", "check"},
             NEW k \in {"none", "delivery", "message"}, Ask(c, o, k)
      PROVE  SeenInv'
  BY <1>14 DEF Ask, Goto, NeedsRunUse
<1>15. ASSUME NEW m \in Reports, WorkerReports(m)
      PROVE  SeenInv'
  BY <1>15 DEF WorkerReports
<1>16. ASSUME Restart
      PROVE  SeenInv'
  BY <1>16, ReportType DEF Restart, Listed
<1>17. ASSUME NEW d \in Dispatches, LateEnd(d)
      PROVE  SeenInv'
  BY <1>17 DEF LateEnd
<1>18. ASSUME UNCHANGED vars
      PROVE  SeenInv'
  BY <1>18 DEF vars
<1>19. QED
  BY <1>1, <1>2, <1>3, <1>4, <1>5, <1>6, <1>7, <1>8, <1>9, <1>10, <1>11, <1>12, <1>13,
     <1>14, <1>15, <1>16, <1>17, <1>18
     DEF Next, AwaitStep

(* An ack on its way names the delivery that is out or one that is consumed. *)
LEMMA AckStep ==
  ASSUME TypeOK, ReportInv, DeliveryInv, AckInv, [Next]_vars PROVE AckInv'
<1> USE MailboxAssumption
    DEF TypeOK, ReportInv, DeliveryInv, Current, AckInv, Checking, runtimeVars, request,
        clientVars, histories
<1>1. ASSUME NEW c \in Clients, BindRun(c)
      PROVE  AckInv'
  <2>1. \A x \in Clients : /\ Withdrawn(token[x], token'[x], "void")
                           /\ Withdrawn(answer[x], answer'[x], "void")
    BY <1>1, WithdrawEffect DEF BindRun, RunUse
  <2>2. QED
    BY <1>1, <2>1 DEF Withdrawn, BindRun, AfterBinding, Goto, RunUse
<1>2. ASSUME NEW c \in Clients, Fenced(c)
      PROVE  AckInv'
  BY <1>2 DEF Fenced, Goto, DropAck
<1>3. ASSUME NEW c \in Clients, StaleAck(c)
      PROVE  AckInv'
  BY <1>3 DEF StaleAck, Goto, DropAck
<1>4. ASSUME NEW c \in Clients, Consume(c)
      PROVE  AckInv'
  <2>1. \A x \in Clients : /\ Withdrawn(token[x], token'[x], "consumed")
                           /\ Withdrawn(answer[x], answer'[x], "consumed")
    BY <1>4, WithdrawEffect DEF Consume
  <2>2. QED
    BY <1>4, <2>1 DEF Withdrawn, Consume, Goto
<1>5. ASSUME NEW c \in Clients, Deliver(c)
      PROVE  AckInv'
  BY <1>5 DEF Deliver, MayReceive, Goto
<1>6. ASSUME NEW c \in Clients, TimesOut(c)
      PROVE  AckInv'
  BY <1>6 DEF TimesOut, MayReceive, Goto
<1>7. ASSUME NEW c \in Clients, Respond(c)
      PROVE  AckInv'
  BY <1>7 DEF Respond, End, Goto
<1>8. ASSUME NEW c \in Clients, RespondError(c)
      PROVE  AckInv'
  BY <1>8 DEF RespondError, End, Goto
<1>9. ASSUME NEW c \in Clients, BindFails(c)
      PROVE  AckInv'
  BY <1>9 DEF BindFails, AfterBinding, Goto
<1>10. ASSUME NEW c \in Clients, Lose(c)
      PROVE  AckInv'
  BY <1>10 DEF Lose, End, Goto
<1>11. ASSUME NEW c \in Clients, NEW d \in Dispatches, Place(c, d)
      PROVE  AckInv'
  <2>1. \A x \in Clients : /\ Withdrawn(token[x], token'[x], "void")
                           /\ Withdrawn(answer[x], answer'[x], "void")
    BY <1>11, WithdrawEffect DEF Place, RunUse
  <2>2. QED
    BY <1>11, <2>1 DEF Withdrawn, Place, Goto, RunUse
<1>12. ASSUME NEW c \in Clients, NEW d \in Dispatches, Register(c, d)
      PROVE  AckInv'
  BY <1>12 DEF Register, Goto
<1>13. ASSUME NEW c \in Clients, NEW d \in Dispatches, DispatchFails(c, d) \/ AbortDispatch(c, d)
      PROVE  AckInv'
  BY <1>13 DEF DispatchFails, AbortDispatch, Goto
<1>14. ASSUME NEW c \in Clients, NEW o \in {"await", "check"},
             NEW k \in {"none", "delivery", "message"}, Ask(c, o, k)
      PROVE  AckInv'
  <2>1. /\ \A x \in Clients \ {c} : pc'[x] = pc[x] /\ op'[x] = op[x] /\ ack'[x] = ack[x]
        /\ pc'[c] \in {"binding", "checking"} /\ op'[c] = o
        /\ pc'[c] = "binding" /\ o = "await" => k = "none" /\ ack'[c] = "none"
        /\ ack'[c] = "delivery" => token[c].state # "void"
        /\ UNCHANGED <<queue, consumer, token>>
    BY <1>14 DEF Ask, Goto, NeedsRunUse
  <2>2. token[c].state # "void" => token[c].state = "out" \/ token[c].batch \cap queue = {}
    BY DEF Deliveries
  <2>3. QED
    BY <2>1, <2>2
<1>15. ASSUME NEW m \in Reports, WorkerReports(m)
      PROVE  AckInv'
  BY <1>15 DEF WorkerReports
<1>16. ASSUME Restart
      PROVE  AckInv'
  BY <1>16 DEF Restart
<1>17. ASSUME NEW d \in Dispatches, LateEnd(d)
      PROVE  AckInv'
  BY <1>17 DEF LateEnd
<1>18. ASSUME UNCHANGED vars
      PROVE  AckInv'
  BY <1>18 DEF vars
<1>19. QED
  BY <1>1, <1>2, <1>3, <1>4, <1>5, <1>6, <1>7, <1>8, <1>9, <1>10, <1>11, <1>12, <1>13,
     <1>14, <1>15, <1>16, <1>17, <1>18
     DEF Next, AwaitStep

(* A hint to release is about an own worker that is done. *)
LEMMA HintStep ==
  ASSUME TypeOK, ReleaseHintIsOwn, [Next]_vars PROVE ReleaseHintIsOwn'
<1> USE MailboxAssumption
    DEF TypeOK, ReleaseHintIsOwn, runtimeVars, request, clientVars, histories
<1>1. ASSUME NEW c \in Clients, BindRun(c)
      PROVE  ReleaseHintIsOwn'
  BY <1>1 DEF BindRun, AfterBinding, Goto, RunUse
<1>2. ASSUME NEW c \in Clients, Fenced(c)
      PROVE  ReleaseHintIsOwn'
  BY <1>2 DEF Fenced, Goto, DropAck
<1>3. ASSUME NEW c \in Clients, StaleAck(c)
      PROVE  ReleaseHintIsOwn'
  BY <1>3 DEF StaleAck, Goto, DropAck
<1>4. ASSUME NEW c \in Clients, Consume(c)
      PROVE  ReleaseHintIsOwn'
  BY <1>4 DEF Consume, Goto
<1>5. ASSUME NEW c \in Clients, Deliver(c)
      PROVE  ReleaseHintIsOwn'
  BY <1>5 DEF Deliver, MayReceive, Goto
<1>6. ASSUME NEW c \in Clients, TimesOut(c)
      PROVE  ReleaseHintIsOwn'
  BY <1>6 DEF TimesOut, MayReceive, Goto
<1>7. ASSUME NEW c \in Clients, Respond(c)
      PROVE  ReleaseHintIsOwn'
  <2>1. hint'[c] # NoDispatch => ownerOf[hint'[c]] = c /\ <<"worker_done", hint'[c]>> \in seen'
    BY <1>7, RespondEffect
  <2>2. \A x \in Clients \ {c} : hint'[x] = hint[x]
    BY <1>7, RespondEffect
  <2>3. seen \subseteq seen'
    BY <1>7, RespondEffect
  <2>4. QED
    BY <2>1, <2>2, <2>3
<1>8. ASSUME NEW c \in Clients, RespondError(c)
      PROVE  ReleaseHintIsOwn'
  BY <1>8 DEF RespondError, End, Goto
<1>9. ASSUME NEW c \in Clients, BindFails(c)
      PROVE  ReleaseHintIsOwn'
  BY <1>9 DEF BindFails, AfterBinding, Goto
<1>10. ASSUME NEW c \in Clients, Lose(c)
      PROVE  ReleaseHintIsOwn'
  BY <1>10 DEF Lose, End, Goto
<1>11. ASSUME NEW c \in Clients, NEW d \in Dispatches, Place(c, d)
      PROVE  ReleaseHintIsOwn'
  BY <1>11 DEF Place, RunUse, Goto
<1>12. ASSUME NEW c \in Clients, NEW d \in Dispatches, Register(c, d)
      PROVE  ReleaseHintIsOwn'
  BY <1>12 DEF Register, Goto
<1>13. ASSUME NEW c \in Clients, NEW d \in Dispatches, DispatchFails(c, d) \/ AbortDispatch(c, d)
      PROVE  ReleaseHintIsOwn'
  BY <1>13 DEF DispatchFails, AbortDispatch, Goto
<1>14. ASSUME NEW c \in Clients, NEW o \in {"await", "check"},
             NEW k \in {"none", "delivery", "message"}, Ask(c, o, k)
      PROVE  ReleaseHintIsOwn'
  BY <1>14 DEF Ask, Goto, NeedsRunUse
<1>15. ASSUME NEW m \in Reports, WorkerReports(m)
      PROVE  ReleaseHintIsOwn'
  BY <1>15 DEF WorkerReports
<1>16. ASSUME Restart
      PROVE  ReleaseHintIsOwn'
  BY <1>16 DEF Restart
<1>17. ASSUME NEW d \in Dispatches, LateEnd(d)
      PROVE  ReleaseHintIsOwn'
  BY <1>17 DEF LateEnd
<1>18. ASSUME UNCHANGED vars
      PROVE  ReleaseHintIsOwn'
  BY <1>18 DEF vars
<1>19. QED
  BY <1>1, <1>2, <1>3, <1>4, <1>5, <1>6, <1>7, <1>8, <1>9, <1>10, <1>11, <1>12, <1>13,
     <1>14, <1>15, <1>16, <1>17, <1>18
     DEF Next, AwaitStep

(* The invariant the other theorems rest on: deliveries, acks and what has been
   seen agree, whoever takes the run from whom. *)
THEOREM MailboxInvariant == Spec => []MailboxInv
<1>1. Init => MailboxInv
  <2> SUFFICES ASSUME Init PROVE MailboxInv
    OBVIOUS
  <2>1. TypeOK
    BY MailboxAssumption DEF Init, TypeOK, Deliveries, NoToken, Listed, Checking
  <2>2. ReportInv /\ DeliveryInv /\ SeenInv /\ AckInv /\ ReleaseHintIsOwn
    BY DEF Init, ReportInv, DeliveryInv, Current, SeenInv, AckInv, ReleaseHintIsOwn, NoToken
  <2>3. QED
    BY <2>1, <2>2 DEF MailboxInv
<1>2. MailboxInv /\ [Next]_vars => MailboxInv'
  BY TypeStep, ReportStep, DeliveryStep, SeenStep, AckStep, HintStep DEF MailboxInv
<1>3. QED
  BY <1>1, <1>2, PTL DEF Spec

(* Every variable of AwaitMailbox stays in its type. *)
THEOREM MailboxTypeCorrect == Spec => []TypeOK
<1>1. MailboxInv => TypeOK
  BY DEF MailboxInv
<1>2. QED
  BY <1>1, MailboxInvariant, PTL

(* partitionMailbox keeps next.action = release to the client's own workers. *)
THEOREM MailboxHintIsOwn == Spec => []ReleaseHintIsOwn
<1>1. MailboxInv => ReleaseHintIsOwn
  BY DEF MailboxInv
<1>2. QED
  BY <1>1, MailboxInvariant, PTL

(* No interleaving of dispatches, run-use, acks and lost answers takes a report out
   of the mailbox behind the back of the client it is for. *)
THEOREM MailboxReportsAreNotLost == Spec => []ReportsAreNotLost
<1>1. MailboxInv => ReportsAreNotLost
  BY DEF MailboxInv, SeenInv, ReportsAreNotLost
<1>2. QED
  BY <1>1, MailboxInvariant, PTL

(* An await that answers ok to an ack sent in time has consumed its delivery. *)
THEOREM MailboxAckedLeaves == Spec => AckedLeavesMailbox
<1>1. MailboxInv => \A c \in Clients :
        Respond(c) /\ ack[c] = "delivery" => token[c].batch \cap queue = {}
  BY DEF MailboxInv, AckInv, Respond
<1>2. MailboxInv /\ [Next]_vars =>
        [\A c \in Clients :
           Respond(c) /\ ack[c] = "delivery" => token[c].batch \cap queue = {}]_vars
  BY <1>1
<1>3. QED
  BY <1>2, MailboxInvariant, PTL DEF Spec, AckedLeavesMailbox

-----------------------------------------------------------------------------
(* The mailbox as a ledger. *)

LedgerStep == [Ledger!LedgerNext]_(Ledger!ledgerVars)

(* A step that leaves the reports alone changes at most which dispatches are listed. *)
LEMMA QuietStep ==
  ASSUME queue' = queue, reported' = reported, seen' = seen, taken' = taken, missed' = missed
  PROVE  LedgerStep
<1> DEFINE listed == {d \in Dispatches : row[d] \in Listed}
<1>1. listed' \subseteq Dispatches
  OBVIOUS
<1>2. Ledger!Relist
  BY <1>1 DEF Ledger!Relist
<1> QED BY <1>2 DEF LedgerStep, Ledger!LedgerNext

(* An ack of the delivery that is out settles it: what of it is the client's own, the
   client has seen or missed. *)
LEMMA ConsumeSettles ==
  ASSUME MailboxInv, NEW c \in Clients, Consume(c)
  PROVE  LedgerStep
<1> DEFINE foreign == {m \in out : ownerOf[m[2]] # c}
<1>1. /\ queue' = queue \ out /\ taken' = taken \cup foreign
      /\ reported' = reported /\ seen' = seen /\ row' = row /\ missed' = missed
  BY DEF Consume, histories
<1>2. out \subseteq queue /\ out \subseteq Reports
  BY DEF MailboxInv, TypeOK
<1>3. token[c].state = "out" /\ token[c].batch = out
  BY DEF MailboxInv, DeliveryInv, Current, Consume
<1>4. out \ foreign \subseteq seen \cup missed
  BY <1>3 DEF MailboxInv, SeenInv
<1>5. Ledger!Settle(out, foreign)
  BY <1>1, <1>2, <1>4 DEF Ledger!Settle
<1>6. out \in SUBSET Reports /\ foreign \in SUBSET out
  BY <1>2
<1> QED BY <1>5, <1>6 DEF LedgerStep, Ledger!LedgerNext

(* An answer tells its client what the workers of the client had reported, as its own
   if the dispatch is listed. *)
LEMMA RespondTells ==
  ASSUME MailboxInv, NEW c \in Clients, Respond(c)
  PROVE  LedgerStep
<1> DEFINE listed == {d \in Dispatches : row[d] \in Listed}
           batch == answer[c].batch
           own   == IF op[c] = "await" THEN Own(c, batch) ELSE {}
           news  == {m \in IF op[c] = "await" THEN own ELSE batch : ownerOf[m[2]] = c}
           strays == missed' \ missed
<1>1. /\ queue' = queue /\ reported' = reported /\ taken' = taken
      /\ seen' = seen \cup news
  BY Zenon DEF Respond, runtimeVars
<1>2. batch \subseteq reported /\ reported \subseteq Reports
  BY DEF MailboxInv, DeliveryInv, Current, TypeOK
<1>3. news \subseteq batch
  BY DEF Own
<1>4. listed' = listed
  <2>1. \A d \in Dispatches : row'[d] = row[d] \/ (row[d] \in Listed /\ row'[d] \in Listed)
    BY RespondEffect DEF MailboxInv
  <2>2. \A d \in Dispatches : row'[d] \in Listed <=> row[d] \in Listed
    BY <2>1
  <2> QED BY <2>2
<1>5. /\ missed' = missed \cup strays /\ strays \subseteq reported
      /\ \A m \in strays : m[2] \notin listed
  <2>1. missed \subseteq missed' /\ \A m \in strays : m \in batch /\ row[m[2]] \notin Listed
    BY RespondEffect DEF MailboxInv
  <2> QED BY <2>1, <1>2
<1> HIDE DEF listed, news, own, batch, strays
<1>6. Ledger!Tell(news, strays)
  BY <1>1, <1>2, <1>3, <1>4, <1>5 DEF Ledger!Tell, listed
<1>7. news \in SUBSET Reports /\ strays \in SUBSET Reports
  BY <1>2, <1>3, <1>5
<1> QED BY <1>6, <1>7 DEF LedgerStep, Ledger!LedgerNext

(* Every step of the mailbox is a step of the ledger or leaves it alone. *)
LEMMA MailboxLedgerStep == ASSUME MailboxInv, [Next]_vars PROVE LedgerStep
<1> USE DEF runtimeVars, request, clientVars, histories
<1>1. ASSUME NEW c \in Clients, BindRun(c) \/ Fenced(c) \/ StaleAck(c) \/ Deliver(c)
                                 \/ TimesOut(c) \/ RespondError(c) \/ BindFails(c) \/ Lose(c)
      PROVE  LedgerStep
  BY <1>1, QuietStep
     DEF BindRun, RunUse, Fenced, StaleAck, Deliver, TimesOut, RespondError, BindFails, Lose
<1>2. ASSUME NEW c \in Clients, Consume(c) \/ Respond(c)
      PROVE  LedgerStep
  BY <1>2, ConsumeSettles, RespondTells
<1>3. ASSUME NEW c \in Clients, NEW d \in Dispatches,
             Place(c, d) \/ Register(c, d) \/ AbortDispatch(c, d) \/ DispatchFails(c, d)
      PROVE  LedgerStep
  BY <1>3, QuietStep DEF Place, RunUse, Register, AbortDispatch, DispatchFails
<1>4. ASSUME NEW c \in Clients, NEW o \in {"await", "check"},
             NEW k \in {"none", "delivery", "message"}, Ask(c, o, k)
      PROVE  LedgerStep
  BY <1>4, QuietStep DEF Ask
<1>5. ASSUME NEW m \in Reports, WorkerReports(m)
      PROVE  LedgerStep
  <2>1. Ledger!Arrive(m)
    BY <1>5 DEF WorkerReports, Ledger!Arrive
  <2> QED BY <2>1 DEF LedgerStep, Ledger!LedgerNext
<1>6. ASSUME Restart
      PROVE  LedgerStep
  BY <1>6, QuietStep DEF Restart
<1>7. ASSUME NEW d \in Dispatches, LateEnd(d)
      PROVE  LedgerStep
  BY <1>7, QuietStep DEF LateEnd
<1>8. ASSUME UNCHANGED vars
      PROVE  LedgerStep
  BY <1>8, QuietStep DEF vars
<1> QED
  BY <1>1, <1>2, <1>3, <1>4, <1>5, <1>6, <1>7, <1>8 DEF Next, AwaitStep

(* Await is a ledger that tells every report at least once: no fence, void or repeated
   ack, lost answer or restart lets a report go before its owner was told it. *)
THEOREM MailboxIsReportLedger == Spec => IsReportLedger
<1>1. Init => Ledger!LedgerInit
  BY DEF Init, Listed, Ledger!LedgerInit
<1>2. MailboxInv /\ [Next]_vars => [Ledger!LedgerNext]_(Ledger!ledgerVars)
  BY MailboxLedgerStep DEF LedgerStep
<1> QED BY <1>1, <1>2, MailboxInvariant, PTL DEF Spec, IsReportLedger, Ledger!LedgerSpec
=============================================================================
