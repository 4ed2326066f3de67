--------------------------- MODULE StoreSignerProofs ---------------------------
(***************************************************************************)
(* What the signer promises for every set of stores and payloads, however   *)
(* many seq-file writes fail and whichever store an accepted envelope was    *)
(* signed for.  The inductive invariant bounds the numbers issued for a      *)
(* store by its live record while no restart has lost a counter, and ties    *)
(* that record, when it is the store's own, to the envelope signed last.     *)
(***************************************************************************)
EXTENDS StoreSigner, TLAPS

(* Only the record of a store that was never signed lacks a digest. *)
Digested(rec) == rec.digest = NoDigest => rec.n = 0

RecordsAreDigested ==
  \A s \in Stores : Digested(last[s]) /\ Digested(seqFile[s])

LiveRecordIsNewest ==
  \A s \in Stores :
    ~regressed[s] =>
      /\ OwnRecord(s) => last[s] = Recorded(newest[s])
      /\ newest[s] \in issued[s] \cup {NoEnvelope}
      /\ \A e \in issued[s] : e.n <= last[s].n

SignerInv ==
  /\ SignerTypeOK
  /\ RecordsAreDigested
  /\ LiveRecordIsNewest
  /\ NumbersAreUnique
  /\ FreshIffNewest
  /\ HighestIsAccepted

(* Signing keeps the types. *)
LEMMA SignTypes ==
  ASSUME SignerTypeOK, NEW s \in Stores, NEW p \in Payloads, HandleSign(s, p)
  PROVE  SignerTypeOK' /\ reply'.env \in Envelope
<1> USE SignerAssumption DEF SignerTypeOK, SeqRecord, Envelope
<1>1. [n |-> last[s].n + 1, payload |-> p] \in Envelope
  OBVIOUS
<1>2. Bump(last[s], p) \in SeqRecord
  BY DEF Bump
<1>3. last' \in [Stores -> SeqRecord]
  BY <1>2 DEF HandleSign
<1>4. seqFile' \in [Stores -> SeqRecord] /\ faults' \in 0..MaxFaults
  BY <1>3 DEF HandleSign, Persist
<1>5. reply' \in Reply /\ reply'.env \in Envelope
  BY <1>1 DEF HandleSign, Bump, SignReply, Reply
<1>6. QED
  BY <1>1, <1>3, <1>4, <1>5 DEF HandleSign, Bump

(* The daemon gives a number within its range. *)
LEMMA SignIsNumbered ==
  ASSUME SignerTypeOK, NEW s \in Stores, NEW p \in Payloads, HandleSign(s, p)
  PROVE  reply'.env.n \in 1..MaxSeq
<1>1. last[s].n \in Nat /\ last[s].n < MaxSeq /\ reply'.env.n = last[s].n + 1
  BY DEF SignerTypeOK, SeqRecord, HandleSign, Bump, SignReply
<1> QED
  BY <1>1, SignerAssumption

(* Every verdict keeps the types. *)
LEMMA VerifyTypes ==
  ASSUME SignerTypeOK, NEW s \in Stores, NEW e \in Envelope, HandleVerify(s, e)
  PROVE  SignerTypeOK'
<1> USE SignerAssumption DEF SignerTypeOK, SeqRecord, Envelope
<1>1. last' \in [Stores -> SeqRecord]
  BY DEF HandleVerify, VerifyBadSig, VerifyStale, VerifyValid, Recorded
<1>2. seqFile' \in [Stores -> SeqRecord] /\ faults' \in 0..MaxFaults
  BY <1>1 DEF HandleVerify, VerifyBadSig, VerifyStale, VerifyValid, Persist
<1>3. reply' \in Reply
  BY DEF HandleVerify, VerifyBadSig, VerifyStale, VerifyValid, VerifyReply, Reply,
         Verdict
<1>4. QED
  BY <1>1, <1>2, <1>3 DEF HandleVerify

(* Restarts and losses of the seq file keep the types. *)
LEMMA FaultTypes ==
  ASSUME SignerTypeOK, DaemonRestart \/ SeqFileLost
  PROVE  SignerTypeOK'
<1> USE SignerAssumption DEF SignerTypeOK, SeqRecord
<1>1. CASE DaemonRestart
  BY <1>1 DEF DaemonRestart, Reply
<1>2. CASE SeqFileLost
  BY <1>2 DEF SeqFileLost, NoRecord
<1>3. QED
  BY <1>1, <1>2

(* bump: signing keeps every part of the invariant, whether or not the seq file
   was written. *)
LEMMA SignKeepsInv ==
  ASSUME SignerInv, SignerTypeOK', NEW s \in Stores, NEW p \in Payloads,
         HandleSign(s, p)
  PROVE  SignerInv'
<1> DEFINE env == [n |-> last[s].n + 1, payload |-> p]
<1> USE DEF SignerInv
<1>0. /\ env \in Envelope
      /\ last[s].n \in Nat
      /\ issued' = [issued EXCEPT ![s] = @ \cup {env}]
      /\ newest' = [newest EXCEPT ![s] = env]
      /\ last' = [last EXCEPT ![s] = Recorded(env)]
      /\ regressed' = regressed
      /\ reply'.op = "sign"
      /\ seqFile' = last' \/ seqFile' = seqFile
  BY DEF HandleSign, Bump, Recorded, Persist, SignReply, SignerTypeOK, SeqRecord,
         Envelope
<1>1. RecordsAreDigested'
  BY <1>0, SignerAssumption DEF RecordsAreDigested, Digested, Recorded, SignerTypeOK, Envelope
<1>2. LiveRecordIsNewest'
  <2> SUFFICES ASSUME NEW t \in Stores, ~regressed'[t]
               PROVE  /\ OwnRecord(t)' => last'[t] = Recorded(newest'[t])
                      /\ newest'[t] \in issued'[t] \cup {NoEnvelope}
                      /\ \A e \in issued'[t] : e.n <= last'[t].n
    BY DEF LiveRecordIsNewest, Recorded, NoEnvelope
  <2>1. CASE t = s
    <3>1. \A e \in issued[s] : e.n \in Nat /\ e.n <= last[s].n
      BY <1>0, <2>1 DEF LiveRecordIsNewest, SignerTypeOK, Envelope
    <3>2. /\ last'[s] = Recorded(env)
          /\ newest'[s] = env
          /\ issued'[s] = issued[s] \cup {env}
      BY <1>0 DEF SignerTypeOK
    <3>3. QED
      BY <1>0, <2>1, <3>1, <3>2 DEF Recorded
  <2>2. CASE t # s
    <3>1. last'[t] = last[t] /\ newest'[t] = newest[t] /\ issued'[t] = issued[t]
      BY <1>0, <2>2 DEF SignerTypeOK
    <3>2. QED
      BY <1>0, <3>1 DEF LiveRecordIsNewest, OwnRecord
  <2>3. QED
    BY <2>1, <2>2
<1>3. NumbersAreUnique'
  <2> SUFFICES ASSUME NEW t \in Stores, ~regressed'[t],
                      NEW a \in issued'[t], NEW b \in issued'[t], a.n = b.n
               PROVE  a = b
    BY DEF NumbersAreUnique
  <2>1. CASE t = s
    <3>1. \A e \in issued[s] : e.n \in Nat /\ e.n <= last[s].n
      BY <1>0, <2>1 DEF LiveRecordIsNewest, SignerTypeOK, Envelope
    <3>2. issued'[s] = issued[s] \cup {env}
      BY <1>0 DEF SignerTypeOK
    <3>3. QED
      BY <1>0, <2>1, <3>1, <3>2 DEF NumbersAreUnique
  <2>2. CASE t # s
    BY <1>0, <2>2 DEF NumbersAreUnique, SignerTypeOK
  <2>3. QED
    BY <2>1, <2>2
<1>4. FreshIffNewest' /\ HighestIsAccepted'
  BY <1>0 DEF FreshIffNewest, HighestIsAccepted, IsVerifyOf
<1>5. QED
  BY <1>1, <1>2, <1>3, <1>4

(* check: while no counter was lost, an envelope of a store is fresh exactly when
   it is the newest and the record is the store's own; and an own record is never
   above the highest envelope. *)
LEMMA CheckIsExact ==
  ASSUME SignerInv, NEW s \in Stores, NEW e \in issued[s]
  PROVE  /\ ~regressed[s] =>
              (IsFresh(last[s], e) <=> e = newest[s] /\ OwnRecord(s))
         /\ OwnRecord(s) /\ (\A o \in issued[s] \ {e} : o.n < e.n) =>
              IsFresh(last[s], e)
<1> USE DEF SignerInv, SignerTypeOK, SeqRecord, Envelope
<1>0. e \in Envelope /\ last[s] \in SeqRecord /\ NoDigest \notin Payloads
  BY SignerAssumption
<1>1. ASSUME ~regressed[s], IsFresh(last[s], e)
      PROVE  e = newest[s] /\ OwnRecord(s)
  <2>1. e.n <= last[s].n /\ (OwnRecord(s) => last[s] = Recorded(newest[s]))
        /\ newest[s] \in issued[s] \cup {NoEnvelope}
    BY <1>1 DEF LiveRecordIsNewest
  <2>2. e.n = last[s].n /\ last[s].digest = e.payload
    <3>1. e.n \in Nat \ {0} /\ last[s].n \in Nat
      BY <1>0
    <3>2. e.n = last[s].n /\ last[s].digest \in {NoDigest, e.payload}
      BY <1>1, <2>1, <3>1 DEF IsFresh
    <3>3. CASE last[s].digest = NoDigest
      BY <3>1, <3>2, <3>3 DEF RecordsAreDigested, Digested, NoRecord
    <3>4. QED
      BY <3>2, <3>3
  <2>3. last[s] = Recorded(e)
    BY <1>0, <2>2 DEF Recorded
  <2>4. OwnRecord(s)
    BY <2>3 DEF OwnRecord
  <2>5. Recorded(e) = Recorded(newest[s])
    BY <2>1, <2>3, <2>4
  <2>6. e = newest[s]
    BY <1>0, <2>1, <2>5 DEF Recorded, NoEnvelope
  <2>7. QED
    BY <2>4, <2>6
<1>2. ASSUME ~regressed[s], e = newest[s], OwnRecord(s)
      PROVE  IsFresh(last[s], e)
  BY <1>0, <1>2 DEF LiveRecordIsNewest, Recorded, IsFresh
<1>3. ASSUME OwnRecord(s), \A o \in issued[s] \ {e} : o.n < e.n
      PROVE  IsFresh(last[s], e)
  <2>1. CASE last[s] = NoRecord
    BY <1>0, <2>1 DEF NoRecord, IsFresh
  <2>2. ASSUME NEW o \in issued[s], last[s] = Recorded(o)
        PROVE  IsFresh(last[s], e)
    BY <1>0, <1>3, <2>2 DEF Recorded, IsFresh
  <2>3. QED
    BY <1>3, <2>1, <2>2 DEF OwnRecord
<1>4. QED
  BY <1>1, <1>2, <1>3

(* verify: every verdict keeps the invariant, the accepting one included. *)
LEMMA VerifyKeepsInv ==
  ASSUME SignerInv, SignerTypeOK', NEW s \in Stores, NEW e \in Envelope,
         HandleVerify(s, e)
  PROVE  SignerInv'
<1> USE DEF SignerInv
<1>0. /\ issued' = issued /\ newest' = newest /\ regressed' = regressed
      /\ seqFile' = last' \/ seqFile' = seqFile
  BY DEF HandleVerify, VerifyBadSig, VerifyStale, VerifyValid, Persist
<1>1. \/ last' = last
      \/ IsFresh(last[s], e) /\ last' = [last EXCEPT ![s] = Recorded(e)]
  BY DEF HandleVerify, VerifyBadSig, VerifyStale, VerifyValid
<1>2. RecordsAreDigested'
  BY <1>0, <1>1, SignerAssumption
  DEF RecordsAreDigested, Digested, Recorded, SignerTypeOK, Envelope
<1>3. LiveRecordIsNewest'
  <2> SUFFICES ASSUME NEW t \in Stores, ~regressed'[t]
               PROVE  /\ OwnRecord(t)' => last'[t] = Recorded(newest[t])
                      /\ \A o \in issued[t] : o.n <= last'[t].n
    BY <1>0 DEF LiveRecordIsNewest
  <2>0. /\ OwnRecord(t) => last[t] = Recorded(newest[t])
        /\ \A o \in issued[t] : o.n \in Nat /\ o.n <= last[t].n
    BY <1>0 DEF LiveRecordIsNewest, SignerTypeOK, Envelope
  <2>1. CASE last'[t] = last[t]
    BY <1>0, <2>0, <2>1 DEF OwnRecord
  <2>2. CASE t = s /\ IsFresh(last[s], e) /\ last'[s] = Recorded(e)
    <3>1. e.n \in Nat \ {0} /\ last[s].n \in Nat /\ last[s].n <= e.n
      BY <2>2 DEF IsFresh, SignerTypeOK, SeqRecord, Envelope
    <3>2. \A o \in issued[t] : o.n <= last'[t].n
      BY <2>0, <2>2, <3>1 DEF Recorded
    <3>3. ASSUME OwnRecord(t)'
          PROVE  e \in issued[s]
      <4>1. PICK o \in issued[s] : Recorded(e) = Recorded(o)
        BY <1>0, <2>2, <3>1, <3>3 DEF OwnRecord, Recorded, NoRecord
      <4>2. o \in Envelope
        BY DEF SignerTypeOK
      <4>3. QED
        BY <4>1, <4>2 DEF Recorded, Envelope
    <3>4. ASSUME OwnRecord(t)'
          PROVE  last'[t] = Recorded(newest[t])
      BY <1>0, <2>2, <3>3, <3>4, CheckIsExact
    <3>5. QED
      BY <3>2, <3>4
  <2>3. QED
    BY <1>1, <2>1, <2>2 DEF SignerTypeOK
<1>4. NumbersAreUnique'
  BY <1>0 DEF NumbersAreUnique
<1>5. /\ reply'.op = "verify" /\ reply'.store = s /\ reply'.env = e
      /\ e \in issued[s] =>
           /\ reply'.verdict = "valid" <=> IsFresh(last[s], e)
           /\ last'[s] = IF IsFresh(last[s], e) THEN Recorded(e) ELSE last[s]
  BY DEF HandleVerify, VerifyBadSig, VerifyStale, VerifyValid, VerifyReply,
         Authentic, SignerTypeOK
<1>6. ASSUME e \in issued[s]
      PROVE  /\ ~regressed[s] =>
                  (reply'.verdict = "valid" <=> e = newest[s] /\ OwnRecord(s)')
             /\ OwnRecord(s)' /\ (\A o \in issued[s] \ {e} : o.n < e.n) =>
                  reply'.verdict = "valid"
  <2>1. CASE IsFresh(last[s], e)
    <3>1. OwnRecord(s)' /\ reply'.verdict = "valid"
      BY <1>0, <1>5, <1>6, <2>1 DEF OwnRecord
    <3>2. QED
      BY <1>6, <2>1, <3>1, CheckIsExact
  <2>2. CASE ~IsFresh(last[s], e)
    <3>1. (OwnRecord(s)' <=> OwnRecord(s)) /\ reply'.verdict # "valid"
      BY <1>0, <1>5, <1>6, <2>2 DEF OwnRecord
    <3>2. QED
      BY <1>6, <2>2, <3>1, CheckIsExact
  <2>3. QED
    BY <2>1, <2>2
<1>7. FreshIffNewest' /\ HighestIsAccepted'
  BY <1>0, <1>5, <1>6 DEF FreshIffNewest, HighestIsAccepted, IsVerifyOf
<1>8. QED
  BY <1>2, <1>3, <1>4, <1>7

(* Neither a restart of the daemon nor the loss of its seq file breaks the
   invariant: a counter that came back lower is marked as regressed. *)
LEMMA FaultKeepsInv ==
  ASSUME SignerInv, SignerTypeOK', DaemonRestart \/ SeqFileLost
  PROVE  SignerInv'
<1> USE DEF SignerInv
<1>1. CASE DaemonRestart
  BY <1>1
  DEF DaemonRestart, RecordsAreDigested, Digested, OwnRecord, LiveRecordIsNewest,
      NumbersAreUnique, FreshIffNewest, HighestIsAccepted, IsVerifyOf, NoReply,
      SignerTypeOK
<1>2. CASE SeqFileLost
  BY <1>2
  DEF SeqFileLost, NoRecord, RecordsAreDigested, Digested, LiveRecordIsNewest, OwnRecord,
      NumbersAreUnique, FreshIffNewest, HighestIsAccepted, IsVerifyOf,
      SignerTypeOK
<1>3. QED
  BY <1>1, <1>2

-----------------------------------------------------------------------------
(* What the callers of the signer need: an envelope that is accepted now, and also
   after a restart of the daemon that brings the saved counters back. *)

Current(s, e) ==
  e \in issued[s] /\ IsFresh(last[s], e) /\ IsFresh(seqFile[s], e)

SeqFileIsBehind(s) == seqFile[s].n <= last[s].n

(* A signature is fresh for the record that signed it and for the saved one. *)
LEMMA SignIsCurrent ==
  ASSUME SignerTypeOK, NEW s \in Stores, SeqFileIsBehind(s), NEW p \in Payloads, HandleSign(s, p)
  PROVE  SeqFileIsBehind(s)' /\ Current(s, reply.env)'
<1> USE SignerAssumption
<1>1. /\ last[s] \in SeqRecord /\ seqFile[s] \in SeqRecord
      /\ s \in DOMAIN last /\ s \in DOMAIN seqFile /\ s \in DOMAIN issued
  BY DEF SignerTypeOK
<1> DEFINE rec == Bump(last[s], p)
           env == [n |-> rec.n, payload |-> p]
<1>2. /\ last' = [last EXCEPT ![s] = rec]
      /\ seqFile' = last' \/ seqFile' = seqFile
      /\ issued' = [issued EXCEPT ![s] = issued[s] \cup {env}]
      /\ reply'.env = env
  BY DEF HandleSign, Persist, SignReply
<1>3. /\ last'[s] = rec /\ env \in issued'[s]
      /\ seqFile'[s] \in {rec, seqFile[s]}
  BY <1>1, <1>2
<1>4. last[s].n \in Nat /\ seqFile[s].n \in Nat /\ seqFile[s].n <= last[s].n
  BY <1>1 DEF SeqRecord, SeqFileIsBehind
<1>5. rec.n = last[s].n + 1 /\ rec.digest = p /\ env.n = rec.n /\ env.payload = p
  BY DEF Bump
<1> HIDE DEF rec, env
<1>6. SeqFileIsBehind(s)'
  BY <1>3, <1>4, <1>5 DEF SeqFileIsBehind
<1>7. IsFresh(last'[s], env) /\ IsFresh(seqFile'[s], env)
  BY <1>3, <1>4, <1>5 DEF IsFresh
<1> QED BY <1>2, <1>3, <1>6, <1>7 DEF Current

(* The signer accepts a fresh file, and finds it fresh thereafter. *)
LEMMA VerifyKeepsCurrent ==
  ASSUME SignerTypeOK, NEW s \in Stores, SeqFileIsBehind(s), NEW e \in Envelope, HandleVerify(s, e)
  PROVE  SeqFileIsBehind(s)' /\ (Current(s, e) => Current(s, e)' /\ reply'.verdict = "valid")
<1> USE SignerAssumption
<1>1. /\ last[s] \in SeqRecord /\ seqFile[s] \in SeqRecord
      /\ s \in DOMAIN last /\ e.n \in Nat
      /\ last[s].n \in Nat /\ seqFile[s].n \in Nat /\ seqFile[s].n <= last[s].n
  BY DEF SignerTypeOK, SeqRecord, Envelope, SeqFileIsBehind
<1>2. issued' = issued
  BY DEF HandleVerify
<1>3. CASE VerifyValid(s, e)
  <2>1. /\ last' = [last EXCEPT ![s] = Recorded(e)] /\ IsFresh(last[s], e)
        /\ seqFile' = last' \/ seqFile' = seqFile
        /\ reply'.verdict = "valid"
    BY <1>3 DEF VerifyValid, Persist, VerifyReply
  <2>2. last'[s] = Recorded(e) /\ seqFile'[s] \in {Recorded(e), seqFile[s]}
    BY <1>1, <2>1
  <2>3. Recorded(e).n = e.n /\ IsFresh(Recorded(e), e)
    BY DEF Recorded, IsFresh
  <2>4. SeqFileIsBehind(s)'
    BY <1>1, <2>1, <2>2, <2>3 DEF SeqFileIsBehind, IsFresh
  <2>5. Current(s, e) => Current(s, e)'
    BY <1>2, <2>2, <2>3 DEF Current
  <2> QED BY <2>1, <2>4, <2>5
<1>4. CASE VerifyBadSig(s, e) \/ VerifyStale(s, e)
  <2>1. last' = last /\ seqFile' = seqFile
    BY <1>4 DEF VerifyBadSig, VerifyStale
  <2>2. ~Current(s, e)
    BY <1>4 DEF VerifyBadSig, VerifyStale, Current, Authentic
  <2> QED BY <2>1, <2>2 DEF SeqFileIsBehind
<1> QED BY <1>3, <1>4 DEF HandleVerify

(* A file that is fresh for both records survives whatever becomes of them. *)
LEMMA FaultKeepsCurrent ==
  ASSUME SignerTypeOK, NEW s \in Stores, SeqFileIsBehind(s), DaemonRestart \/ SeqFileLost
  PROVE  SeqFileIsBehind(s)' /\ \A e \in Envelope : Current(s, e) => Current(s, e)'
<1> USE SignerAssumption
<1>1. /\ last[s].n \in Nat /\ seqFile[s].n \in Nat /\ seqFile[s].n <= last[s].n
  BY DEF SignerTypeOK, SeqRecord, SeqFileIsBehind
<1>2. CASE DaemonRestart
  <2>1. last' = seqFile /\ seqFile' = seqFile /\ issued' = issued
    BY <1>2 DEF DaemonRestart
  <2> QED BY <1>1, <2>1 DEF SeqFileIsBehind, Current
<1>3. CASE SeqFileLost
  <2>1. last' = last /\ seqFile'[s] = NoRecord /\ issued' = issued
    BY <1>3 DEF SeqFileLost
  <2>2. NoRecord.n = 0 /\ \A e \in Envelope : IsFresh(NoRecord, e)
    BY DEF NoRecord, IsFresh, Envelope
  <2> QED BY <1>1, <2>1, <2>2 DEF SeqFileIsBehind, Current
<1> QED BY <1>2, <1>3

-----------------------------------------------------------------------------
(* A daemon that is asked for one store only: then its record is always its own,
   for there is no other store whose envelope could be accepted in its place. *)

UsedOnlyFor(s) ==
  \/ \E p \in Payloads : HandleSign(s, p)
  \/ \E e \in Envelope : HandleVerify(s, e)
  \/ DaemonRestart
  \/ SeqFileLost

Own(rec, s) == rec = NoRecord \/ \E e \in issued[s] : rec = Recorded(e)

Alone(s) ==
  /\ \A t \in Stores : t # s => issued[t] = {}
  /\ Own(last[s], s)
  /\ Own(seqFile[s], s)

LEMMA AloneStep ==
  ASSUME SignerTypeOK, NEW s \in Stores, Alone(s), [UsedOnlyFor(s)]_signerVars
  PROVE  Alone(s)'
<1> USE DEF SignerTypeOK
<1>1. ASSUME NEW p \in Payloads, HandleSign(s, p)
      PROVE  Alone(s)'
  <2> DEFINE env == [n |-> last[s].n + 1, payload |-> p]
  <2>1. /\ issued'[s] = issued[s] \cup {env}
        /\ \A t \in Stores : t # s => issued'[t] = issued[t]
        /\ last'[s] = Recorded(env)
        /\ seqFile'[s] \in {last'[s], seqFile[s]}
    BY <1>1 DEF HandleSign, Bump, Recorded, Persist
  <2>2. QED
    BY <2>1 DEF Alone, Own
<1>2. ASSUME NEW e \in Envelope, HandleVerify(s, e)
      PROVE  Alone(s)'
  <2>0. issued' = issued
    BY <1>2 DEF HandleVerify
  <2>1. /\ seqFile'[s] \in {last'[s], seqFile[s]}
        /\ last'[s] = last[s] \/ (Authentic(e) /\ last'[s] = Recorded(e))
    <3>1. CASE VerifyValid(s, e)
      <4>1. /\ Authentic(e) /\ last' = [last EXCEPT ![s] = Recorded(e)]
            /\ seqFile' = last' \/ seqFile' = seqFile
        BY <3>1 DEF VerifyValid, Persist
      <4>2. QED
        BY <4>1
    <3>2. CASE VerifyBadSig(s, e) \/ VerifyStale(s, e)
      BY <3>2 DEF VerifyBadSig, VerifyStale
    <3>3. QED
      BY <1>2, <3>1, <3>2 DEF HandleVerify
  <2>2. Authentic(e) => e \in issued[s]
    BY DEF Authentic, Alone
  <2>3. QED
    BY <2>0, <2>1, <2>2 DEF Alone, Own
<1>3. CASE DaemonRestart
  BY <1>3 DEF DaemonRestart, Alone, Own
<1>4. CASE SeqFileLost
  BY <1>4 DEF SeqFileLost, Alone, Own
<1>5. CASE UNCHANGED signerVars
  BY <1>5 DEF signerVars, Alone, Own
<1>6. QED
  BY <1>1, <1>2, <1>3, <1>4, <1>5 DEF UsedOnlyFor

-----------------------------------------------------------------------------
(* The inductive invariant holds in every reachable state. *)
THEOREM SignerInvariant == SignerSpec => []SignerInv
<1>1. SignerInit => SignerInv
  BY SignerAssumption
  DEF SignerInit, SignerInv, SignerTypeOK, SeqRecord, NoRecord, NoEnvelope,
      NoReply, Reply, RecordsAreDigested, Digested, OwnRecord, LiveRecordIsNewest, Recorded,
      NumbersAreUnique, FreshIffNewest, HighestIsAccepted, IsVerifyOf
<1>2. SignerInv /\ [SignerNext]_signerVars => SignerInv'
  <2> SUFFICES ASSUME SignerInv, [SignerNext]_signerVars PROVE SignerInv'
    OBVIOUS
  <2>1. ASSUME NEW s \in Stores, NEW p \in Payloads, HandleSign(s, p)
        PROVE  SignerInv'
    BY <2>1, SignTypes, SignKeepsInv DEF SignerInv
  <2>2. ASSUME NEW s \in Stores, NEW n \in 1..MaxSeq, NEW p \in Payloads,
               HandleVerify(s, [n |-> n, payload |-> p])
        PROVE  SignerInv'
    <3>1. [n |-> n, payload |-> p] \in Envelope
      BY SignerAssumption DEF Envelope
    <3>2. QED
      BY <2>2, <3>1, VerifyTypes, VerifyKeepsInv DEF SignerInv
  <2>3. CASE DaemonRestart \/ SeqFileLost
    BY <2>3, FaultTypes, FaultKeepsInv DEF SignerInv
  <2>4. CASE UNCHANGED signerVars
    BY <2>4
    DEF signerVars, SignerInv, SignerTypeOK, RecordsAreDigested, Digested, OwnRecord,
        LiveRecordIsNewest, NumbersAreUnique, FreshIffNewest,
        HighestIsAccepted, IsVerifyOf
  <2>5. QED
    BY <2>1, <2>2, <2>3, <2>4 DEF SignerNext
<1>3. QED
  BY <1>1, <1>2, PTL DEF SignerSpec

(* Type correctness of the signer. *)
THEOREM SignerTypeCorrect == SignerSpec => []SignerTypeOK
  BY SignerInvariant, PTL DEF SignerInv

(* verify accepts the newest envelope of a store and refuses every older one, for
   as long as no restart has lost a counter (createMemorySeqStore). *)
THEOREM SignerIsFresh == SignerSpec => []FreshIffNewest
  BY SignerInvariant, PTL DEF SignerInv

(* The "crash recovery" branch: the highest-numbered envelope is never refused,
   whatever writes of the seq file were lost. *)
THEOREM SignerRecovers == SignerSpec => []HighestIsAccepted
  BY SignerInvariant, PTL DEF SignerInv

(* No two payloads of a store share a number before a counter is lost. *)
THEOREM SignerNumbersUnique == SignerSpec => []NumbersAreUnique
  BY SignerInvariant, PTL DEF SignerInv
=============================================================================
