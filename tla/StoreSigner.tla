------------------------------ MODULE StoreSigner ------------------------------
(***************************************************************************)
(* The store-signer daemon (lib/store-signer.mjs): a separate process that  *)
(* signs the bridge's state files and decides whether an envelope read back *)
(* is fresh.  Per store it keeps the sequence number and the payload digest *)
(* of the last envelope it signed or accepted, in memory and in a seq file. *)
(*                                                                         *)
(* A payload stands for itself and for its SHA-256 digest.  One key signs   *)
(* every store and the MAC covers the number, the time and the payload but  *)
(* no store id: it is valid exactly when the daemon issued the envelope, for *)
(* whichever store.                                                         *)
(***************************************************************************)
EXTENDS Naturals

CONSTANTS
  Stores,     (* store ids: "pins", "ownership" (inferStoreId)              *)
  Payloads,   (* store contents                                             *)
  NoDigest,   (* the digest of a store that was never signed (null)         *)
  MaxSeq,     (* bound on the sequence numbers of a run                     *)
  MaxFaults   (* bound on failed or lost writes of the seq file             *)

ASSUME SignerAssumption ==
  /\ NoDigest \notin Payloads
  /\ MaxSeq \in Nat
  /\ MaxFaults \in Nat

VARIABLES
  last,       (* createMemorySeqStore: the live (n, digest) of every store  *)
  seqFile,    (* what the seq file holds                                    *)
  faults,     (* seq-file writes lost so far                                *)
  reply,      (* the last answer sent on a connection                       *)
  issued,     (* history: every envelope signed, by store                   *)
  newest,     (* history: the envelope signed last, by store                *)
  regressed   (* history: a restart came back with an older (n, digest)     *)

signerVars == <<last, seqFile, faults, reply, issued, newest, regressed>>

SeqRecord == [n : Nat, digest : Payloads \cup {NoDigest}]
Envelope  == [n : Nat \ {0}, payload : Payloads]
Verdict   == {"valid", "stale", "bad_sig"}

NoRecord   == [n |-> 0, digest |-> NoDigest]
NoEnvelope == [n |-> 0, payload |-> NoDigest]
NoReply    == [op |-> "none"]

VerifyReply(s, e, v) == [op |-> "verify", store |-> s, env |-> e, verdict |-> v]
SignReply(s, e)      == [op |-> "sign", store |-> s, env |-> e]

-----------------------------------------------------------------------------

SignerInit ==
  /\ last = [s \in Stores |-> NoRecord]
  /\ seqFile = [s \in Stores |-> NoRecord]
  /\ faults = 0
  /\ reply = NoReply
  /\ issued = [s \in Stores |-> {}]
  /\ newest = [s \in Stores |-> NoEnvelope]
  /\ regressed = [s \in Stores |-> FALSE]

(* A bug bump could have: it numbers a store once and for all. *)
BumpOnce(rec, p) == [n |-> IF rec.n = 0 THEN 1 ELSE rec.n, digest |-> p]

(* bump: the next number, whatever became of the envelopes before it. *)
Bump(rec, p) == [n |-> rec.n + 1, digest |-> p]

(* Bugs check could have: off by one, or no recovery of a lost counter. *)
IsFreshOffByOne(rec, e) == e.n + 1 >= rec.n
IsFreshNoRecovery(rec, e) == e.n = rec.n /\ rec.digest \in {NoDigest, e.payload}

(* check: an older number is stale; the same number must carry the digest on
   record, if there is one; a larger number is accepted ("crash recovery"). *)
IsFresh(rec, e) ==
  \/ e.n > rec.n
  \/ e.n = rec.n /\ rec.digest \in {NoDigest, e.payload}

(* What check leaves on record for an envelope it accepts. *)
Recorded(e) == [n |-> e.n, digest |-> e.payload]

(* persist: the whole snapshot goes to disk, or the failure is swallowed and
   the caller still sees success. *)
Persist ==
  \/ seqFile' = last' /\ UNCHANGED faults
  \/ /\ faults < MaxFaults
     /\ faults' = faults + 1
     /\ UNCHANGED seqFile

HandleSign(s, p) ==
  LET rec == Bump(last[s], p)
      env == [n |-> rec.n, payload |-> p]
  IN  /\ last[s].n < MaxSeq
      /\ last' = [last EXCEPT ![s] = rec]
      /\ Persist
      /\ reply' = SignReply(s, env)
      /\ issued' = [issued EXCEPT ![s] = @ \cup {env}]
      /\ newest' = [newest EXCEPT ![s] = env]
      /\ UNCHANGED regressed

(* hmacVerify over envelopeMacInput: the store is not part of the input. *)
Authentic(e) == \E t \in Stores : e \in issued[t]

VerifyBadSig(s, e) ==
  /\ ~Authentic(e)
  /\ reply' = VerifyReply(s, e, "bad_sig")
  /\ UNCHANGED <<last, seqFile, faults>>

VerifyStale(s, e) ==
  /\ Authentic(e)
  /\ ~IsFresh(last[s], e)
  /\ reply' = VerifyReply(s, e, "stale")
  /\ UNCHANGED <<last, seqFile, faults>>

VerifyValid(s, e) ==
  /\ Authentic(e)
  /\ IsFresh(last[s], e)
  /\ last' = [last EXCEPT ![s] = Recorded(e)]
  /\ Persist
  /\ reply' = VerifyReply(s, e, "valid")

HandleVerify(s, e) ==
  /\ VerifyBadSig(s, e) \/ VerifyStale(s, e) \/ VerifyValid(s, e)
  /\ UNCHANGED <<issued, newest, regressed>>

(* The daemon dies and starts again: createSignerDaemon loads the seq file. *)
DaemonRestart ==
  /\ last' = seqFile
  /\ regressed' = [s \in Stores |-> regressed[s] \/ seqFile[s] # last[s]]
  /\ reply' = NoReply
  /\ UNCHANGED <<seqFile, faults, issued, newest>>

(* The seq file disappears or is unreadable: loadSeqFile then yields {}. *)
SeqFileLost ==
  /\ faults < MaxFaults
  /\ faults' = faults + 1
  /\ seqFile' = [s \in Stores |-> NoRecord]
  /\ UNCHANGED <<last, reply, issued, newest, regressed>>

SignerNext ==
  \/ \E s \in Stores, p \in Payloads : HandleSign(s, p)
  \/ \E s \in Stores, n \in 1..MaxSeq, p \in Payloads :
       HandleVerify(s, [n |-> n, payload |-> p])
  \/ DaemonRestart
  \/ SeqFileLost

SignerSpec == SignerInit /\ [][SignerNext]_signerVars

-----------------------------------------------------------------------------

Reply ==
  {NoReply}
    \cup [op : {"sign"}, store : Stores, env : Envelope]
    \cup [op : {"verify"}, store : Stores, env : Envelope, verdict : Verdict]

(* Every variable of the daemon stays in its type. *)
SignerTypeOK ==
  /\ last \in [Stores -> SeqRecord]
  /\ seqFile \in [Stores -> SeqRecord]
  /\ faults \in 0..MaxFaults
  /\ reply \in Reply
  /\ issued \in [Stores -> SUBSET Envelope]
  /\ newest \in [Stores -> Envelope \cup {NoEnvelope}]
  /\ regressed \in [Stores -> BOOLEAN]

IsVerifyOf(s) == reply.op = "verify" /\ reply.store = s

(* The live record of a store is blank or that of an envelope of its own: no
   envelope of another store has been accepted in its place. *)
OwnRecord(s) == last[s] = NoRecord \/ \E e \in issued[s] : last[s] = Recorded(e)

(* bump and check together: as long as no restart has lost a counter, an
   envelope of a store is accepted exactly when it is the one signed last and
   no other store's stands on record in its place.  Neither an older version of
   a file nor a concurrent one ever passes. *)
FreshIffNewest ==
  \A s \in Stores :
    IsVerifyOf(s) /\ ~regressed[s] /\ reply.env \in issued[s] =>
      (reply.verdict = "valid" <=> reply.env = newest[s] /\ OwnRecord(s))

(* The "crash recovery" branch of check: whatever seq-file writes failed, and
   whatever restarts followed, an envelope numbered above every other issued
   one of its store is accepted, unless another store's is on record. *)
HighestIsAccepted ==
  \A s \in Stores :
    /\ IsVerifyOf(s)
    /\ reply.env \in issued[s]
    /\ \A o \in issued[s] \ {reply.env} : o.n < reply.env.n
    /\ OwnRecord(s)
    => reply.verdict = "valid"

(* Two payloads of a store are never signed under one number, unless a restart
   has lost the counter: only then may two files claim the same freshness. *)
NumbersAreUnique ==
  \A s \in Stores :
    ~regressed[s] => \A a, b \in issued[s] : a.n = b.n => a = b
=============================================================================
