------------------------- MODULE InboundCreditProofs -------------------------
(***************************************************************************)
(* Proofs about InboundCredit for any number of payments, notifications,   *)
(* handlers, resume tasks and top-ups, under every fault of the model.     *)
(***************************************************************************)
EXTENDS InboundBacking, FiniteSetTheorems, TLAPS

LEMMA AppendFacts ==
    ASSUME NEW S, NEW s \in Seq(S), NEW e \in S
    PROVE  /\ Append(s, e) \in Seq(S)
           /\ Len(Append(s, e)) = Len(s) + 1
           /\ DOMAIN Append(s, e) = DOMAIN s \cup {Len(s) + 1}
           /\ \A i \in DOMAIN s : Append(s, e)[i] = s[i]
           /\ Append(s, e)[Len(s) + 1] = e
    OBVIOUS

-----------------------------------------------------------------------------
(* The types of the parts of the state, and of the updates made to them.   *)

LedgerTypes ==
    /\ events \in [Hook -> Status]
    /\ pendings \in Seq(Pending)
    /\ credits \in Seq(Credit)
    /\ available \in Nat

CircleTypes ==
    /\ wallet \in Nat
    /\ gateway \in Nat
    /\ gas \in BOOLEAN
    /\ intents \in [Intent -> TopUp]

OtherTypes ==
    /\ arrived \subseteq Tx
    /\ bound \in BOOLEAN
    /\ acked \subseteq Hook
    /\ loop \in Handler \cup Task \cup {None}

LEMMA TypeParts ==
    TypeOK <=> /\ LedgerTypes /\ CircleTypes /\ OtherTypes
               /\ req \in [Handler -> Request]
               /\ job \in [Task -> Resume]
    BY DEF TypeOK, LedgerTypes, CircleTypes, OtherTypes

LEMMA NullTypes ==
    NoTopUp \in TopUp /\ NoRequest \in Request /\ NoResume \in Resume
    BY DEF NoTopUp, NoRequest, NoResume, TopUp, Request, Resume, Status

(* What remains true of a request or a resume task while the entries grow. *)
Grow ==
    /\ arrived \subseteq arrived'
    /\ DOMAIN pendings \subseteq DOMAIN pendings'
    /\ Len(pendings) <= Len(pendings')
    /\ \A i \in DOMAIN pendings : pendings'[i] = pendings[i]
    /\ \A t \in Tx : CreditedTx(t) => CreditedTx(t)'

LEMMA EntryKept ==
    ASSUME TypeOK, Grow, NEW i \in DOMAIN pendings
    PROVE  /\ i \in DOMAIN pendings' /\ pendings'[i].tx = pendings[i].tx
           /\ CreditedTx(pendings[i].tx) => CreditedTx(pendings[i].tx)'
    <1>1. pendings[i] \in Pending
        BY DEF TypeOK
    <1>2. pendings[i].tx \in Tx
        BY <1>1 DEF Pending
    <1>3. i \in DOMAIN pendings' /\ pendings'[i] = pendings[i]
        BY DEF Grow
    <1>4. CreditedTx(pendings[i].tx) => \E c \in DOMAIN credits' : credits'[c].tx = pendings[i].tx
        BY <1>2 DEF Grow, CreditedTx
    <1> QED
        BY <1>3, <1>4 DEF CreditedTx

LEMMA RequestKept ==
    ASSUME TypeOK, Grow, LedgerTypes', NEW r \in Request, RequestAgrees(r)
    PROVE  RequestAgrees(r)'
    <1>1. /\ DOMAIN pendings = 1..Len(pendings) /\ Len(pendings) \in Nat
          /\ DOMAIN pendings' = 1..Len(pendings') /\ Len(pendings') \in Nat
        BY DEF TypeOK, LedgerTypes
    <1>2. /\ r.pc # "idle" => r.note \in Hook
          /\ r.note \in Note => TxOf[r.note] \in arrived'
          /\ r.pc \notin {"idle", "hook", "topup_complete", "topup_known"} => r.note \in Usable
          /\ r.pc \in {"deposit", "deposited", "gas_pending", "crediting", "marking"}
                => r.entry # 0
        BY DEF RequestAgrees, Grow
    <1>3. r.entry \in 0..Len(pendings')
        BY <1>1 DEF RequestAgrees, Grow
    <1>4. r.entry # 0 => r.note \in Usable /\ pendings'[r.entry].tx = TxOf[r.note]
        <2> SUFFICES ASSUME r.entry # 0
                     PROVE  r.note \in Usable /\ pendings'[r.entry].tx = TxOf[r.note]
            OBVIOUS
        <2>1. r.entry \in DOMAIN pendings
            BY <1>1 DEF RequestAgrees
        <2> QED
            BY <2>1, EntryKept DEF RequestAgrees
    <1>5. r.batch \subseteq DOMAIN pendings'
        BY DEF RequestAgrees, Grow
    <1>6. r.pc = "marking" => /\ r.current \in DOMAIN pendings'
                              /\ CreditedTx(pendings[r.current].tx)'
        BY EntryKept DEF RequestAgrees
    <1> QED
        BY <1>2, <1>3, <1>4, <1>5, <1>6 DEF RequestAgrees

LEMMA ResumeKept ==
    ASSUME TypeOK, Grow, NEW r \in Resume, ResumeAgrees(r)
    PROVE  ResumeAgrees(r)'
    <1>1. r.pc = "marking" => /\ r.current \in DOMAIN pendings'
                              /\ CreditedTx(pendings[r.current].tx)'
        BY EntryKept DEF ResumeAgrees
    <1> QED
        BY <1>1 DEF ResumeAgrees

(* A step that moves one request keeps what all requests remember.         *)
LEMMA RequestsKept ==
    ASSUME InboundInv, Grow, LedgerTypes', NEW h \in Handler, NEW r,
           Goto(h, r), RequestAgrees(r)'
    PROVE  (\A g \in Handler : RequestAgrees(req[g]))'
    <1> SUFFICES ASSUME NEW g \in Handler PROVE RequestAgrees(req[g])'
        OBVIOUS
    <1>1. req'[g] = IF g = h THEN r ELSE req[g]
        BY DEF InboundInv, TypeOK, Goto
    <1>2. CASE g = h
        BY <1>1, <1>2 DEF RequestAgrees
    <1>3. CASE g # h
        <2>1. req[g] \in Request /\ RequestAgrees(req[g])
            BY DEF InboundInv, TypeOK
        <2>2. \A q \in Request : RequestAgrees(q) => RequestAgrees(q)'
            BY RequestKept DEF InboundInv
        <2> QED
            BY <1>1, <1>3, <2>1, <2>2 DEF RequestAgrees
    <1> QED
        BY <1>2, <1>3

LEMMA ResumesKept ==
    ASSUME InboundInv, Grow, NEW k \in Task, NEW r,
           Become(k, r), ResumeAgrees(r)'
    PROVE  (\A j \in Task : ResumeAgrees(job[j]))'
    <1> SUFFICES ASSUME NEW j \in Task PROVE ResumeAgrees(job[j])'
        OBVIOUS
    <1>1. job'[j] = IF j = k THEN r ELSE job[j]
        BY DEF InboundInv, TypeOK, Become
    <1>2. CASE j = k
        BY <1>1, <1>2 DEF ResumeAgrees
    <1>3. CASE j # k
        <2>1. job[j] \in Resume /\ ResumeAgrees(job[j])
            BY DEF InboundInv, TypeOK
        <2>2. \A q \in Resume : ResumeAgrees(q) => ResumeAgrees(q)'
            BY ResumeKept DEF InboundInv
        <2> QED
            BY <1>1, <1>3, <2>1, <2>2 DEF ResumeAgrees
    <1> QED
        BY <1>2, <1>3

LEMMA RequestsRest ==
    ASSUME InboundInv, Grow, LedgerTypes', UNCHANGED req
    PROVE  (\A h \in Handler : RequestAgrees(req[h]))'
    <1>1. \A h \in Handler : req[h] \in Request /\ RequestAgrees(req[h])
        BY DEF InboundInv, TypeOK
    <1>2. \A q \in Request : RequestAgrees(q) => RequestAgrees(q)'
        BY RequestKept DEF InboundInv
    <1> QED
        BY <1>1, <1>2 DEF RequestAgrees

LEMMA ResumesRest ==
    ASSUME InboundInv, Grow, UNCHANGED job
    PROVE  (\A k \in Task : ResumeAgrees(job[k]))'
    <1>1. \A k \in Task : job[k] \in Resume /\ ResumeAgrees(job[k])
        BY DEF InboundInv, TypeOK
    <1>2. \A q \in Resume : ResumeAgrees(q) => ResumeAgrees(q)'
        BY ResumeKept DEF InboundInv
    <1> QED
        BY <1>1, <1>2 DEF ResumeAgrees

-----------------------------------------------------------------------------
(* What each way of writing the entries preserves.                         *)

Books == LedgerTypes /\ EntriesAgree /\ CreditOncePerPending /\ ProcessedMeansCredited

(* A request moves on: the books and the other types are enough.           *)
LEMMA RequestMoves ==
    ASSUME InboundInv, Grow, Books', CircleTypes', OtherTypes', UNCHANGED job,
           NEW h \in Handler, NEW r \in Request, Goto(h, r), RequestAgrees(r)'
    PROVE  InboundInv'
    <1>1. req' \in [Handler -> Request]
        BY DEF InboundInv, TypeOK, Goto
    <1>2. job' \in [Task -> Resume]
        BY DEF InboundInv, TypeOK
    <1>3. TypeOK'
        BY <1>1, <1>2 DEF Books, TypeOK, LedgerTypes, CircleTypes, OtherTypes
    <1> QED
        BY <1>3, RequestsKept, ResumesRest DEF Books, InboundInv

LEMMA ResumeMoves ==
    ASSUME InboundInv, Grow, Books', CircleTypes', OtherTypes', UNCHANGED req,
           NEW k \in Task, NEW r \in Resume, Become(k, r), ResumeAgrees(r)'
    PROVE  InboundInv'
    <1>1. req' \in [Handler -> Request]
        BY DEF InboundInv, TypeOK
    <1>2. job' \in [Task -> Resume]
        BY DEF InboundInv, TypeOK, Become
    <1>3. TypeOK'
        BY <1>1, <1>2 DEF Books, TypeOK, LedgerTypes, CircleTypes, OtherTypes
    <1> QED
        BY <1>3, RequestsRest, ResumesKept DEF Books, InboundInv

LEMMA NobodyMoves ==
    ASSUME InboundInv, Grow, Books', CircleTypes', OtherTypes', UNCHANGED <<req, job>>
    PROVE  InboundInv'
    <1>1. req' \in [Handler -> Request] /\ job' \in [Task -> Resume]
        BY DEF InboundInv, TypeOK
    <1>2. TypeOK'
        BY <1>1 DEF Books, TypeOK, LedgerTypes, CircleTypes, OtherTypes
    <1> QED
        BY <1>2, RequestsRest, ResumesRest DEF Books, InboundInv

LEMMA BooksClosed ==
    ASSUME InboundInv, UNCHANGED ledgerVars, arrived \subseteq arrived'
    PROVE  Grow /\ Books'
    <1>1. Grow
        BY DEF Grow, CreditedTx, ledgerVars
    <1>2. LedgerTypes'
        BY TypeParts DEF InboundInv, LedgerTypes, ledgerVars
    <1>3. EntriesAgree'
        BY DEF InboundInv, EntriesAgree, ledgerVars
    <1>4. CreditOncePerPending' /\ ProcessedMeansCredited'
        BY DEF InboundInv, CreditOncePerPending, ProcessedMeansCredited, CreditedTx, ledgerVars
    <1> QED
        BY <1>1, <1>2, <1>3, <1>4 DEF Books

(* An event may be saved "processed" only for a payment that is credited.  *)
LEMMA EventSaved ==
    ASSUME InboundInv, NEW n \in Hook, NEW s \in Status, Save(n, s),
           UNCHANGED <<arrived, pendings, credits, available>>,
           s = "processed" /\ n \in Note \ Legacy => CreditedTx(TxOf[n])
    PROVE  Grow /\ Books'
    <1>1. Grow
        BY DEF Grow, CreditedTx
    <1>2. events \in [Hook -> Status]
        BY DEF InboundInv, TypeOK
    <1>3. LedgerTypes'
        BY <1>2, TypeParts DEF InboundInv, LedgerTypes, Save
    <1>4. EntriesAgree' /\ CreditOncePerPending'
        BY DEF InboundInv, EntriesAgree, CreditOncePerPending
    <1>5. ProcessedMeansCredited'
        BY <1>2 DEF InboundInv, ProcessedMeansCredited, CreditedTx, Save, Hook
    <1> QED
        BY <1>1, <1>3, <1>4, <1>5 DEF Books

LEMMA PendingEnsured ==
    ASSUME InboundInv, NEW n \in Usable, TxOf[n] \in arrived,
           NEW p \in 0..Len(pendings), p # 0 => pendings[p].tx = TxOf[n],
           EnsurePending(n, p), UNCHANGED <<arrived, events, credits, available>>
    PROVE  /\ Grow /\ Books'
           /\ Ensured(p) \in 1..Len(pendings')
           /\ pendings'[Ensured(p)].tx = TxOf[n]
    <1>1. pendings \in Seq(Pending) /\ credits \in Seq(Credit)
        BY DEF InboundInv, TypeOK
    <1>2. n \in Note /\ TxOf[n] \in Tx
        BY InboundAssumption
    <1>3. CASE p # 0
        <2>1. UNCHANGED pendings /\ Ensured(p) = p
            BY <1>3 DEF EnsurePending, Ensured
        <2>2. Grow /\ Books'
            BY <2>1, BooksClosed DEF ledgerVars
        <2> QED
            BY <1>1, <1>3, <2>1, <2>2
    <1>4. CASE p = 0
        <2> DEFINE e == [tx |-> TxOf[n], note |-> n]
        <2>1. e \in Pending
            BY <1>2 DEF Pending
        <2>2. /\ pendings' = Append(pendings, e)
              /\ Ensured(p) = Len(pendings) + 1
            BY <1>4 DEF EnsurePending, Ensured
        <2> HIDE DEF e
        <2>3. /\ pendings' \in Seq(Pending)
              /\ Len(pendings') = Len(pendings) + 1
              /\ DOMAIN pendings' = DOMAIN pendings \cup {Len(pendings) + 1}
              /\ \A i \in DOMAIN pendings : pendings'[i] = pendings[i]
              /\ pendings'[Len(pendings) + 1] = e
            BY <1>1, <2>1, <2>2, AppendFacts
        <2>4. e.tx = TxOf[n] /\ e.note = n
            BY DEF e
        <2>5. Grow
            BY <1>1, <2>3 DEF Grow, CreditedTx
        <2>6. LedgerTypes'
            BY <2>3, TypeParts DEF InboundInv, LedgerTypes
        <2>7. EntriesAgree'
            BY <2>3, <2>4 DEF InboundInv, EntriesAgree
        <2>8. CreditOncePerPending' /\ ProcessedMeansCredited'
            BY DEF InboundInv, CreditOncePerPending, ProcessedMeansCredited, CreditedTx
        <2> QED
            BY <1>1, <2>2, <2>3, <2>4, <2>5, <2>6, <2>7, <2>8 DEF Books
    <1> QED
        BY <1>3, <1>4

LEMMA CreditAdded ==
    ASSUME InboundInv, NEW i \in DOMAIN pendings, ~LinkedCredit(i), CreditPending(i),
           UNCHANGED <<arrived, events, pendings>>
    PROVE  Grow /\ Books' /\ CreditedTx(pendings[i].tx)'
    <1>1. pendings \in Seq(Pending) /\ credits \in Seq(Credit) /\ available \in Nat
        BY DEF InboundInv, TypeOK
    <1>2. pendings[i] \in Pending /\ pendings[i].tx \in Tx
        <2>1. pendings[i] \in Pending
            BY <1>1
        <2> QED
            BY <2>1 DEF Pending
    <1> DEFINE e == [link |-> i, tx |-> pendings[i].tx]
    <1>3. e \in Credit /\ e.link = i /\ e.tx = pendings[i].tx
        BY <1>1, <1>2 DEF Credit
    <1>4. credits' = Append(credits, e)
        BY DEF CreditPending
    <1> HIDE DEF e
    <1>5. /\ credits' \in Seq(Credit)
          /\ DOMAIN credits' = DOMAIN credits \cup {Len(credits) + 1}
          /\ \A c \in DOMAIN credits : credits'[c] = credits[c]
          /\ credits'[Len(credits) + 1] = e
        BY <1>1, <1>3, <1>4, AppendFacts
    <1>6. Grow
        BY <1>5 DEF Grow, CreditedTx
    <1>7. CreditedTx(pendings[i].tx)'
        BY <1>3, <1>5 DEF CreditedTx
    <1>8. LedgerTypes'
        <2>1. available' \in Nat
            BY <1>1, <1>2, InboundAssumption DEF CreditPending
        <2> QED
            BY <1>5, <2>1, TypeParts DEF InboundInv, LedgerTypes
    <1>9. EntriesAgree'
        BY <1>3, <1>5 DEF InboundInv, EntriesAgree
    <1>10. CreditOncePerPending'
        BY <1>3, <1>5 DEF InboundInv, CreditOncePerPending, LinkedCredit
    <1>11. ProcessedMeansCredited'
        <2> SUFFICES ASSUME NEW n \in Note \ Legacy, events[n] = "processed"
                     PROVE  CreditedTx(TxOf[n])'
            BY DEF ProcessedMeansCredited
        <2>1. CreditedTx(TxOf[n]) /\ TxOf[n] \in Tx
            BY InboundAssumption DEF InboundInv, ProcessedMeansCredited
        <2> QED
            BY <1>6, <2>1 DEF Grow
    <1> QED
        BY <1>6, <1>7, <1>8, <1>9, <1>10, <1>11 DEF Books

-----------------------------------------------------------------------------
(* What a request remembers after it moves.                                *)

LEMMA RequestKnown ==
    ASSUME InboundInv, NEW h \in Handler
    PROVE  req[h] \in Request /\ RequestAgrees(req[h])
    BY DEF InboundInv, TypeOK

LEMMA IdleAgrees == RequestAgrees(NoRequest) /\ ResumeAgrees(NoResume)
    <1>1. None \notin Note
        BY InboundAssumption
    <1> QED
        BY <1>1 DEF RequestAgrees, ResumeAgrees, NoRequest, NoResume

Busy == {"status", "balance", "deposit", "deposited", "gas_pending", "failed", "crediting"}

LEMMA PcMoves ==
    ASSUME NEW q \in Request, RequestAgrees(q), NEW pc \in Busy,
           q.pc \notin {"idle", "hook", "topup_complete", "topup_known"},
           pc \in {"deposit", "deposited", "gas_pending", "crediting"} => q.entry # 0,
           NEW r, r = [q EXCEPT !.pc = pc]
    PROVE  r \in Request /\ RequestAgrees(r)
    <1>1. r \in Request
        BY DEF Request, Busy
    <1>2. /\ r.pc = pc /\ r.note = q.note /\ r.entry = q.entry
          /\ r.batch = q.batch /\ r.current = q.current
        BY DEF Request
    <1> QED
        BY <1>1, <1>2 DEF RequestAgrees, Busy

LEMMA RequestUpdates ==
    ASSUME NEW q \in Request, NEW m \in Nat, NEW B \in SUBSET Nat
    PROVE  /\ [q EXCEPT !.pc = "status", !.seen = "none", !.entry = m] \in Request
           /\ [q EXCEPT !.pc = "balance", !.amount = m] \in Request
           /\ [q EXCEPT !.pc = "deposit", !.entry = m] \in Request
           /\ [q EXCEPT !.pc = "crediting", !.entry = m] \in Request
           /\ [q EXCEPT !.pc = "crediting", !.batch = B] \in Request
           /\ [q EXCEPT !.pc = "marking", !.current = m] \in Request
    <1>1. [q EXCEPT !.pc = "status", !.seen = "none", !.entry = m] \in Request
        BY DEF Request, Status
    <1>2. [q EXCEPT !.pc = "balance", !.amount = m] \in Request
        BY DEF Request
    <1>3. [q EXCEPT !.pc = "deposit", !.entry = m] \in Request
        BY DEF Request
    <1>4. [q EXCEPT !.pc = "crediting", !.entry = m] \in Request
        BY DEF Request
    <1>5. [q EXCEPT !.pc = "crediting", !.batch = B] \in Request
        BY DEF Request
    <1>6. [q EXCEPT !.pc = "marking", !.current = m] \in Request
        BY DEF Request
    <1> QED
        BY <1>1, <1>2, <1>3, <1>4, <1>5, <1>6

(* A request moves on while the books are closed.                          *)
LEMMA QuietMove ==
    ASSUME InboundInv, Grow, Books', CircleTypes', OtherTypes', UNCHANGED job,
           NEW h \in Handler, NEW r \in Request, Goto(h, r), RequestAgrees(r)
    PROVE  InboundInv'
    <1>1. RequestAgrees(r)'
        BY RequestKept DEF InboundInv, Books
    <1> QED
        BY <1>1, RequestMoves

LEMMA QuietResume ==
    ASSUME InboundInv, Grow, Books', CircleTypes', OtherTypes', UNCHANGED req,
           NEW k \in Task, NEW r \in Resume, Become(k, r), ResumeAgrees(r)
    PROVE  InboundInv'
    <1>1. ResumeAgrees(r)'
        BY ResumeKept DEF InboundInv
    <1> QED
        BY <1>1, ResumeMoves

-----------------------------------------------------------------------------
(* One lemma per action.                                                   *)

LEMMA ArriveInv ==
    ASSUME InboundInv, NEW t \in Tx, Arrive(t)
    PROVE  InboundInv'
    <1>1. Grow /\ Books'
        BY BooksClosed DEF Arrive
    <1>2. wallet' \in Nat
        BY InboundAssumption DEF InboundInv, TypeOK, Arrive
    <1>3. CircleTypes' /\ OtherTypes'
        BY <1>2 DEF InboundInv, TypeOK, Arrive, CircleTypes, OtherTypes
    <1> QED
        BY <1>1, <1>3, NobodyMoves DEF Arrive

LEMMA BindWalletInv ==
    ASSUME InboundInv, BindWallet
    PROVE  InboundInv'
    <1>1. Grow /\ Books'
        BY BooksClosed DEF BindWallet
    <1>2. CircleTypes' /\ OtherTypes'
        BY DEF InboundInv, TypeOK, BindWallet, CircleTypes, OtherTypes, circleVars
    <1> QED
        BY <1>1, <1>2, NobodyMoves DEF BindWallet

LEMMA TopUpUpdates ==
    ASSUME NEW u \in TopUp, NEW s \in {"topup_complete", "completed", "failed"}
    PROVE  [u EXCEPT !.status = s] \in TopUp /\ [u EXCEPT !.arrived = TRUE] \in TopUp
    BY DEF TopUp

LEMMA TopUpMoves ==
    ASSUME TypeOK, NEW i \in Intent, NEW s \in {"topup_complete", "completed", "failed"},
           intents' = [intents EXCEPT ![i].status = s]
    PROVE  intents' \in [Intent -> TopUp]
    <1>1. intents \in [Intent -> TopUp]
        BY DEF TypeOK
    <1>2. [intents[i] EXCEPT !.status = s] \in TopUp
        BY <1>1, TopUpUpdates
    <1> QED
        BY <1>1, <1>2

LEMMA GasArrivesInv ==
    ASSUME InboundInv, NEW i \in Intent, GasArrives(i)
    PROVE  InboundInv'
    <1>1. Grow /\ Books'
        BY BooksClosed DEF GasArrives, worldVars
    <1>2. intents' \in [Intent -> TopUp]
        BY TopUpUpdates DEF InboundInv, TypeOK, GasArrives
    <1>3. CircleTypes' /\ OtherTypes'
        BY <1>2 DEF InboundInv, TypeOK, GasArrives, CircleTypes, OtherTypes, worldVars
    <1> QED
        BY <1>1, <1>3, NobodyMoves DEF GasArrives

LEMMA DeliverInv ==
    ASSUME InboundInv, NEW h \in Handler, NEW n \in Hook, Deliver(h, n)
    PROVE  InboundInv'
    <1>1. Grow /\ Books'
        BY BooksClosed DEF Deliver, worldVars
    <1>2. CircleTypes' /\ OtherTypes'
        BY DEF InboundInv, TypeOK, Deliver, Reply, CircleTypes, OtherTypes, worldVars, circleVars
    <1>3. CASE Goto(h, NoRequest)
        BY <1>1, <1>2, <1>3, NullTypes, IdleAgrees, QuietMove DEF Deliver
    <1>4. CASE ~Goto(h, NoRequest)
        <2>1. PICK r : r = [NoRequest EXCEPT !.pc = "hook", !.note = n, !.seen = events[n]]
            OBVIOUS
        <2>2. Goto(h, r)
            BY <1>4, <2>1 DEF Deliver, Reply
        <2>3. events[n] \in Status
            BY DEF InboundInv, TypeOK
        <2>4. r = [pc |-> "hook", note |-> n, seen |-> events[n], entry |-> 0,
                   amount |-> 0, batch |-> {}, current |-> 0]
            BY <2>1 DEF NoRequest
        <2>5. r \in Request
            BY <2>3, <2>4 DEF Request
        <2>6. n \in Note => TxOf[n] \in arrived
            BY DEF Deliver, Deliverable
        <2>7. RequestAgrees(r)
            BY <2>4, <2>6 DEF RequestAgrees
        <2> QED
            BY <1>1, <1>2, <2>2, <2>5, <2>7, QuietMove DEF Deliver
    <1> QED
        BY <1>3, <1>4

LEMMA CircleHookInv ==
    ASSUME InboundInv, NEW h \in Handler, NEW i \in Intent, CircleHook(h, i)
    PROVE  InboundInv'
    <1>1. Grow /\ Books'
        BY BooksClosed DEF CircleHook, worldVars
    <1>2. intents' \in [Intent -> TopUp]
        <2>1. CASE UNCHANGED intents
            BY <2>1 DEF InboundInv, TypeOK
        <2>2. CASE intents' = [intents EXCEPT ![i].status = "topup_complete"]
            BY <2>2, TopUpMoves DEF InboundInv
        <2> QED
            BY <2>1, <2>2 DEF CircleHook
    <1>3. CircleTypes' /\ OtherTypes'
        BY <1>2 DEF InboundInv, TypeOK, CircleHook, CircleTypes, OtherTypes, worldVars
    <1>4. PICK q \in Request : q = req[h] /\ RequestAgrees(q) /\ q.pc = "hook"
        BY RequestKnown DEF CircleHook
    <1>5. PICK pc \in {"topup_complete", "topup_known"} : Goto(h, [q EXCEPT !.pc = pc])
        BY <1>4 DEF CircleHook
    <1>6. PICK r : r = [q EXCEPT !.pc = pc]
        OBVIOUS
    <1>7. r \in Request
        BY <1>6 DEF Request
    <1>8. /\ r.pc = pc /\ r.note = q.note /\ r.entry = q.entry
          /\ r.batch = q.batch /\ r.current = q.current
        BY <1>6 DEF Request
    <1>9. RequestAgrees(r)
        BY <1>4, <1>8 DEF RequestAgrees
    <1> QED
        BY <1>1, <1>3, <1>4, <1>5, <1>6, <1>7, <1>9, QuietMove DEF CircleHook

LEMMA SkipInv ==
    ASSUME InboundInv, NEW h \in Handler, NEW n \in Hook, Skip(h, n)
    PROVE  InboundInv'
    <1>1. Grow /\ Books'
        BY EventSaved DEF Skip, worldVars, Status
    <1>2. CircleTypes' /\ OtherTypes'
        BY DEF InboundInv, TypeOK, Skip, Reply, CircleTypes, OtherTypes, worldVars, circleVars
    <1> QED
        BY <1>1, <1>2, NullTypes, IdleAgrees, QuietMove DEF Skip, Reply

LEMMA TopUpNoticedInv ==
    ASSUME InboundInv, NEW h \in Handler, NEW i \in Hook, TopUpNoticed(h, i)
    PROVE  InboundInv'
    <1>1. i \notin Note
        BY InboundAssumption DEF TopUpNoticed
    <1>2. Grow /\ Books'
        BY <1>1, EventSaved DEF TopUpNoticed, worldVars, Status
    <1>4. CircleTypes' /\ OtherTypes'
        BY DEF InboundInv, TypeOK, TopUpNoticed, Reply, CircleTypes, OtherTypes,
               worldVars, circleVars
    <1>5. (\A g \in Handler : RequestAgrees(req[g]))'
        <2>1. RequestAgrees(NoRequest)'
            BY <1>2, NullTypes, IdleAgrees, RequestKept DEF InboundInv, Books
        <2> QED
            BY <1>2, <2>1, RequestsKept DEF TopUpNoticed, Reply, Books
    <1>6. /\ job' \in [Task -> Resume]
          /\ (\A k \in Task : ResumeAgrees(job[k]))'
        <2>1. CASE UNCHANGED job
            BY <1>2, <2>1, ResumesRest DEF InboundInv, TypeOK
        <2>2. CASE ~UNCHANGED job
            <3>1. PICK k \in Task : Become(k, [NoResume EXCEPT !.pc = "scheduled", !.intent = i])
                BY <2>2 DEF TopUpNoticed
            <3>2. PICK r : r = [NoResume EXCEPT !.pc = "scheduled", !.intent = i]
                OBVIOUS
            <3>3. r = [pc |-> "scheduled", intent |-> i, current |-> 0] /\ i \in Intent
                BY <3>2 DEF NoResume, TopUpNoticed
            <3>4. r \in Resume /\ ResumeAgrees(r)
                BY <3>3 DEF Resume, ResumeAgrees
            <3>5. ResumeAgrees(r)'
                BY <1>2, <3>4, ResumeKept DEF InboundInv
            <3>6. job' \in [Task -> Resume]
                BY <3>1, <3>2, <3>4 DEF InboundInv, TypeOK, Become
            <3> QED
                BY <1>2, <3>1, <3>2, <3>5, <3>6, ResumesKept
        <2> QED
            BY <2>1, <2>2
    <1>7. req' \in [Handler -> Request]
        BY NullTypes DEF InboundInv, TypeOK, TopUpNoticed, Reply, Goto
    <1>8. TypeOK'
        BY <1>2, <1>4, <1>6, <1>7 DEF Books, TypeOK, LedgerTypes, CircleTypes, OtherTypes
    <1> QED
        BY <1>2, <1>5, <1>6, <1>8 DEF Books, InboundInv

LEMMA DuplicateInv ==
    ASSUME InboundInv, NEW h \in Handler, NEW n \in Hook, Duplicate(h, n)
    PROVE  InboundInv'
    <1>1. n \in Note /\ CreditedTx(TxOf[n])
        BY InboundAssumption
            DEF InboundInv, EntriesAgree, Duplicate, Inbound, MatchingCredit, CreditedTx
    <1>2. Grow /\ Books'
        <2>1. CASE UNCHANGED events
            BY <2>1, BooksClosed DEF Duplicate, worldVars, ledgerVars
        <2>2. CASE Save(n, "processed")
            BY <1>1, <2>2, EventSaved DEF Duplicate, worldVars, Status
        <2> QED
            BY <2>1, <2>2 DEF Duplicate
    <1>3. CircleTypes' /\ OtherTypes'
        BY DEF InboundInv, TypeOK, Duplicate, Reply, CircleTypes, OtherTypes, worldVars, circleVars
    <1> QED
        BY <1>2, <1>3, NullTypes, IdleAgrees, QuietMove DEF Duplicate, Reply

LEMMA EntryFound ==
    ASSUME InboundInv, NEW n \in Usable, NEW p \in 0..Len(pendings),
           IsFirst(p, MatchingPending(n))
    PROVE  p # 0 => p \in DOMAIN pendings /\ pendings[p].tx = TxOf[n]
    <1>1. pendings \in Seq(Pending)
        BY DEF InboundInv, TypeOK
    <1>2. p # 0 => p \in MatchingPending(n)
        BY DEF IsFirst
    <1> QED
        BY <1>1, <1>2 DEF InboundInv, EntriesAgree, MatchingPending

LEMMA ReceiveInv ==
    ASSUME InboundInv, NEW h \in Handler, NEW n \in Hook, Receive(h, n)
    PROVE  InboundInv'
    <1> USE DEF Receive, Inbound
    <1>1. Grow /\ Books'
        <2>1. CASE UNCHANGED events
            BY <2>1, BooksClosed DEF worldVars, ledgerVars
        <2>2. CASE Save(n, "received")
            BY <2>2, EventSaved DEF worldVars, Status
        <2> QED
            BY <2>1, <2>2
    <1>2. CircleTypes' /\ OtherTypes'
        BY DEF InboundInv, TypeOK, CircleTypes, OtherTypes, worldVars, circleVars
    <1>3. PICK p \in 0..Len(pendings) :
            /\ IsFirst(p, MatchingPending(n))
            /\ Goto(h, [req[h] EXCEPT !.pc = "status", !.seen = "none", !.entry = p])
        OBVIOUS
    <1>4. PICK q \in Request : q = req[h] /\ RequestAgrees(q)
        BY RequestKnown
    <1>5. PICK r : r = [q EXCEPT !.pc = "status", !.seen = "none", !.entry = p]
        OBVIOUS
    <1>6. Len(pendings) \in Nat
        BY DEF InboundInv, TypeOK
    <1>7. r \in Request
        <2>1. p \in Nat
            BY <1>6
        <2> QED
            BY <1>5, <2>1, RequestUpdates
    <1>8. /\ r.pc = "status" /\ r.note = n /\ r.entry = p
          /\ r.batch = q.batch /\ r.current = q.current
        BY <1>4, <1>5 DEF Request
    <1>9. p # 0 => pendings[p].tx = TxOf[n]
        BY <1>3, EntryFound
    <1>10. RequestAgrees(r)
        BY <1>4, <1>8, <1>9 DEF RequestAgrees
    <1> QED
        BY <1>1, <1>2, <1>3, <1>4, <1>5, <1>7, <1>10, QuietMove

LEMMA ReplayProcessedInv ==
    ASSUME InboundInv, NEW h \in Handler, NEW n \in Hook, ReplayProcessed(h, n)
    PROVE  InboundInv'
    <1> USE DEF ReplayProcessed, Inbound
    <1>1. PICK p \in 0..Len(pendings) :
            /\ IsFirst(p, MatchingPending(n))
            /\ EnsurePending(n, p)
            /\ Goto(h, [req[h] EXCEPT !.pc = "crediting", !.entry = Ensured(p)])
        OBVIOUS
    <1>2. PICK q \in Request : q = req[h] /\ RequestAgrees(q)
        BY RequestKnown
    <1>3. TxOf[n] \in arrived
        BY <1>2, InboundAssumption DEF RequestAgrees
    <1>4. /\ Grow /\ Books'
          /\ Ensured(p) \in 1..Len(pendings')
          /\ pendings'[Ensured(p)].tx = TxOf[n]
        BY <1>1, <1>3, EntryFound, PendingEnsured DEF worldVars
    <1>5. CircleTypes' /\ OtherTypes'
        BY DEF InboundInv, TypeOK, CircleTypes, OtherTypes, worldVars, circleVars
    <1>6. PICK e : e = Ensured(p)
        OBVIOUS
    <1>7. PICK r : r = [q EXCEPT !.pc = "crediting", !.entry = e]
        OBVIOUS
    <1>8. Len(pendings') \in Nat
        BY <1>4 DEF Books, LedgerTypes
    <1>9. r \in Request
        <2>1. e \in Nat
            BY <1>4, <1>6, <1>8
        <2> QED
            BY <1>7, <2>1, RequestUpdates
    <1>10. /\ r.pc = "crediting" /\ r.note = n /\ r.entry = e
           /\ r.batch = q.batch /\ r.current = q.current
        BY <1>2, <1>7 DEF Request
    <1>11. RequestAgrees(q)'
        BY <1>2, <1>4, RequestKept DEF InboundInv, Books
    <1>12. e \in 1..Len(pendings') /\ pendings'[e].tx = TxOf[n]
        BY <1>4, <1>6
    <1>13. RequestAgrees(r)'
        BY <1>2, <1>8, <1>10, <1>11, <1>12, InboundAssumption DEF RequestAgrees, Hook
    <1> QED
        BY <1>1, <1>2, <1>4, <1>5, <1>6, <1>7, <1>9, <1>13, RequestMoves

LEMMA CircleStatusInv ==
    ASSUME InboundInv, NEW h \in Handler, CircleStatus(h)
    PROVE  InboundInv'
    <1>1. Grow /\ Books'
        BY BooksClosed DEF CircleStatus, worldVars
    <1>2. CircleTypes' /\ OtherTypes'
        BY DEF InboundInv, TypeOK, CircleStatus, CircleTypes, OtherTypes, worldVars, circleVars
    <1>3. PICK q \in Request : q = req[h] /\ RequestAgrees(q) /\ q.pc = "status"
        BY RequestKnown DEF CircleStatus
    <1>4. CASE Goto(h, [req[h] EXCEPT !.pc = "failed"])
        <2>1. PICK r : r = [q EXCEPT !.pc = "failed"]
            OBVIOUS
        <2>2. r \in Request /\ RequestAgrees(r)
            BY <1>3, <2>1, PcMoves DEF Busy
        <2> QED
            BY <1>1, <1>2, <1>3, <1>4, <2>1, <2>2, QuietMove DEF CircleStatus
    <1>5. CASE Goto(h, [req[h] EXCEPT !.pc = "balance", !.amount = wallet])
        <2>1. PICK w \in Nat : w = wallet
            BY DEF InboundInv, TypeOK
        <2>2. PICK r : r = [q EXCEPT !.pc = "balance", !.amount = w]
            OBVIOUS
        <2>3. r \in Request
            BY <2>2 DEF Request
        <2>4. /\ r.pc = "balance" /\ r.note = q.note /\ r.entry = q.entry
              /\ r.batch = q.batch /\ r.current = q.current
            BY <2>2 DEF Request
        <2>5. RequestAgrees(r)
            BY <1>3, <2>4 DEF RequestAgrees
        <2> QED
            BY <1>1, <1>2, <1>3, <1>5, <2>1, <2>2, <2>3, <2>5, QuietMove DEF CircleStatus
    <1> QED
        BY <1>4, <1>5 DEF CircleStatus

LEMMA StartDepositInv ==
    ASSUME InboundInv, NEW h \in Handler, StartDeposit(h)
    PROVE  InboundInv'
    <1> USE DEF StartDeposit
    <1>1. PICK q \in Request : q = req[h] /\ RequestAgrees(q) /\ q.pc = "balance"
        BY RequestKnown
    <1>2. PICK n \in Usable : n = q.note
        BY <1>1 DEF RequestAgrees
    <1>3. PICK p \in 0..Len(pendings) : p = q.entry
        BY <1>1 DEF RequestAgrees
    <1>4. TxOf[n] \in arrived /\ (p # 0 => pendings[p].tx = TxOf[n])
        BY <1>1, <1>2, <1>3, InboundAssumption DEF RequestAgrees
    <1>5. /\ Grow /\ Books'
          /\ Ensured(p) \in 1..Len(pendings')
          /\ pendings'[Ensured(p)].tx = TxOf[n]
        BY <1>1, <1>2, <1>3, <1>4, PendingEnsured DEF worldVars
    <1>6. CircleTypes' /\ OtherTypes'
        BY DEF InboundInv, TypeOK, CircleTypes, OtherTypes, worldVars, circleVars
    <1>7. PICK e : e = Ensured(p)
        OBVIOUS
    <1>8. PICK r : r = [q EXCEPT !.pc = "deposit", !.entry = e]
        OBVIOUS
    <1>9. Len(pendings') \in Nat
        BY <1>5 DEF Books, LedgerTypes
    <1>10. r \in Request
        <2>1. e \in Nat
            BY <1>5, <1>7, <1>9
        <2> QED
            BY <1>8, <2>1, RequestUpdates
    <1>11. /\ r.pc = "deposit" /\ r.note = n /\ r.entry = e
           /\ r.batch = q.batch /\ r.current = q.current
        BY <1>2, <1>8 DEF Request
    <1>12. RequestAgrees(q)'
        BY <1>1, <1>5, RequestKept DEF InboundInv, Books
    <1>13. e \in 1..Len(pendings') /\ pendings'[e].tx = TxOf[n]
        BY <1>5, <1>7
    <1>14. RequestAgrees(r)'
        BY <1>1, <1>2, <1>9, <1>11, <1>12, <1>13, InboundAssumption DEF RequestAgrees, Hook
    <1> QED
        BY <1>1, <1>3, <1>5, <1>6, <1>7, <1>8, <1>10, <1>14, RequestMoves

(* A deposit moves USDC from the wallet to the Gateway.                    *)
LEMMA SweepTypes ==
    ASSUME InboundInv, NEW amount \in Nat, Sweep(amount)
    PROVE  wallet' \in Nat /\ gateway' \in Nat /\ gas' \in BOOLEAN
    <1>1. wallet \in Nat /\ gateway \in Nat
        BY DEF InboundInv, TypeOK
    <1>2. wallet' \in Nat /\ gateway' \in Nat
        BY <1>1 DEF Sweep
    <1>3. gas' \in BOOLEAN
        <2>1. gas' \in IF EOA THEN BOOLEAN ELSE {TRUE}
            BY DEF Sweep
        <2> QED
            BY <2>1
    <1> QED
        BY <1>2, <1>3

LEMMA CircleDepositsInv ==
    ASSUME InboundInv, NEW h \in Handler, CircleDeposits(h)
    PROVE  InboundInv'
    <1>1. Grow /\ Books'
        BY BooksClosed DEF CircleDeposits, worldVars
    <1>2. PICK q \in Request : q = req[h] /\ RequestAgrees(q) /\ q.pc = "deposit"
        BY RequestKnown DEF CircleDeposits
    <1>3. q.amount \in Nat /\ q.entry # 0
        BY <1>2 DEF Request, RequestAgrees
    <1>4. wallet' \in Nat /\ gateway' \in Nat /\ gas' \in BOOLEAN
        BY <1>2, <1>3, SweepTypes DEF CircleDeposits
    <1>5. CircleTypes' /\ OtherTypes'
        BY <1>4 DEF InboundInv, TypeOK, CircleDeposits, CircleTypes, OtherTypes, worldVars
    <1>6. PICK pc \in {"deposited", "failed"} : Goto(h, [q EXCEPT !.pc = pc])
        BY <1>2 DEF CircleDeposits
    <1>7. PICK r : r = [q EXCEPT !.pc = pc]
        OBVIOUS
    <1>8. r \in Request /\ RequestAgrees(r)
        BY <1>2, <1>3, <1>7, PcMoves DEF Busy
    <1> QED
        BY <1>1, <1>5, <1>6, <1>7, <1>8, QuietMove DEF CircleDeposits

LEMMA CircleTopsUpInv ==
    ASSUME InboundInv, NEW h \in Handler, CircleTopsUp(h)
    PROVE  InboundInv'
    <1>1. Grow /\ Books'
        BY BooksClosed DEF CircleTopsUp, worldVars
    <1>2. PICK q \in Request : q = req[h] /\ RequestAgrees(q) /\ q.pc = "deposit"
        BY RequestKnown DEF CircleTopsUp
    <1>3. q.amount \in Nat /\ q.entry # 0 /\ q.note \in Note
        BY <1>2, InboundAssumption DEF Request, RequestAgrees
    <1>4. intents' \in [Intent -> TopUp]
        <2>1. CASE UNCHANGED intents
            BY <2>1 DEF InboundInv, TypeOK
        <2>2. CASE ~UNCHANGED intents
            <3>1. PICK n \in Note, m \in Nat : n = q.note /\ m = q.amount
                BY <1>3
            <3>2. PICK u : u = [status |-> "pending", ref |-> n,
                                amount |-> m, arrived |-> FALSE]
                OBVIOUS
            <3>3. u \in TopUp
                BY <3>2 DEF TopUp
            <3>4. PICK i \in UnusedTopUps : intents' = [intents EXCEPT ![i] = u]
                BY <1>2, <2>2, <3>1, <3>2 DEF CircleTopsUp
            <3> QED
                BY <3>3, <3>4 DEF InboundInv, TypeOK
        <2> QED
            BY <2>1, <2>2
    <1>5. CircleTypes' /\ OtherTypes'
        BY <1>4 DEF InboundInv, TypeOK, CircleTopsUp, CircleTypes, OtherTypes, worldVars
    <1>6. PICK r : r = [q EXCEPT !.pc = "gas_pending"]
        OBVIOUS
    <1>7. r \in Request /\ RequestAgrees(r)
        BY <1>2, <1>3, <1>6, PcMoves DEF Busy
    <1> QED
        BY <1>1, <1>2, <1>5, <1>6, <1>7, QuietMove DEF CircleTopsUp

LEMMA CircleRefusesInv ==
    ASSUME InboundInv, NEW h \in Handler, CircleRefuses(h)
    PROVE  InboundInv'
    <1>1. Grow /\ Books'
        BY BooksClosed DEF CircleRefuses, worldVars
    <1>2. CircleTypes' /\ OtherTypes'
        BY DEF InboundInv, TypeOK, CircleRefuses, CircleTypes, OtherTypes, worldVars, circleVars
    <1>3. PICK q \in Request : q = req[h] /\ RequestAgrees(q) /\ q.pc = "deposit"
        BY RequestKnown DEF CircleRefuses
    <1>4. PICK r : r = [q EXCEPT !.pc = "failed"]
        OBVIOUS
    <1>5. r \in Request /\ RequestAgrees(r)
        BY <1>3, <1>4, PcMoves DEF Busy
    <1> QED
        BY <1>1, <1>2, <1>3, <1>4, <1>5, QuietMove DEF CircleRefuses

LEMMA DepositFailedInv ==
    ASSUME InboundInv, NEW h \in Handler, DepositFailed(h)
    PROVE  InboundInv'
    <1>1. req[h].note \in Hook
        BY RequestKnown DEF RequestAgrees, DepositFailed
    <1>2. Grow /\ Books'
        BY <1>1, EventSaved DEF DepositFailed, worldVars, Status
    <1>3. CircleTypes' /\ OtherTypes'
        BY DEF InboundInv, TypeOK, DepositFailed, CircleTypes, OtherTypes, worldVars, circleVars
    <1> QED
        BY <1>2, <1>3, NullTypes, IdleAgrees, QuietMove DEF DepositFailed

LEMMA DepositAwaitsGasInv ==
    ASSUME InboundInv, NEW h \in Handler, DepositAwaitsGas(h)
    PROVE  InboundInv'
    <1>1. req[h].note \in Hook
        BY RequestKnown DEF RequestAgrees, DepositAwaitsGas
    <1>2. Grow /\ Books'
        BY <1>1, EventSaved DEF DepositAwaitsGas, worldVars, Status
    <1>3. CircleTypes' /\ OtherTypes'
        BY <1>1 DEF InboundInv, TypeOK, DepositAwaitsGas, Reply,
                    CircleTypes, OtherTypes, worldVars, circleVars
    <1> QED
        BY <1>2, <1>3, NullTypes, IdleAgrees, QuietMove DEF DepositAwaitsGas, Reply

LEMMA DepositCompletedInv ==
    ASSUME InboundInv, NEW h \in Handler, DepositCompleted(h)
    PROVE  InboundInv'
    <1>1. Grow /\ Books'
        BY BooksClosed DEF DepositCompleted, worldVars
    <1>2. CircleTypes' /\ OtherTypes'
        BY DEF InboundInv, TypeOK, DepositCompleted, CircleTypes, OtherTypes, worldVars, circleVars
    <1>3. PICK q \in Request : q = req[h] /\ RequestAgrees(q) /\ q.pc = "deposited"
        BY RequestKnown DEF DepositCompleted
    <1>4. PICK B : B = CoveredBySweep(req[h].amount)
        OBVIOUS
    <1>5. B \subseteq DOMAIN pendings
        BY <1>4 DEF CoveredBySweep
    <1>6. DOMAIN pendings \subseteq Nat
        BY DEF InboundInv, TypeOK
    <1>7. PICK r : r = [q EXCEPT !.pc = "crediting", !.batch = B]
        OBVIOUS
    <1>8. r \in Request
        <2>1. B \in SUBSET Nat
            BY <1>5, <1>6
        <2> QED
            BY <1>7, <2>1, RequestUpdates
    <1>9. /\ r.pc = "crediting" /\ r.note = q.note /\ r.entry = q.entry
          /\ r.batch = B /\ r.current = q.current
        BY <1>7 DEF Request
    <1>10. RequestAgrees(r)
        BY <1>3, <1>5, <1>9 DEF RequestAgrees
    <1> QED
        BY <1>1, <1>2, <1>3, <1>4, <1>7, <1>8, <1>10, QuietMove DEF DepositCompleted

LEMMA CreditNextInv ==
    ASSUME InboundInv, NEW h \in Handler, NEW i \in DOMAIN pendings, CreditNext(h, i)
    PROVE  InboundInv'
    <1>1. ~LinkedCredit(i)
        BY DEF CreditNext, OpenBatch, IsFirst, CreditLinkedToPending
    <1>2. Grow /\ Books' /\ CreditedTx(pendings[i].tx)'
        BY <1>1, CreditAdded DEF CreditNext, worldVars
    <1>3. CircleTypes' /\ OtherTypes'
        BY DEF InboundInv, TypeOK, CreditNext, CircleTypes, OtherTypes, worldVars, circleVars
    <1>4. PICK q \in Request : q = req[h] /\ RequestAgrees(q) /\ q.pc = "crediting"
        BY RequestKnown DEF CreditNext
    <1>5. PICK r : r = [q EXCEPT !.pc = "marking", !.current = i]
        OBVIOUS
    <1>6. r \in Request
        <2>1. i \in Nat
            BY DEF InboundInv, TypeOK
        <2> QED
            BY <1>5, <2>1, RequestUpdates
    <1>7. /\ r.pc = "marking" /\ r.note = q.note /\ r.entry = q.entry
          /\ r.batch = q.batch /\ r.current = i
        BY <1>5 DEF Request
    <1>8. RequestAgrees(q)'
        BY <1>2, <1>4, RequestKept DEF InboundInv, Books
    <1>9. UNCHANGED pendings
        BY DEF CreditNext
    <1>10. r.current \in DOMAIN pendings' /\ CreditedTx(pendings[r.current].tx)'
        BY <1>2, <1>7, <1>9
    <1>11. RequestAgrees(r)'
        BY <1>4, <1>7, <1>8, <1>10 DEF RequestAgrees
    <1> QED
        BY <1>2, <1>3, <1>4, <1>5, <1>6, <1>11, RequestMoves DEF CreditNext

(* The notification of an entry may be marked once its payment is credited. *)
LEMMA EntryMarked ==
    ASSUME InboundInv, NEW i \in DOMAIN pendings, CreditedTx(pendings[i].tx),
           UNCHANGED <<arrived, pendings, credits, available>>,
           IF events[pendings[i].note] = "none"
           THEN UNCHANGED events ELSE Save(pendings[i].note, "processed")
    PROVE  Grow /\ Books'
    <1>1. PICK n \in Note : n = pendings[i].note
        <2>1. pendings[i] \in Pending
            BY DEF InboundInv, TypeOK
        <2> QED
            BY <2>1 DEF Pending
    <1>2. CreditedTx(TxOf[n])
        BY <1>1 DEF InboundInv, EntriesAgree
    <1>3. CASE UNCHANGED events
        BY <1>3, BooksClosed DEF ledgerVars
    <1>4. CASE Save(n, "processed")
        BY <1>2, <1>4, EventSaved DEF Hook, Status
    <1> QED
        BY <1>1, <1>3, <1>4

LEMMA MarkProcessedInv ==
    ASSUME InboundInv, NEW h \in Handler, MarkProcessed(h)
    PROVE  InboundInv'
    <1>1. PICK q \in Request : q = req[h] /\ RequestAgrees(q) /\ q.pc = "marking"
        BY RequestKnown DEF MarkProcessed
    <1>2. PICK i \in DOMAIN pendings : i = q.current /\ CreditedTx(pendings[i].tx)
        BY <1>1 DEF RequestAgrees
    <1>3. Grow /\ Books'
        BY <1>1, <1>2, EntryMarked DEF MarkProcessed, worldVars
    <1>4. CircleTypes' /\ OtherTypes'
        BY DEF InboundInv, TypeOK, MarkProcessed, CircleTypes, OtherTypes, worldVars, circleVars
    <1>5. PICK r : r = [q EXCEPT !.pc = "crediting"]
        OBVIOUS
    <1>6. q.entry # 0
        BY <1>1 DEF RequestAgrees
    <1>7. r \in Request /\ RequestAgrees(r)
        BY <1>1, <1>5, <1>6, PcMoves DEF Busy
    <1> QED
        BY <1>1, <1>3, <1>4, <1>5, <1>7, QuietMove DEF MarkProcessed

LEMMA FinishInv ==
    ASSUME InboundInv, NEW h \in Handler, Finish(h)
    PROVE  InboundInv'
    <1>1. PICK q \in Request : q = req[h] /\ RequestAgrees(q) /\ q.pc = "crediting"
        BY RequestKnown DEF Finish
    <1>2. PICK n \in Note : n = q.note
        BY <1>1, InboundAssumption DEF RequestAgrees
    <1>3. PICK e \in DOMAIN pendings : e = q.entry /\ pendings[e].tx = TxOf[n]
        BY <1>1, <1>2 DEF RequestAgrees, InboundInv, TypeOK
    <1>4. CreditedTx(TxOf[n])
        <2>1. CASE CreditedTx(pendings[e].tx)
            BY <1>3, <2>1
        <2>2. CASE LinkedCredit(e)
            BY <1>3, <2>2 DEF InboundInv, EntriesAgree, LinkedCredit, CreditedTx
        <2> QED
            BY <1>1, <1>3, <2>1, <2>2 DEF Finish, CreditLinkedToPending
    <1>5. Grow /\ Books'
        BY <1>1, <1>2, <1>4, EventSaved DEF Finish, worldVars, Hook, Status
    <1>6. CircleTypes' /\ OtherTypes'
        BY <1>1, <1>2 DEF InboundInv, TypeOK, Finish, Reply, Hook,
                          CircleTypes, OtherTypes, worldVars, circleVars
    <1> QED
        BY <1>5, <1>6, NullTypes, IdleAgrees, QuietMove DEF Finish, Reply

LEMMA ResumeKnown ==
    ASSUME InboundInv, NEW k \in Task
    PROVE  job[k] \in Resume /\ ResumeAgrees(job[k])
    BY DEF InboundInv, TypeOK

LEMMA ResumeUpdates ==
    ASSUME NEW q \in Resume, NEW m \in Nat
    PROVE  /\ [q EXCEPT !.pc = "resumed"] \in Resume
           /\ [q EXCEPT !.pc = "deposit"] \in Resume
           /\ [q EXCEPT !.pc = "marking", !.current = m] \in Resume
    <1>1. [q EXCEPT !.pc = "resumed"] \in Resume
        BY DEF Resume
    <1>2. [q EXCEPT !.pc = "deposit"] \in Resume
        BY DEF Resume
    <1>3. [q EXCEPT !.pc = "marking", !.current = m] \in Resume
        BY DEF Resume
    <1> QED
        BY <1>1, <1>2, <1>3

LEMMA ResumePcMoves ==
    ASSUME NEW q \in Resume, ResumeAgrees(q), q.pc # "idle",
           NEW pc \in {"resumed", "deposit"}, NEW r, r = [q EXCEPT !.pc = pc]
    PROVE  r \in Resume /\ ResumeAgrees(r)
    <1>1. r \in Resume
        BY ResumeUpdates
    <1>2. r.pc = pc /\ r.intent = q.intent /\ r.current = q.current
        BY DEF Resume
    <1> QED
        BY <1>1, <1>2 DEF ResumeAgrees

LEMMA ResumeCallInv ==
    ASSUME InboundInv, NEW k \in Task, ResumeCall(k)
    PROVE  InboundInv'
    <1>1. Grow /\ Books'
        BY BooksClosed DEF ResumeCall, worldVars
    <1>2. CircleTypes' /\ OtherTypes'
        BY DEF InboundInv, TypeOK, ResumeCall, CircleTypes, OtherTypes, worldVars, circleVars
    <1>3. PICK q \in Resume : q = job[k] /\ ResumeAgrees(q) /\ q.pc = "scheduled"
        BY ResumeKnown DEF ResumeCall
    <1>4. \/ Become(k, NoResume)
          \/ \E pc \in {"resumed", "deposit"} : Become(k, [q EXCEPT !.pc = pc])
        BY <1>3 DEF ResumeCall
    <1>5. CASE Become(k, NoResume)
        BY <1>1, <1>2, <1>5, NullTypes, IdleAgrees, QuietResume DEF ResumeCall
    <1>6. ASSUME NEW pc \in {"resumed", "deposit"}, Become(k, [q EXCEPT !.pc = pc])
          PROVE  InboundInv'
        <2>1. PICK r : r = [q EXCEPT !.pc = pc]
            OBVIOUS
        <2>2. r \in Resume /\ ResumeAgrees(r)
            BY <1>3, <2>1, ResumePcMoves
        <2> QED
            BY <1>1, <1>2, <1>6, <2>1, <2>2, QuietResume DEF ResumeCall
    <1> QED
        BY <1>4, <1>5, <1>6

LEMMA ResumeDepositsInv ==
    ASSUME InboundInv, NEW k \in Task, ResumeDeposits(k)
    PROVE  InboundInv'
    <1>1. Grow /\ Books'
        BY BooksClosed DEF ResumeDeposits, worldVars
    <1>2. PICK q \in Resume : q = job[k] /\ ResumeAgrees(q) /\ q.pc = "deposit"
        BY ResumeKnown DEF ResumeDeposits
    <1>3. PICK i \in Intent : i = q.intent
        BY <1>2 DEF ResumeAgrees
    <1>4. intents[i].amount \in Nat
        <2>1. intents[i] \in TopUp
            BY DEF InboundInv, TypeOK
        <2> QED
            BY <2>1 DEF TopUp
    <1>5. wallet' \in Nat /\ gateway' \in Nat /\ gas' \in BOOLEAN
        BY <1>2, <1>3, <1>4, SweepTypes DEF ResumeDeposits
    <1>6. intents' \in [Intent -> TopUp]
        BY <1>2, <1>3, TopUpMoves DEF InboundInv, ResumeDeposits
    <1>7. CircleTypes' /\ OtherTypes'
        BY <1>5, <1>6 DEF InboundInv, TypeOK, ResumeDeposits, CircleTypes, OtherTypes, worldVars
    <1>8. CASE Become(k, NoResume)
        BY <1>1, <1>7, <1>8, NullTypes, IdleAgrees, QuietResume DEF ResumeDeposits
    <1>9. CASE Become(k, [q EXCEPT !.pc = "resumed"])
        <2>1. PICK r : r = [q EXCEPT !.pc = "resumed"]
            OBVIOUS
        <2>2. r \in Resume /\ ResumeAgrees(r)
            BY <1>2, <2>1, ResumePcMoves
        <2> QED
            BY <1>1, <1>7, <1>9, <2>1, <2>2, QuietResume DEF ResumeDeposits
    <1> QED
        BY <1>2, <1>8, <1>9 DEF ResumeDeposits

LEMMA ResumeRefusedInv ==
    ASSUME InboundInv, NEW k \in Task, ResumeRefused(k)
    PROVE  InboundInv'
    <1>1. Grow /\ Books'
        BY BooksClosed DEF ResumeRefused, worldVars
    <1>2. job[k].intent \in Intent
        BY ResumeKnown DEF ResumeAgrees, ResumeRefused
    <1>3. intents' \in [Intent -> TopUp]
        BY <1>2, TopUpMoves DEF InboundInv, ResumeRefused
    <1>4. CircleTypes' /\ OtherTypes'
        BY <1>3 DEF InboundInv, TypeOK, ResumeRefused, CircleTypes, OtherTypes, worldVars
    <1> QED
        BY <1>1, <1>4, NullTypes, IdleAgrees, QuietResume DEF ResumeRefused

LEMMA ResumeCreditsInv ==
    ASSUME InboundInv, NEW k \in Task, NEW i \in 0..Len(pendings), ResumeCredits(k, i)
    PROVE  InboundInv'
    <1>1. i \in DOMAIN pendings /\ i \in Nat /\ ~LinkedCredit(i)
        BY DEF InboundInv, TypeOK, ResumeCredits
    <1>2. Grow /\ Books' /\ CreditedTx(pendings[i].tx)'
        BY <1>1, CreditAdded DEF ResumeCredits, worldVars
    <1>3. CircleTypes' /\ OtherTypes'
        BY DEF InboundInv, TypeOK, ResumeCredits, CircleTypes, OtherTypes, worldVars, circleVars
    <1>4. PICK q \in Resume : q = job[k] /\ ResumeAgrees(q) /\ q.pc = "resumed"
        BY ResumeKnown DEF ResumeCredits, ResumedEntry
    <1>5. PICK r : r = [q EXCEPT !.pc = "marking", !.current = i]
        OBVIOUS
    <1>6. r \in Resume
        BY <1>1, <1>5, ResumeUpdates
    <1>7. r.pc = "marking" /\ r.intent = q.intent /\ r.current = i
        BY <1>5 DEF Resume
    <1>8. UNCHANGED pendings
        BY DEF ResumeCredits
    <1>9. r.current \in DOMAIN pendings' /\ CreditedTx(pendings[r.current].tx)'
        BY <1>1, <1>2, <1>7, <1>8
    <1>10. ResumeAgrees(r)'
        BY <1>4, <1>7, <1>9 DEF ResumeAgrees
    <1> QED
        BY <1>2, <1>3, <1>4, <1>5, <1>6, <1>10, ResumeMoves DEF ResumeCredits

LEMMA ResumeFindsCreditInv ==
    ASSUME InboundInv, NEW k \in Task, NEW i \in 0..Len(pendings), ResumeFindsCredit(k, i)
    PROVE  InboundInv'
    <1>1. Grow /\ Books'
        BY BooksClosed DEF ResumeFindsCredit, worldVars
    <1>2. CircleTypes' /\ OtherTypes'
        BY DEF InboundInv, TypeOK, ResumeFindsCredit, CircleTypes, OtherTypes, worldVars, circleVars
    <1> QED
        BY <1>1, <1>2, NullTypes, IdleAgrees, QuietResume DEF ResumeFindsCredit

LEMMA ResumeMarksInv ==
    ASSUME InboundInv, NEW k \in Task, ResumeMarks(k)
    PROVE  InboundInv'
    <1>1. PICK i \in DOMAIN pendings : i = job[k].current /\ CreditedTx(pendings[i].tx)
        BY ResumeKnown DEF ResumeAgrees, ResumeMarks
    <1>2. Grow /\ Books'
        BY <1>1, EntryMarked DEF ResumeMarks, worldVars
    <1>3. CircleTypes' /\ OtherTypes'
        BY DEF InboundInv, TypeOK, ResumeMarks, CircleTypes, OtherTypes, worldVars, circleVars
    <1> QED
        BY <1>2, <1>3, NullTypes, IdleAgrees, QuietResume DEF ResumeMarks

LEMMA CrashInv ==
    ASSUME InboundInv, Crash
    PROVE  InboundInv'
    <1>1. Grow /\ Books'
        BY BooksClosed DEF Crash, worldVars
    <1>2. CircleTypes' /\ OtherTypes'
        BY DEF InboundInv, TypeOK, Crash, CircleTypes, OtherTypes, worldVars, circleVars
    <1>3. req' \in [Handler -> Request] /\ job' \in [Task -> Resume]
        BY NullTypes DEF Crash
    <1>4. TypeOK'
        BY <1>1, <1>2, <1>3 DEF Books, TypeOK, LedgerTypes, CircleTypes, OtherTypes
    <1>5. RequestAgrees(NoRequest)' /\ ResumeAgrees(NoResume)'
        BY <1>1, NullTypes, IdleAgrees, RequestKept, ResumeKept DEF InboundInv, Books
    <1>6. /\ \A h \in Handler : req'[h] = NoRequest
          /\ \A k \in Task : job'[k] = NoResume
        BY DEF Crash
    <1>7. (\A h \in Handler : RequestAgrees(req[h]))'
        BY <1>5, <1>6 DEF RequestAgrees
    <1>8. (\A k \in Task : ResumeAgrees(job[k]))'
        BY <1>5, <1>6 DEF ResumeAgrees
    <1> QED
        BY <1>1, <1>4, <1>7, <1>8 DEF Books, InboundInv

-----------------------------------------------------------------------------
(* InboundInv is inductive.                                                *)

LEMMA InitInv == Init => InboundInv
    <1> SUFFICES ASSUME Init PROVE InboundInv
        OBVIOUS
    <1> USE DEF Init
    <1>1. /\ Legacy \subseteq Note /\ Note \subseteq Hook /\ TxOf \in [Note -> Tx]
          /\ acked \subseteq Legacy
        BY InboundAssumption DEF Hook
    <1>2. LedgerTypes
        <2>1. events \in [Hook -> Status]
            BY DEF Status
        <2>2. pendings \in Seq(Pending) /\ credits \in Seq(Credit)
            OBVIOUS
        <2> QED
            BY <2>1, <2>2 DEF LedgerTypes
    <1>3. CircleTypes
        <2>1. intents \in [Intent -> TopUp]
            BY NullTypes
        <2>2. gas \in BOOLEAN
            <3>1. gas \in IF EOA THEN BOOLEAN ELSE {TRUE}
                OBVIOUS
            <3> QED
                BY <3>1
        <2> QED
            BY <2>1, <2>2 DEF CircleTypes
    <1>4. OtherTypes
        <2>1. arrived \subseteq Tx
            BY <1>1
        <2> QED
            BY <1>1, <2>1 DEF OtherTypes
    <1>5. req \in [Handler -> Request] /\ job \in [Task -> Resume]
        BY NullTypes
    <1>6. TypeOK
        BY <1>2, <1>3, <1>4, <1>5, TypeParts
    <1>7. EntriesAgree /\ CreditOncePerPending
        BY DEF EntriesAgree, CreditOncePerPending
    <1>8. \A h \in Handler : RequestAgrees(req[h])
        BY IdleAgrees
    <1>9. \A k \in Task : ResumeAgrees(job[k])
        BY IdleAgrees
    <1>10. ProcessedMeansCredited
        BY <1>1 DEF ProcessedMeansCredited
    <1> QED
        BY <1>6, <1>7, <1>8, <1>9, <1>10 DEF InboundInv

LEMMA HandlerInv ==
    ASSUME InboundInv, NEW h \in Handler,
           HandlerStep(h) \/ CircleStep(h) \/ \E n \in Hook : Deliver(h, n)
    PROVE  InboundInv'
    <1>1. CASE \E n \in Hook : Deliver(h, n)
        BY <1>1, DeliverInv
    <1>2. CASE CircleStep(h)
        BY <1>2, CircleHookInv, CircleStatusInv, CircleDepositsInv, CircleTopsUpInv, CircleRefusesInv
            DEF CircleStep
    <1>3. ASSUME NEW n \in Hook,
                 Skip(h, n) \/ Duplicate(h, n) \/ Receive(h, n)
                 \/ ReplayProcessed(h, n) \/ TopUpNoticed(h, n)
          PROVE  InboundInv'
        BY <1>3, SkipInv, DuplicateInv, ReceiveInv, ReplayProcessedInv, TopUpNoticedInv
    <1>4. CASE \/ StartDeposit(h) \/ DepositFailed(h) \/ DepositAwaitsGas(h)
               \/ DepositCompleted(h) \/ MarkProcessed(h) \/ Finish(h)
        BY <1>4, StartDepositInv, DepositFailedInv, DepositAwaitsGasInv,
           DepositCompletedInv, MarkProcessedInv, FinishInv
    <1>5. CASE \E i \in DOMAIN pendings : CreditNext(h, i)
        BY <1>5, CreditNextInv
    <1> QED
        BY <1>1, <1>2, <1>3, <1>4, <1>5 DEF HandlerStep

LEMMA NextInv == InboundInv /\ [Next]_vars => InboundInv'
    <1> SUFFICES ASSUME InboundInv, [Next]_vars PROVE InboundInv'
        OBVIOUS
    <1>1. CASE UNCHANGED vars
        <2>1. Grow /\ Books'
            BY <1>1, BooksClosed DEF vars, worldVars
        <2>2. CircleTypes' /\ OtherTypes'
            BY <1>1 DEF InboundInv, TypeOK, CircleTypes, OtherTypes, vars, worldVars, circleVars
        <2> QED
            BY <1>1, <2>1, <2>2, NobodyMoves DEF vars
    <1>2. CASE \/ \E t \in Tx : Arrive(t)
               \/ BindWallet
               \/ \E i \in Intent : GasArrives(i)
               \/ Crash
        BY <1>2, ArriveInv, BindWalletInv, GasArrivesInv, CrashInv
    <1>3. ASSUME NEW h \in Handler,
                 HandlerStep(h) \/ CircleStep(h) \/ \E n \in Hook : Deliver(h, n)
          PROVE  InboundInv'
        BY <1>3, HandlerInv
    <1>4. ASSUME NEW k \in Task, TaskStep(k)
          PROVE  InboundInv'
        BY <1>4, ResumeCallInv, ResumeDepositsInv, ResumeRefusedInv, ResumeMarksInv,
           ResumeCreditsInv, ResumeFindsCreditInv DEF TaskStep
    <1> QED
        BY <1>1, <1>2, <1>3, <1>4 DEF Next

(* The inductive invariant of the inbound path: entries, requests and      *)
(* resume tasks agree in every reachable state of every instance.          *)
THEOREM InboundInvariant == Spec => []InboundInv
    BY InitInv, NextInv, PTL DEF Spec

(* Every variable keeps its type.                                          *)
THEOREM TypeCorrect == Spec => []TypeOK
    <1>1. InboundInv => TypeOK
        BY DEF InboundInv
    <1> QED
        BY <1>1, InboundInvariant, PTL

(* No pending_inbound entry is ever credited twice, whichever of the       *)
(* handlers and resume tasks run and wherever they are interrupted.        *)
THEOREM NoEntryCreditedTwice == Spec => []CreditOncePerPending
    <1>1. InboundInv => CreditOncePerPending
        BY DEF InboundInv
    <1> QED
        BY <1>1, InboundInvariant, PTL

(* A notification is only ever marked processed when its payment has been  *)
(* credited, crashes between the two store calls included.                 *)
THEOREM NothingProcessedUncredited == Spec => []ProcessedMeansCredited
    <1>1. InboundInv => ProcessedMeansCredited
        BY DEF InboundInv
    <1> QED
        BY <1>1, InboundInvariant, PTL

-----------------------------------------------------------------------------
(* One request at a time makes no second entry for a payment.              *)

OneHandler == \A g, h \in Handler : g = h

HasEntry == {pendings[i].tx : i \in DOMAIN pendings}

RequestAlone(r) ==
    /\ r.seen = "processed" => r.note \in Intent \/ CreditedTx(TxOf[r.note])
    /\ r.pc \in {"status", "balance"} /\ r.entry = 0 => TxOf[r.note] \notin HasEntry

OneEntryEach ==
    /\ \A i, j \in DOMAIN pendings : pendings[i].tx = pendings[j].tx => i = j
    /\ \A h \in Handler : RequestAlone(req[h])

CreditsStay == \A t : CreditedTx(t) => CreditedTx(t)'

(* What a credit writes.                                                   *)
LEMMA CreditWrites ==
    ASSUME InboundInv, NEW i \in DOMAIN pendings, CreditPending(i)
    PROVE  /\ pendings[i].tx \in arrived /\ pendings[i].tx \in Tx
           /\ available' = available + Value[pendings[i].tx]
           /\ credits' # credits
           /\ Len(credits') = Len(credits) + 1
           /\ DOMAIN credits' = DOMAIN credits \cup {Len(credits) + 1}
           /\ \A c \in DOMAIN credits : credits'[c] = credits[c]
           /\ credits'[Len(credits) + 1].tx = pendings[i].tx
           /\ \A t : CreditedTx(t)' <=> CreditedTx(t) \/ t = pendings[i].tx
           /\ CreditsStay
    <1>1. pendings \in Seq(Pending) /\ credits \in Seq(Credit)
        BY DEF InboundInv, TypeOK
    <1>2. pendings[i].tx \in arrived /\ pendings[i].tx \in Tx
        BY DEF InboundInv, EntriesAgree, TypeOK
    <1>3. PICK e \in Credit : e = [link |-> i, tx |-> pendings[i].tx]
        <2>1. i \in Nat
            BY <1>1
        <2> QED
            BY <1>2, <2>1 DEF Credit
    <1>4. credits' = Append(credits, e) /\ available' = available + Value[pendings[i].tx]
        BY <1>3 DEF CreditPending
    <1>5. /\ Len(credits') = Len(credits) + 1
          /\ DOMAIN credits' = DOMAIN credits \cup {Len(credits) + 1}
          /\ \A c \in DOMAIN credits : credits'[c] = credits[c]
          /\ credits'[Len(credits) + 1].tx = pendings[i].tx
        BY <1>1, <1>3, <1>4, AppendFacts
    <1>6. credits' # credits
        <2>1. Len(credits) \in Nat
            BY <1>1
        <2> QED
            BY <1>5, <2>1
    <1>7. \A t : CreditedTx(t)' <=> CreditedTx(t) \/ t = pendings[i].tx
        BY <1>5 DEF CreditedTx
    <1> QED
        BY <1>2, <1>4, <1>5, <1>6, <1>7 DEF CreditsStay

LEMMA CreditsRest ==
    ASSUME UNCHANGED credits
    PROVE  CreditsStay
    BY DEF CreditsStay, CreditedTx

(* Nobody's request moves and no entry is made.                            *)
LEMMA AloneRest ==
    ASSUME OneEntryEach, CreditsStay, UNCHANGED <<pendings, req>>
    PROVE  OneEntryEach'
    BY DEF OneEntryEach, RequestAlone, HasEntry, CreditsStay

(* The one request moves and no entry is made.                             *)
LEMMA AloneMoves ==
    ASSUME InboundInv, OneHandler, OneEntryEach, CreditsStay, UNCHANGED pendings,
           NEW h \in Handler, NEW r, Goto(h, r), RequestAlone(r)
    PROVE  OneEntryEach'
    <1>1. \A g \in Handler : req'[g] = r
        BY DEF OneHandler, InboundInv, TypeOK, Goto
    <1>2. RequestAlone(r)'
        BY DEF RequestAlone, HasEntry, CreditsStay
    <1>3. (\A g \in Handler : RequestAlone(req[g]))'
        BY <1>1, <1>2 DEF RequestAlone
    <1>4. (\A i, j \in DOMAIN pendings : pendings[i].tx = pendings[j].tx => i = j)'
        BY DEF OneEntryEach
    <1> QED
        BY <1>3, <1>4 DEF OneEntryEach

LEMMA AloneOnward ==
    ASSUME InboundInv, OneHandler, OneEntryEach, CreditsStay, UNCHANGED pendings,
           NEW h \in Handler, NEW r, Goto(h, r),
           r.seen = req[h].seen, r.note = req[h].note,
           r.pc \in {"status", "balance"} => req[h].pc = "status" /\ r.entry = req[h].entry
    PROVE  OneEntryEach'
    <1>1. RequestAlone(r)
        BY DEF OneEntryEach, RequestAlone
    <1> QED
        BY <1>1, AloneMoves

LEMMA AloneGone ==
    ASSUME InboundInv, OneHandler, OneEntryEach, UNCHANGED <<pendings, credits>>,
           NEW h \in Handler, Goto(h, NoRequest)
    PROVE  OneEntryEach'
    <1>1. RequestAlone(NoRequest)
        BY DEF RequestAlone, NoRequest
    <1> QED
        BY <1>1, CreditsRest, AloneMoves

LEMMA DeliverAlone ==
    ASSUME InboundInv, OneHandler, Legacy = {}, OneEntryEach,
           NEW h \in Handler, NEW n \in Hook, Deliver(h, n)
    PROVE  OneEntryEach'
    <1> USE DEF Deliver, ledgerVars
    <1>1. CASE events[n] = "skipped"
        BY <1>1, AloneGone DEF Reply
    <1>2. CASE events[n] # "skipped"
        <2>1. PICK r : /\ Goto(h, r)
                       /\ r = [NoRequest EXCEPT !.pc = "hook", !.note = n, !.seen = events[n]]
            BY <1>2
        <2>2. r.pc = "hook" /\ r.note = n /\ r.seen = events[n]
            BY <2>1 DEF NoRequest
        <2>3. events[n] = "processed" => n \in Intent \/ CreditedTx(TxOf[n])
            BY DEF InboundInv, ProcessedMeansCredited, Hook
        <2>4. RequestAlone(r)
            BY <2>2, <2>3 DEF RequestAlone
        <2> QED
            BY <2>1, <2>4, CreditsRest, AloneMoves
    <1> QED
        BY <1>1, <1>2

LEMMA ReceiveAlone ==
    ASSUME InboundInv, OneHandler, OneEntryEach, NEW h \in Handler, NEW n \in Hook, Receive(h, n)
    PROVE  OneEntryEach'
    <1> USE DEF Receive
    <1>1. PICK p, r :
            /\ p \in 0..Len(pendings)
            /\ IsFirst(p, MatchingPending(n))
            /\ r = [req[h] EXCEPT !.pc = "status", !.seen = "none", !.entry = p]
            /\ Goto(h, r)
        OBVIOUS
    <1>2. r.pc = "status" /\ r.seen = "none" /\ r.entry = p /\ r.note = n
        BY <1>1 DEF InboundInv, TypeOK, Request, Inbound
    <1>3. p = 0 => TxOf[n] \notin HasEntry
        <2> SUFFICES ASSUME p = 0, NEW i \in DOMAIN pendings, pendings[i].tx = TxOf[n]
                     PROVE  FALSE
            BY DEF HasEntry
        <2>1. i \in MatchingPending(n)
            BY DEF MatchingPending
        <2>2. p \in MatchingPending(n)
            BY <1>1, <2>1 DEF IsFirst
        <2>3. pendings \in Seq(Pending)
            BY DEF InboundInv, TypeOK
        <2> QED
            BY <2>2, <2>3 DEF MatchingPending
    <1>4. RequestAlone(r)
        BY <1>2, <1>3 DEF RequestAlone
    <1> QED
        BY <1>1, <1>4, CreditsRest, AloneMoves

(* A processed event has its credit and its entry: nothing is replayed.    *)
LEMMA NothingReplayed ==
    ASSUME InboundInv, OneEntryEach, NEW h \in Handler, NEW n \in Hook
    PROVE  ~ReplayProcessed(h, n)
    <1> SUFFICES ASSUME ReplayProcessed(h, n) PROVE FALSE
        OBVIOUS
    <1>1. /\ req[h].seen = "processed" /\ req[h].note = n /\ n \in Note
          /\ ~(MatchingCredit(n) /\ MatchingPending(n) # {})
        BY InboundAssumption DEF ReplayProcessed, Inbound
    <1>2. n \in Intent \/ CreditedTx(TxOf[n])
        BY <1>1 DEF OneEntryEach, RequestAlone
    <1>3. PICK c \in DOMAIN credits : credits[c].tx = TxOf[n]
        BY <1>1, <1>2, InboundAssumption DEF CreditedTx
    <1>4. MatchingCredit(n)
        BY <1>3 DEF MatchingCredit
    <1>5. credits[c].link \in MatchingPending(n)
        BY <1>3 DEF MatchingPending, InboundInv, EntriesAgree
    <1> QED
        BY <1>1, <1>4, <1>5

(* The one request found no entry of its payment, and finds none now.      *)
LEMMA StartDepositAlone ==
    ASSUME InboundInv, OneHandler, OneEntryEach, NEW h \in Handler, StartDeposit(h)
    PROVE  OneEntryEach'
    <1> USE DEF StartDeposit
    <1>1. PICK q \in Request : q = req[h] /\ RequestAgrees(q) /\ RequestAlone(q)
        BY DEF InboundInv, TypeOK, OneEntryEach
    <1>2. PICK r : Goto(h, r) /\ r = [q EXCEPT !.pc = "deposit", !.entry = Ensured(q.entry)]
        BY <1>1
    <1>3. r.pc = "deposit" /\ r.note = q.note /\ r.seen = q.seen /\ q.pc = "balance"
        BY <1>1, <1>2 DEF Request
    <1>4. CASE q.entry # 0
        <2>1. UNCHANGED pendings
            BY <1>1, <1>4 DEF EnsurePending
        <2> QED
            BY <1>1, <1>2, <1>3, <2>1, CreditsRest, AloneOnward
    <1>5. CASE q.entry = 0
        <2>1. q.note \in Note /\ pendings \in Seq(Pending)
            BY <1>1, <1>3, InboundAssumption DEF RequestAgrees, InboundInv, TypeOK
        <2>2. PICK e \in Pending : e = [tx |-> TxOf[q.note], note |-> q.note]
            BY <2>1, InboundAssumption DEF Pending
        <2>3. pendings' = Append(pendings, e)
            BY <1>1, <1>5, <2>2 DEF EnsurePending
        <2>4. /\ DOMAIN pendings' = DOMAIN pendings \cup {Len(pendings) + 1}
              /\ \A i \in DOMAIN pendings : pendings'[i] = pendings[i]
              /\ pendings'[Len(pendings) + 1].tx = TxOf[q.note]
            BY <2>1, <2>2, <2>3, AppendFacts
        <2>5. \A i \in DOMAIN pendings : pendings[i].tx # TxOf[q.note]
            BY <1>1, <1>3, <1>5 DEF RequestAlone, HasEntry
        <2>6. \A i, j \in DOMAIN pendings' : pendings'[i].tx = pendings'[j].tx => i = j
            BY <2>4, <2>5 DEF OneEntryEach
        <2>7. RequestAlone(r)'
            BY <1>1, <1>3 DEF RequestAlone, CreditedTx
        <2>8. \A g \in Handler : req'[g] = r
            BY <1>2 DEF OneHandler, InboundInv, TypeOK, Goto
        <2>9. (\A g \in Handler : RequestAlone(req[g]))'
            BY <2>7, <2>8 DEF RequestAlone
        <2> QED
            BY <2>6, <2>9 DEF OneEntryEach
    <1> QED
        BY <1>4, <1>5

LEMMA CircleAlone ==
    ASSUME InboundInv, OneHandler, OneEntryEach, NEW h \in Handler, CircleStep(h)
    PROVE  OneEntryEach'
    <1> USE DEF ledgerVars
    <1>1. PICK q \in Request : q = req[h]
        BY DEF InboundInv, TypeOK
    <1>2. \A pc : /\ [q EXCEPT !.pc = pc].pc = pc
                  /\ [q EXCEPT !.pc = pc].seen = q.seen
                  /\ [q EXCEPT !.pc = pc].note = q.note
                  /\ [q EXCEPT !.pc = pc].entry = q.entry
        BY DEF Request
    <1>3. UNCHANGED <<pendings, credits>>
        BY DEF CircleStep, CircleHook, CircleStatus, CircleDeposits, CircleTopsUp, CircleRefuses
    <1>4. CASE CircleStatus(h)
        <2>1. PICK r : /\ Goto(h, r)
                       /\ r \in {[q EXCEPT !.pc = "balance", !.amount = wallet],
                                 [q EXCEPT !.pc = "failed"]}
            BY <1>1, <1>4 DEF CircleStatus
        <2>2. /\ r.seen = q.seen /\ r.note = q.note /\ r.entry = q.entry
              /\ q.pc = "status"
            BY <1>1, <1>4, <2>1 DEF Request, CircleStatus
        <2> QED
            BY <1>1, <1>3, <2>1, <2>2, CreditsRest, AloneOnward
    <1>5. CASE ~CircleStatus(h)
        <2>1. PICK pc \in {"topup_complete", "topup_known", "deposited", "failed", "gas_pending"} :
                Goto(h, [q EXCEPT !.pc = pc])
            BY <1>1, <1>5 DEF CircleStep, CircleHook, CircleDeposits, CircleTopsUp, CircleRefuses
        <2> QED
            BY <1>1, <1>2, <1>3, <2>1, CreditsRest, AloneOnward
    <1> QED
        BY <1>4, <1>5

LEMMA LoopAlone ==
    ASSUME InboundInv, OneHandler, OneEntryEach, NEW h \in Handler,
           \/ DepositCompleted(h) \/ MarkProcessed(h)
           \/ \E i \in DOMAIN pendings : CreditNext(h, i)
    PROVE  OneEntryEach'
    <1>1. PICK q \in Request : q = req[h]
        BY DEF InboundInv, TypeOK
    <1>2. CreditsStay
        BY CreditsRest, CreditWrites DEF DepositCompleted, MarkProcessed, CreditNext, ledgerVars
    <1>3. UNCHANGED pendings
        BY DEF DepositCompleted, MarkProcessed, CreditNext, ledgerVars
    <1>4. PICK r : /\ Goto(h, r)
                   /\ \/ \E B : r = [q EXCEPT !.pc = "crediting", !.batch = B]
                      \/ \E i : r = [q EXCEPT !.pc = "marking", !.current = i]
                      \/ r = [q EXCEPT !.pc = "crediting"]
        BY <1>1 DEF DepositCompleted, MarkProcessed, CreditNext
    <1>5. r.pc \in {"crediting", "marking"} /\ r.seen = q.seen /\ r.note = q.note
        BY <1>1, <1>4 DEF Request
    <1> QED
        BY <1>1, <1>2, <1>3, <1>4, <1>5, AloneOnward

LEMMA AnsweredAlone ==
    ASSUME InboundInv, OneHandler, OneEntryEach, NEW h \in Handler, NEW n \in Hook,
           \/ Skip(h, n) \/ Duplicate(h, n) \/ TopUpNoticed(h, n)
           \/ DepositFailed(h) \/ DepositAwaitsGas(h) \/ Finish(h)
    PROVE  OneEntryEach'
    BY AloneGone
       DEF Skip, Duplicate, TopUpNoticed, DepositFailed, DepositAwaitsGas, Finish, Reply

LEMMA TaskAlone ==
    ASSUME InboundInv, OneEntryEach, NEW k \in Task, TaskStep(k)
    PROVE  OneEntryEach'
    <1>1. UNCHANGED <<pendings, req>>
        BY DEF TaskStep, ResumeCall, ResumeDeposits, ResumeRefused, ResumeMarks,
               ResumeCredits, ResumeFindsCredit, ledgerVars
    <1>2. CreditsStay
        <2>1. CASE UNCHANGED credits
            BY <2>1, CreditsRest
        <2>2. ASSUME NEW i \in 0..Len(pendings), ResumeCredits(k, i)
              PROVE  CreditsStay
            <3>1. i \in DOMAIN pendings
                BY <2>2 DEF ResumeCredits, InboundInv, TypeOK
            <3> QED
                BY <2>2, <3>1, CreditWrites DEF ResumeCredits
        <2> QED
            BY <2>1, <2>2 DEF TaskStep, ResumeCall, ResumeDeposits, ResumeRefused, ResumeMarks,
                              ResumeFindsCredit, ledgerVars
    <1> QED
        BY <1>1, <1>2, AloneRest

LEMMA InitAlone == Init => OneEntryEach
    <1> SUFFICES ASSUME Init PROVE OneEntryEach
        OBVIOUS
    <1>1. pendings = << >> /\ \A h \in Handler : req[h] = NoRequest
        BY DEF Init
    <1> QED
        BY <1>1 DEF OneEntryEach, RequestAlone, NoRequest

LEMMA NextAlone ==
    ASSUME OneHandler, Legacy = {}, InboundInv, OneEntryEach, [Next]_vars
    PROVE  OneEntryEach'
    <1>1. CASE \/ UNCHANGED vars
               \/ \E t \in Tx : Arrive(t)
               \/ BindWallet
               \/ \E i \in Intent : GasArrives(i)
        BY <1>1, AloneRest, CreditsRest DEF vars, Arrive, BindWallet, GasArrives, ledgerVars
    <1>2. CASE Crash
        <2>1. \A h \in Handler : req'[h] = NoRequest
            BY <1>2 DEF Crash
        <2>2. UNCHANGED pendings
            BY <1>2 DEF Crash, ledgerVars
        <2> QED
            BY <2>1, <2>2 DEF OneEntryEach, RequestAlone, NoRequest
    <1>3. ASSUME NEW h \in Handler, NEW n \in Hook,
                 \/ Deliver(h, n) \/ Skip(h, n) \/ Duplicate(h, n) \/ Receive(h, n)
                 \/ ReplayProcessed(h, n) \/ TopUpNoticed(h, n)
          PROVE  OneEntryEach'
        BY <1>3, DeliverAlone, AnsweredAlone, ReceiveAlone, NothingReplayed
    <1>4. ASSUME NEW h \in Handler,
                 \/ CircleStep(h) \/ StartDeposit(h) \/ DepositCompleted(h) \/ MarkProcessed(h)
                 \/ \E i \in DOMAIN pendings : CreditNext(h, i)
          PROVE  OneEntryEach'
        BY <1>4, CircleAlone, StartDepositAlone, LoopAlone
    <1>5. ASSUME NEW h \in Handler, DepositFailed(h) \/ DepositAwaitsGas(h) \/ Finish(h)
          PROVE  OneEntryEach'
        BY <1>5, AloneGone DEF DepositFailed, DepositAwaitsGas, Finish, Reply
    <1>6. ASSUME NEW k \in Task, TaskStep(k)
          PROVE  OneEntryEach'
        BY <1>6, TaskAlone
    <1> QED
        BY <1>1, <1>2, <1>3, <1>4, <1>5, <1>6 DEF Next, HandlerStep

(* The task finds no credit linked to its entry, and no other entry is of  *)
(* the same payment: the payment is not credited.                          *)
LEMMA ResumeCreditsAlone ==
    ASSUME InboundInv, OneEntryEach, NEW k \in Task, NEW i \in 0..Len(pendings),
           ResumeCredits(k, i)
    PROVE  i \in DOMAIN pendings /\ ~CreditedTx(pendings[i].tx)
    <1>1. i \in DOMAIN pendings /\ ~LinkedCredit(i)
        BY DEF ResumeCredits, InboundInv, TypeOK
    <1>2. ASSUME NEW c \in DOMAIN credits, credits[c].tx = pendings[i].tx
          PROVE  FALSE
        <2>1. /\ credits[c].link \in DOMAIN pendings
              /\ pendings[credits[c].link].tx = pendings[i].tx
            BY <1>2 DEF InboundInv, EntriesAgree
        <2>2. credits[c].link = i
            BY <1>1, <2>1 DEF OneEntryEach
        <2> QED
            BY <1>1, <2>2 DEF LinkedCredit
    <1> QED
        BY <1>1, <1>2 DEF CreditedTx

(* Every step but those of the credit loop and of the resume task leaves   *)
(* the credits alone, and only the arrival of a payment adds to those that *)
(* arrived.                                                                *)
LEMMA OnlyTwoCredit ==
    ASSUME Next
    PROVE  \/ UNCHANGED <<credits, available>> /\ UNCHANGED arrived
           \/ UNCHANGED <<credits, available>> /\ \E t \in Tx : Arrive(t)
           \/ UNCHANGED arrived
              /\ \E h \in Handler, i \in DOMAIN pendings : CreditNext(h, i)
           \/ UNCHANGED arrived
              /\ \E k \in Task, i \in 0..Len(pendings) : ResumeCredits(k, i)
    <1>1. CASE \E h \in Handler, i \in DOMAIN pendings : CreditNext(h, i)
        BY <1>1 DEF CreditNext, worldVars
    <1>2. CASE \/ \E t \in Tx : Arrive(t)
               \/ BindWallet
               \/ \E i \in Intent : GasArrives(i)
               \/ Crash
        BY <1>2 DEF Arrive, BindWallet, GasArrives, Crash, ledgerVars, worldVars
    <1>3. ASSUME NEW h \in Handler, NEW n \in Hook,
                 \/ Deliver(h, n) \/ Skip(h, n) \/ Duplicate(h, n) \/ Receive(h, n)
                 \/ ReplayProcessed(h, n) \/ TopUpNoticed(h, n)
          PROVE  UNCHANGED <<arrived, credits, available>>
        BY <1>3 DEF Deliver, Skip, Duplicate, Receive, ReplayProcessed, TopUpNoticed,
                    ledgerVars, worldVars
    <1>4. ASSUME NEW h \in Handler,
                 \/ CircleStep(h)
                 \/ StartDeposit(h) \/ DepositFailed(h) \/ DepositAwaitsGas(h)
                 \/ DepositCompleted(h) \/ MarkProcessed(h) \/ Finish(h)
          PROVE  UNCHANGED <<arrived, credits, available>>
        BY <1>4 DEF CircleStep, CircleHook, CircleStatus, CircleDeposits, CircleTopsUp, CircleRefuses,
                    StartDeposit, DepositFailed, DepositAwaitsGas, DepositCompleted,
                    MarkProcessed, Finish, ledgerVars, worldVars
    <1>5. ASSUME NEW k \in Task, NEW i \in 0..Len(pendings), ResumeCredits(k, i)
          PROVE  UNCHANGED arrived
        BY <1>5 DEF ResumeCredits, worldVars
    <1>6. ASSUME NEW k \in Task, NEW i \in 0..Len(pendings),
                 \/ ResumeCall(k) \/ ResumeDeposits(k) \/ ResumeRefused(k) \/ ResumeMarks(k)
                 \/ ResumeFindsCredit(k, i)
          PROVE  UNCHANGED <<arrived, credits, available>>
        BY <1>6 DEF ResumeCall, ResumeDeposits, ResumeRefused, ResumeMarks, ResumeFindsCredit,
                    ledgerVars, worldVars
    <1> QED
        BY <1>1, <1>2, <1>3, <1>4, <1>5, <1>6 DEF Next, HandlerStep, TaskStep

(* What the theorems below are about: no resume task, or one request at a  *)
(* time and no event that was processed before entries were recorded.      *)
Serial == Task = {} \/ (OneHandler /\ Legacy = {})

SerialInv == InboundInv /\ (Task = {} \/ OneEntryEach)

LEMMA SerialInvariant ==
    ASSUME Serial
    PROVE  /\ Init => SerialInv
           /\ SerialInv /\ [Next]_vars => SerialInv'
    BY InitInv, NextInv, InitAlone, NextAlone DEF Serial, SerialInv

(* In every step at most one payment is credited, one that had none.       *)
LEMMA StepPays ==
    ASSUME SerialInv, [Next]_vars
    PROVE  \/ UNCHANGED <<credits, available>> /\ UNCHANGED arrived
           \/ UNCHANGED <<credits, available>> /\ \E t \in Tx : Arrive(t)
           \/ UNCHANGED arrived
              /\ \E t \in arrived :
                    /\ ~CreditedTx(t)
                    /\ available' = available + Value[t]
                    /\ DOMAIN credits' = DOMAIN credits \cup {Len(credits) + 1}
                    /\ \A c \in DOMAIN credits : credits'[c] = credits[c]
                    /\ credits'[Len(credits) + 1].tx = t
    <1>1. CASE UNCHANGED vars
        BY <1>1 DEF vars, worldVars, ledgerVars
    <1>2. ASSUME NEW h \in Handler, NEW i \in DOMAIN pendings, CreditNext(h, i)
          PROVE  CreditPending(i) /\ ~CreditedTx(pendings[i].tx)
        BY <1>2 DEF CreditNext, OpenBatch, IsFirst, CreditLinkedToPending
    <1>3. ASSUME NEW k \in Task, NEW i \in 0..Len(pendings), ResumeCredits(k, i)
          PROVE  i \in DOMAIN pendings /\ CreditPending(i) /\ ~CreditedTx(pendings[i].tx)
        BY <1>3, ResumeCreditsAlone DEF ResumeCredits, SerialInv
    <1>4. InboundInv
        BY DEF SerialInv
    <1> QED
        BY <1>1, <1>2, <1>3, <1>4, CreditWrites, OnlyTwoCredit

(* No payment is credited twice, however many notifications announce it    *)
(* and however their handlers crash and are repeated: with any number of   *)
(* handlers at a time if no resume task runs, and with any number of tasks *)
(* besides one handler at a time.                                          *)
THEOREM NoTransactionCreditedTwice ==
    ASSUME Serial
    PROVE  Spec => []CreditOncePerTransaction
    <1>1. Init => CreditOncePerTransaction
        BY DEF Init, CreditOncePerTransaction
    <1>2. SerialInv /\ CreditOncePerTransaction /\ [Next]_vars => CreditOncePerTransaction'
        <2> SUFFICES ASSUME SerialInv, CreditOncePerTransaction, [Next]_vars
                     PROVE  CreditOncePerTransaction'
            OBVIOUS
        <2>1. CASE UNCHANGED credits
            BY <2>1 DEF CreditOncePerTransaction
        <2>2. ASSUME NEW t \in arrived, ~CreditedTx(t),
                     DOMAIN credits' = DOMAIN credits \cup {Len(credits) + 1},
                     \A c \in DOMAIN credits : credits'[c] = credits[c],
                     credits'[Len(credits) + 1].tx = t
              PROVE  CreditOncePerTransaction'
            BY <2>2 DEF CreditOncePerTransaction, CreditedTx
        <2> QED
            BY <2>1, <2>2, StepPays
    <1> QED
        BY <1>1, <1>2, SerialInvariant, PTL DEF Spec

(* The handlers implement InboundPromise: the credits are payments made,   *)
(* each arrived before, each in full, each once.                           *)
THEOREM HandlersKeepPromise ==
    ASSUME Serial
    PROVE  Spec => KeepsPromise
    <1> DEFINE paid == {credits[c].tx : c \in DOMAIN credits}
    <1>1. Init => Promise!Init
        BY InboundAssumption DEF Init, Promise!Init
    <1>2. SerialInv /\ [Next]_vars => [Promise!Next]_<<arrived, paid, available>>
        <2> SUFFICES ASSUME SerialInv, [Next]_vars
                     PROVE  [Promise!Next]_<<arrived, paid, available>>
            OBVIOUS
        <2>1. CASE UNCHANGED <<arrived, credits, available>>
            BY <2>1
        <2>2. ASSUME NEW t \in Tx, Arrive(t), UNCHANGED <<credits, available>>
              PROVE  Promise!Next
            BY <2>2 DEF Arrive, Promise!Next, Promise!Arrive
        <2>3. ASSUME NEW t \in arrived, ~CreditedTx(t), UNCHANGED arrived,
                     available' = available + Value[t],
                     DOMAIN credits' = DOMAIN credits \cup {Len(credits) + 1},
                     \A c \in DOMAIN credits : credits'[c] = credits[c],
                     credits'[Len(credits) + 1].tx = t
              PROVE  Promise!Next
            <3>1. t \in Tx /\ t \notin paid
                BY <2>3 DEF CreditedTx, SerialInv, InboundInv, TypeOK
            <3>2. paid' = paid \cup {t}
                BY <2>3
            <3> QED
                BY <2>3, <3>1, <3>2 DEF Promise!Next, Promise!Pay
        <2> QED
            BY <2>1, <2>2, <2>3, StepPays
    <1> QED
        BY <1>1, <1>2, SerialInvariant, PTL DEF Spec, KeepsPromise, Promise!Spec
-----------------------------------------------------------------------------
(* Totals of sets of payments.                                             *)

Payments == {S \in SUBSET Tx : IsFiniteSet(S)}

LEMMA UnitsOfOne ==
    ASSUME NEW x, NEW n \in Nat
    PROVE  IsFiniteSet({x} \X (1..n)) /\ Cardinality({x} \X (1..n)) = n
    <1>1. IsFiniteSet(1..n) /\ Cardinality(1..n) = n
        BY FS_Interval
    <1>2. IsFiniteSet({x}) /\ Cardinality({x}) = 1
        BY FS_Singleton
    <1>3. /\ IsFiniteSet({x} \X (1..n))
          /\ Cardinality({x} \X (1..n)) = Cardinality({x}) * Cardinality(1..n)
        BY <1>1, <1>2, FS_Product
    <1> QED
        BY <1>1, <1>2, <1>3

LEMMA PaymentsFinite ==
    ASSUME NEW S \in Payments
    PROVE  IsFiniteSet(Units(S)) /\ Total(S) \in Nat
    <1> DEFINE all == {{t} \X (1..Value[t]) : t \in S}
               f == [t \in S |-> {t} \X (1..Value[t])]
    <1>1. IsFiniteSet(S) /\ S \subseteq Tx
        BY DEF Payments
    <1>2. f \in Surjection(S, all)
        BY DEF Surjection
    <1>3. IsFiniteSet(all)
        <2> HIDE DEF all, f
        <2> QED BY <1>1, <1>2, FS_Surjection
    <1>4. \A U \in all : IsFiniteSet(U)
        <2> SUFFICES ASSUME NEW t \in S PROVE IsFiniteSet({t} \X (1..Value[t]))
            OBVIOUS
        <2>1. Value[t] \in Nat
            BY <1>1, InboundAssumption
        <2> QED
            BY <2>1, UnitsOfOne
    <1>5. IsFiniteSet(UNION all)
        <2> HIDE DEF all
        <2> QED BY <1>3, <1>4, FS_UNION
    <1>6. Units(S) = UNION all
        BY DEF Units
    <1> HIDE DEF all
    <1>7. IsFiniteSet(Units(S))
        BY <1>5, <1>6
    <1> QED
        BY <1>7, FS_CardinalityType DEF Total

(* Fewer payments are no more money.                                       *)
LEMMA TotalMonotone ==
    ASSUME NEW T \in Payments, NEW S \in SUBSET T
    PROVE  S \in Payments /\ Total(S) <= Total(T)
    <1>1. S \in Payments
        BY FS_Subset DEF Payments
    <1>2. Units(S) \in SUBSET Units(T)
        BY DEF Units
    <1>3. IsFiniteSet(Units(T))
        BY PaymentsFinite
    <1>4. Cardinality(Units(S)) <= Cardinality(Units(T))
        BY <1>2, <1>3, FS_Subset
    <1> QED
        BY <1>1, <1>4 DEF Total

(* A further payment adds its value.                                       *)
LEMMA TotalWith ==
    ASSUME NEW S \in Payments, NEW t \in Tx, t \notin S
    PROVE  S \cup {t} \in Payments /\ Total(S \cup {t}) = Total(S) + Value[t]
    <1>1. S \cup {t} \in Payments
        BY FS_AddElement DEF Payments
    <1>2. Value[t] \in Nat
        BY InboundAssumption
    <1>3. /\ Units(S \cup {t}) = Units(S) \cup ({t} \X (1..Value[t]))
          /\ Units(S) \cap ({t} \X (1..Value[t])) = {}
        BY DEF Units
    <1>4. /\ IsFiniteSet({t} \X (1..Value[t]))
          /\ Cardinality({t} \X (1..Value[t])) = Value[t]
        BY <1>2, UnitsOfOne
    <1>5. IsFiniteSet(Units(S)) /\ Total(S) \in Nat
        BY PaymentsFinite
    <1>6. Cardinality(Units(S) \cup ({t} \X (1..Value[t])))
              = Cardinality(Units(S)) + Cardinality({t} \X (1..Value[t]))
                - Cardinality(Units(S) \cap ({t} \X (1..Value[t])))
        BY <1>4, <1>5, FS_Union
    <1>7. Cardinality(Units(S) \cap ({t} \X (1..Value[t]))) = 0
        BY <1>3, FS_EmptySet
    <1>8. Total(S \cup {t}) = Cardinality(Units(S) \cup ({t} \X (1..Value[t])))
        BY <1>3 DEF Total
    <1>9. Total(S) = Cardinality(Units(S))
        BY DEF Total
    <1> QED
        BY <1>1, <1>2, <1>4, <1>5, <1>6, <1>7, <1>8, <1>9

(* Money is split between the payments in S and those that are not.        *)
LEMMA TotalSplit ==
    ASSUME NEW T \in Payments, NEW S \in SUBSET T
    PROVE  Total(T) = Total(S) + Total(T \ S)
    <1>1. S \in Payments /\ T \ S \in Payments
        BY TotalMonotone
    <1>2. Units(T) = Units(S) \cup Units(T \ S) /\ Units(S) \cap Units(T \ S) = {}
        BY DEF Units
    <1>3. /\ IsFiniteSet(Units(S)) /\ IsFiniteSet(Units(T \ S))
          /\ Total(S) \in Nat /\ Total(T \ S) \in Nat
        BY <1>1, PaymentsFinite
    <1>4. Cardinality(Units(S) \cup Units(T \ S))
              = Cardinality(Units(S)) + Cardinality(Units(T \ S))
                - Cardinality(Units(S) \cap Units(T \ S))
        BY <1>3, FS_Union
    <1>5. Cardinality(Units(S) \cap Units(T \ S)) = 0
        BY <1>2, FS_EmptySet
    <1>6. /\ Total(T) = Cardinality(Units(S) \cup Units(T \ S))
          /\ Total(S) = Cardinality(Units(S)) /\ Total(T \ S) = Cardinality(Units(T \ S))
        BY <1>2, Zenon DEF Total
    <1> QED
        BY <1>3, <1>4, <1>5, <1>6

LEMMA TotalOfNone == Total({}) = 0
    <1>1. Units({}) = {}
        BY DEF Units
    <1> QED
        BY <1>1, FS_EmptySet DEF Total

-----------------------------------------------------------------------------
(* What a step of the ledger or of the Circle service leaves of the bounds *)
(* on the wallet, for the sets of payments somebody remembers.             *)

Known == Pasts \cup {{}}

Steady ==
    \A past \in Known, amount \in Nat : LaterThan(past, amount) => LaterThan(past, amount)'

Settling == \A t : Settled(t) => Settled(t)'

Money == <<arrived, credits, available, wallet, old, stray>>

LEMMA PastsKnown ==
    ASSUME InboundInv, BackedInv
    PROVE  /\ \A past \in Known : past \in SUBSET PaidIn
           /\ \A p, q \in Known : p \subseteq q \/ q \subseteq p
           /\ \A h \in Handler : asked[h] \in Known
           /\ \A i \in Intent : kept[i] \in Known
           /\ {} \in Known
    BY DEF BackedInv, HistTypes, Pasts, Known

LEMMA PaidInPayments ==
    ASSUME InboundInv, BackedInv, NEW S \in SUBSET PaidIn
    PROVE  S \in Payments /\ Total(S) \in Nat
    <1>1. PaidIn \in Payments
        BY DEF InboundInv, TypeOK, BackedInv, BooksBacked, Payments, PaidIn
    <1>2. S \in Payments
        BY <1>1, TotalMonotone
    <1> QED
        BY <1>2, PaymentsFinite

LEMMA BoundTypes ==
    ASSUME InboundInv, BackedInv
    PROVE  /\ wallet \in Nat /\ gateway \in Nat /\ available \in Nat
           /\ stray \in Nat /\ Spare \in Nat
           /\ \A past : Total(Uncredited \ past) \in Nat
    <1>1. \A past : Total(Uncredited \ past) \in Nat
        BY PaidInPayments DEF Uncredited
    <1> QED
        BY <1>1 DEF InboundInv, TypeOK, BackedInv, HistTypes, BooksBacked

LEMMA QuietBounds ==
    ASSUME UNCHANGED Money
    PROVE  /\ \A past, amount : LaterThan(past, amount)' <=> LaterThan(past, amount)
           /\ Spare' = Spare /\ PaidIn' = PaidIn
           /\ Steady /\ Settling
    <1>1. Spare' = Spare /\ PaidIn' = PaidIn /\ Uncredited' = Uncredited
        BY DEF Money, Spare, PaidIn, Uncredited, CreditedTx
    <1>2. \A past, amount : LaterThan(past, amount)' <=> LaterThan(past, amount)
        BY <1>1 DEF LaterThan, Money
    <1>3. Settling
        BY DEF Settling, Settled, CreditedTx, Money
    <1> QED
        BY <1>1, <1>2, <1>3 DEF Steady

(* A payment that comes in raises both sides.                              *)
LEMMA ArriveBounds ==
    ASSUME InboundInv, BackedInv, NEW t \in Tx, Arrive(t), UNCHANGED <<old, stray>>, old \subseteq arrived
    PROVE  /\ Steady /\ Settling
           /\ IsFiniteSet(PaidIn') /\ PaidIn \subseteq PaidIn'
           /\ wallet' + gateway' = Total(PaidIn') /\ Spare' = Spare
    <1>1. /\ t \notin arrived /\ arrived' = arrived \cup {t}
          /\ wallet' = wallet + Value[t] /\ UNCHANGED <<credits, available, gateway>>
          /\ Value[t] \in Nat
        BY InboundAssumption DEF Arrive, ledgerVars
    <1>2. ~CreditedTx(t)
        BY <1>1 DEF InboundInv, EntriesAgree, CreditedTx
    <1>3. PaidIn' = PaidIn \cup {t} /\ t \notin PaidIn
        BY <1>1 DEF PaidIn
    <1>4. Uncredited' = Uncredited \cup {t} /\ t \notin Uncredited
        BY <1>1, <1>2, <1>3 DEF Uncredited, CreditedTx
    <1>5. PaidIn' \in Payments /\ Total(PaidIn') = Total(PaidIn) + Value[t]
        BY <1>3, PaidInPayments, TotalWith
    <1>6. PaidIn' \ Uncredited' = PaidIn \ Uncredited
        BY <1>3, <1>4
    <1>7. Spare' = Spare
        BY <1>1, <1>6 DEF Spare
    <1>8. ASSUME NEW past \in Known, NEW a \in Nat, LaterThan(past, a)
          PROVE  LaterThan(past, a)'
        <2>1. t \notin past
            BY <1>3, PastsKnown
        <2>2. Uncredited' \ past = (Uncredited \ past) \cup {t}
            BY <1>4, <2>1
        <2>3. Uncredited \ past \in Payments
            BY PaidInPayments DEF Uncredited
        <2>4. Total(Uncredited' \ past) = Total(Uncredited \ past) + Value[t]
            BY <1>4, <2>2, <2>3, TotalWith
        <2>5. Total(Uncredited \ past) \in Nat /\ wallet \in Nat /\ Spare \in Nat
            BY BoundTypes
        <2>6. wallet <= a + Total(Uncredited \ past) + Spare
            BY <1>8 DEF LaterThan
        <2>7. wallet' <= a + Total(Uncredited' \ past) + Spare'
            BY <1>1, <1>7, <2>4, <2>5, <2>6
        <2> QED
            BY <2>7 DEF LaterThan
    <1>9. Settling
        BY <1>1 DEF Settling, Settled, CreditedTx
    <1>10. wallet' + gateway' = Total(PaidIn')
        <2>1. wallet + gateway = Total(PaidIn) /\ wallet \in Nat /\ gateway \in Nat
            BY BoundTypes DEF BackedInv, BooksBacked
        <2> QED
            BY <1>1, <1>5, <2>1
    <1> QED
        BY <1>3, <1>5, <1>7, <1>8, <1>9, <1>10 DEF Steady, Payments

(* A deposit takes out of the wallet what a bound allowed for it.          *)
LEMMA SweepBounds ==
    ASSUME InboundInv, BackedInv, NEW amount \in Nat, Sweep(amount),
           UNCHANGED <<arrived, credits, available, old, stray>>
    PROVE  /\ Steady /\ Settling
           /\ \A past \in Known : LaterThan(past, amount) => LaterThan(past, 0)'
           /\ PaidIn' = PaidIn /\ Spare' = Spare
           /\ wallet' + gateway' = wallet + gateway
    <1>1. Spare' = Spare /\ PaidIn' = PaidIn /\ Uncredited' = Uncredited
        BY DEF Spare, PaidIn, Uncredited, CreditedTx
    <1>2. /\ wallet \in Nat /\ gateway \in Nat
          /\ wallet' = wallet - amount /\ amount <= wallet /\ gateway' = gateway + amount
        BY BoundTypes DEF Sweep
    <1>3. ASSUME NEW past \in Known
          PROVE  /\ \A a \in Nat : LaterThan(past, a) => LaterThan(past, a)'
                 /\ LaterThan(past, amount) => LaterThan(past, 0)'
        <2>1. PICK free \in Nat : free = Total(Uncredited \ past)
            BY BoundTypes
        <2>2. PICK spare \in Nat : spare = Spare
            BY BoundTypes
        <2>3. \A a : LaterThan(past, a) <=> wallet <= a + free + spare
            BY <2>1, <2>2 DEF LaterThan
        <2>4. Total(Uncredited \ past)' = free
            BY <1>1, <2>1
        <2>5. \A a : LaterThan(past, a)' <=> wallet' <= a + free + spare
            BY <1>1, <2>2, <2>4 DEF LaterThan
        <2> QED
            BY <1>2, <2>3, <2>5
    <1>4. Settling
        BY DEF Settling, Settled, CreditedTx
    <1> QED
        BY <1>1, <1>2, <1>3, <1>4 DEF Steady

(* A credit of a payment that is old or has a credit adds to the strays    *)
(* what it adds to the account.                                            *)
LEMMA SettledCredit ==
    ASSUME InboundInv, BackedInv, NEW i \in DOMAIN pendings, CreditPending(i),
           UNCHANGED <<arrived, wallet, old>>,
           Settled(pendings[i].tx), stray' = stray + Value[pendings[i].tx]
    PROVE  Steady /\ PaidIn' = PaidIn /\ Spare' = Spare
    <1>1. /\ available' = available + Value[pendings[i].tx]
          /\ \A t : CreditedTx(t)' <=> CreditedTx(t) \/ t = pendings[i].tx
          /\ Value[pendings[i].tx] \in Nat
        BY CreditWrites, InboundAssumption
    <1>2. Uncredited' = Uncredited /\ PaidIn' = PaidIn
        BY <1>1 DEF Uncredited, PaidIn, Settled
    <1>3. Total(PaidIn \ Uncredited) \in Nat
        BY PaidInPayments
    <1>4. Spare' = Spare
        <2>1. Total(PaidIn \ Uncredited)' = Total(PaidIn \ Uncredited)
            BY <1>2
        <2> QED
            BY <1>1, <1>3, <2>1, BoundTypes DEF Spare
    <1>5. \A past, a : LaterThan(past, a)' <=> LaterThan(past, a)
        BY <1>2, <1>4 DEF LaterThan
    <1> QED
        BY <1>2, <1>4, <1>5 DEF Steady

(* What the first credit of a payment does to the sums.                    *)
LEMMA FirstCredit ==
    ASSUME InboundInv, BackedInv, NEW i \in DOMAIN pendings, CreditPending(i),
           UNCHANGED <<arrived, wallet, old>>, ~Settled(pendings[i].tx),
           NEW gap \in Nat, stray' = stray + gap
    PROVE  /\ PaidIn' = PaidIn /\ Uncredited' = Uncredited \ {pendings[i].tx}
           /\ pendings[i].tx \in Uncredited
           /\ Value[pendings[i].tx] \in Nat
           /\ Spare' = Spare + gap
    <1>1. PICK t \in Tx : t = pendings[i].tx
        BY CreditWrites
    <1>2. /\ available' = available + Value[t] /\ t \in arrived
          /\ \A u : CreditedTx(u)' <=> CreditedTx(u) \/ u = t
          /\ Value[t] \in Nat
        BY <1>1, CreditWrites, InboundAssumption
    <1>3. PaidIn' = PaidIn /\ Uncredited' = Uncredited \ {t} /\ t \in Uncredited
        BY <1>1, <1>2 DEF Uncredited, PaidIn, Settled
    <1>4. /\ PaidIn' \ Uncredited' = (PaidIn \ Uncredited) \cup {t}
          /\ t \notin PaidIn \ Uncredited
        BY <1>3 DEF Uncredited
    <1>5. PaidIn \ Uncredited \in Payments /\ Total(PaidIn \ Uncredited) \in Nat
        BY PaidInPayments
    <1>6. Total(PaidIn' \ Uncredited') = Total(PaidIn \ Uncredited) + Value[t]
        BY <1>4, <1>5, TotalWith
    <1>7. Spare' = Spare + gap
        BY <1>2, <1>5, <1>6, BoundTypes DEF Spare
    <1> QED
        BY <1>1, <1>2, <1>3, <1>7

(* A credit beyond what was asked for counts as stray, and pays for what   *)
(* it takes from the payments the wallet is compared with.                 *)
LEMMA LateCredit ==
    ASSUME InboundInv, BackedInv, NEW i \in DOMAIN pendings, CreditPending(i),
           UNCHANGED <<arrived, wallet, old>>, ~Settled(pendings[i].tx),
           stray' = stray + Value[pendings[i].tx]
    PROVE  Steady /\ PaidIn' = PaidIn /\ Spare' \in Nat
    <1>1. PICK t : t = pendings[i].tx
        OBVIOUS
    <1>2. Value[t] \in Nat /\ t \in Tx
        BY <1>1, CreditWrites, InboundAssumption
    <1>3. /\ PaidIn' = PaidIn /\ Uncredited' = Uncredited \ {t} /\ t \in Uncredited
          /\ Spare' = Spare + Value[t]
        BY <1>1, <1>2, FirstCredit
    <1>4. ASSUME NEW past \in Known, NEW a \in Nat, LaterThan(past, a)
          PROVE  LaterThan(past, a)'
        <2>1. Uncredited' \ past \in Payments
            BY <1>3, PaidInPayments DEF Uncredited
        <2>2. PICK before, now :
                before = Total(Uncredited \ past) /\ now = Total(Uncredited' \ past)
            OBVIOUS
        <2>3. before \in Nat /\ now \in Nat
            BY <2>1, <2>2, BoundTypes, PaymentsFinite
        <2>4. before <= now + Value[t]
            <3>1. CASE t \in past
                <4>1. Uncredited' \ past = Uncredited \ past
                    BY <1>3, <3>1
                <4> QED
                    BY <1>2, <2>2, <2>3, <4>1
            <3>2. CASE t \notin past
                <4>1. Uncredited \ past = (Uncredited' \ past) \cup {t} /\ t \notin Uncredited' \ past
                    BY <1>3, <3>2
                <4>2. before = now + Value[t]
                    BY <1>2, <2>1, <2>2, <4>1, TotalWith
                <4> QED
                    BY <1>2, <2>3, <4>2
            <3> QED
                BY <3>1, <3>2
        <2>5. wallet <= a + before + Spare /\ wallet \in Nat /\ Spare \in Nat
            BY <1>4, <2>2, BoundTypes DEF LaterThan
        <2>6. wallet' <= a + now + (Spare + Value[t])
            BY <1>2, <2>3, <2>4, <2>5
        <2> QED
            BY <1>3, <2>2, <2>6 DEF LaterThan
    <1>5. Spare' \in Nat
        BY <1>2, <1>3, BoundTypes
    <1> QED
        BY <1>3, <1>4, <1>5 DEF Steady

(* Who credits a payment it asked for leaves every other bound as it is: a *)
(* set that does not have the payment is an earlier one, and what came in  *)
(* since the creditor asked still covers the wallet.                       *)
LEMMA AskedCredit ==
    ASSUME InboundInv, BackedInv, NEW i \in DOMAIN pendings, CreditPending(i),
           UNCHANGED <<arrived, wallet, old, stray>>, ~Settled(pendings[i].tx),
           NEW mine \in Known, LaterThan(mine, 0), pendings[i].tx \in mine
    PROVE  Steady /\ PaidIn' = PaidIn /\ Spare' = Spare
    <1>1. PICK t : t = pendings[i].tx
        OBVIOUS
    <1>2. stray \in Nat
        BY BoundTypes
    <1>3. stray' = stray + 0
        BY <1>2
    <1>4. /\ PaidIn' = PaidIn /\ Uncredited' = Uncredited \ {t} /\ t \in Uncredited
          /\ Spare' = Spare + 0
        BY <1>1, <1>3, FirstCredit
    <1>5. Spare' = Spare
        BY <1>4, BoundTypes
    <1>6. ASSUME NEW past \in Known, NEW a \in Nat, LaterThan(past, a)
          PROVE  LaterThan(past, a)'
        <2>1. CASE t \in past
            <3>1. Uncredited' \ past = Uncredited \ past
                BY <1>4, <2>1
            <3> QED
                BY <1>5, <1>6, <3>1 DEF LaterThan
        <2>2. CASE t \notin past
            <3>1. past \subseteq mine
                BY <1>1, <2>2, PastsKnown
            <3>2. Uncredited' \ past \in Payments
                BY <1>4, PaidInPayments DEF Uncredited
            <3>3. Uncredited \ mine \in SUBSET (Uncredited' \ past)
                BY <1>1, <1>4, <3>1
            <3>4. PICK before, now :
                    before = Total(Uncredited \ mine) /\ now = Total(Uncredited' \ past)
                OBVIOUS
            <3>5. before <= now /\ before \in Nat /\ now \in Nat
                BY <3>2, <3>3, <3>4, TotalMonotone, PaymentsFinite
            <3>6. wallet <= 0 + before + Spare /\ wallet \in Nat /\ Spare \in Nat
                BY <3>4, BoundTypes DEF LaterThan
            <3>7. wallet' <= a + now + Spare
                BY <3>5, <3>6
            <3> QED
                BY <1>5, <3>4, <3>7 DEF LaterThan
        <2> QED
            BY <2>1, <2>2
    <1> QED
        BY <1>4, <1>5, <1>6 DEF Steady

(* The three together: a credit by somebody whose deposit was asked for    *)
(* with mine.                                                              *)
LEMMA CreditBounds ==
    ASSUME InboundInv, BackedInv, NEW i \in DOMAIN pendings, CreditPending(i),
           UNCHANGED <<arrived, wallet, gateway, old>>, stray' = stray + Stray,
           NEW mine \in Known, LaterThan(mine, 0), AskedByCreditor = mine,
           mine = {} => Settled(pendings[i].tx)
    PROVE  Steady /\ Settling /\ PaidIn' = PaidIn /\ Spare' \in Nat /\ stray' \in Nat
    <1>1. PICK t \in Tx : t = pendings[i].tx
        BY CreditWrites
    <1>2. /\ credits' # credits /\ credits'[Len(credits')].tx = t
          /\ \A u : CreditedTx(u) => CreditedTx(u)'
        BY <1>1, CreditWrites DEF CreditsStay
    <1>3. Value[t] \in Nat /\ stray \in Nat /\ Spare \in Nat
        BY InboundAssumption, BoundTypes
    <1>4. Stray = IF Settled(t) \/ Late(t) THEN Value[t] ELSE 0
        BY <1>2 DEF Stray, Settled
    <1>5. Settling
        BY <1>2 DEF Settling, Settled
    <1>6. stray' \in Nat
        BY <1>3, <1>4
    <1>7. CASE Settled(t)
        BY <1>1, <1>3, <1>4, <1>5, <1>6, <1>7, SettledCredit
    <1>8. CASE ~Settled(t) /\ Late(t)
        BY <1>1, <1>4, <1>5, <1>6, <1>8, LateCredit
    <1>9. CASE ~Settled(t) /\ ~Late(t)
        <2>1. t \in mine /\ stray' = stray
            BY <1>1, <1>3, <1>4, <1>9 DEF Late
        <2> QED
            BY <1>1, <1>3, <1>5, <1>6, <1>9, <2>1, AskedCredit
    <1> QED
        BY <1>7, <1>8, <1>9

-----------------------------------------------------------------------------
(* What is remembered, step by step.                                       *)

Live == InboundInv /\ BackedInv /\ Remember

(* Nobody's set changes but for those of requests that start over.         *)
LEMMA AskedStays ==
    ASSUME Live, NEW h \in Handler, req'[h] = req[h]
    PROVE  /\ asked'[h] \in {asked[h], {}}
           /\ req[h].pc \notin {"idle", "hook"} => asked'[h] = asked[h]
    <1>1. ~Moves(h, "status", "balance")
        BY DEF Moves
    <1>2. asked'[h] = Asked(h)
        BY DEF Live, Remember
    <1> QED
        BY <1>1, <1>2 DEF Asked

LEMMA HistQuiet ==
    ASSUME Live, UNCHANGED credits, arrived \subseteq arrived',
           \A h \in Handler : asked'[h] \in Known \cup {PaidIn},
           \A i \in Intent : kept'[i] \in Known
    PROVE  HistTypes' /\ old' = old /\ stray' = stray
    <1>1. old' = old /\ stray \in Nat /\ old \subseteq arrived
        BY DEF Live, Remember, BackedInv, HistTypes
    <1>2. stray' = stray
        BY <1>1 DEF Live, Remember, Stray
    <1>3. PaidIn \subseteq PaidIn'
        BY <1>1 DEF PaidIn
    <1>4. /\ \A past \in Known \cup {PaidIn} : past \in SUBSET PaidIn
          /\ \A p, q \in Known \cup {PaidIn} : p \subseteq q \/ q \subseteq p
        BY PastsKnown DEF Live
    <1>5. asked' \in [Handler -> SUBSET PaidIn'] /\ kept' \in [Intent -> SUBSET PaidIn']
        BY <1>3, <1>4 DEF Live, Remember
    <1>6. \A p \in Pasts' : p \in Known \cup {PaidIn}
        BY DEF Pasts
    <1>7. \A p, q \in Pasts' : p \subseteq q \/ q \subseteq p
        BY <1>4, <1>6
    <1> QED
        BY <1>1, <1>2, <1>5, <1>7 DEF HistTypes

(* The same, when the set of the request that moves is known.              *)
LEMMA HistMove ==
    ASSUME Live, UNCHANGED credits, arrived \subseteq arrived',
           NEW h \in Handler, NEW r, Goto(h, r), asked'[h] \in Known \cup {PaidIn},
           \A i \in Intent : kept'[i] \in Known
    PROVE  HistTypes' /\ old' = old /\ stray' = stray
    <1>1. \A g \in Handler : g # h => req'[g] = req[g]
        BY DEF Live, InboundInv, TypeOK, Goto
    <1>2. \A g \in Handler : asked'[g] \in Known \cup {PaidIn}
        BY <1>1, AskedStays, PastsKnown DEF Live
    <1> QED
        BY <1>2, HistQuiet

LEMMA KeptStays ==
    ASSUME Live, NEW i \in Intent,
           intents[i].status = "none" => intents'[i].status = "none"
    PROVE  kept'[i] = kept[i] /\ kept'[i] \in Known
    <1>1. kept'[i] = kept[i]
        BY DEF Live, Remember, Kept
    <1> QED
        BY <1>1, PastsKnown DEF Live

(* The set of a request that moves on, does not ask, or starts over.       *)
LEMMA AskedOnward ==
    ASSUME Live, NEW h \in Handler, NEW r, Goto(h, r)
    PROVE  /\ req'[h] = r
           /\ r.pc \in {"idle", "hook"} => asked'[h] = {}
           /\ r.pc \notin {"idle", "hook", "balance"} => asked'[h] = asked[h]
           /\ r.pc = "balance" /\ req[h].pc = "status" => asked'[h] = PaidIn
           /\ \A g \in Handler : g # h => req'[g] = req[g]
    <1>1. req'[h] = r /\ \A g \in Handler : g # h => req'[g] = req[g]
        BY DEF Live, InboundInv, TypeOK, Goto
    <1>2. asked'[h] = Asked(h)
        BY DEF Live, Remember
    <1> QED
        BY <1>1, <1>2 DEF Asked, Moves, PaidIn

-----------------------------------------------------------------------------
(* Whoever does not move keeps what it relies on.                          *)

LEMMA RequestStays ==
    ASSUME InboundInv, BackedInv, Steady, Settling, NEW r \in Request, NEW past \in Known,
           RequestBacked(r, past)
    PROVE  RequestBacked(r, past)'
    <1>1. /\ LaterThan(past, r.amount) => LaterThan(past, r.amount)'
          /\ LaterThan(past, 0) => LaterThan(past, 0)'
        BY DEF Steady, Request
    <1> QED
        BY <1>1 DEF RequestBacked, Settling

LEMMA RequestRests ==
    ASSUME Live, Steady, Settling, NEW h \in Handler, req'[h] = req[h]
    PROVE  RequestBacked(req[h], asked[h])'
    <1>1. PICK r \in Request : r = req[h]
        BY DEF Live, InboundInv, TypeOK
    <1>2. PICK past \in Known : past = asked[h]
        BY PastsKnown DEF Live
    <1>3. RequestBacked(r, past)'
        BY <1>1, <1>2, RequestStays DEF Live, BackedInv
    <1>4. CASE asked'[h] = asked[h]
        BY <1>1, <1>2, <1>3, <1>4 DEF RequestBacked
    <1>5. CASE asked'[h] # asked[h]
        <2>1. r.pc \in {"idle", "hook"} /\ asked'[h] = {}
            BY <1>1, <1>5, AskedStays
        <2>2. r.pc # "hook"
            BY <1>1, <1>5, <2>1 DEF Live, BackedInv, RequestBacked
        <2>3. r.pc = "idle"
            BY <2>1, <2>2
        <2> QED
            BY <1>1, <1>3, <2>3 DEF RequestBacked
    <1> QED
        BY <1>4, <1>5

LEMMA RequestsTurn ==
    ASSUME Live, Steady, Settling, NEW h \in Handler, NEW r, Goto(h, r),
           NEW past, asked'[h] = past, RequestBacked(r, past)'
    PROVE  (\A g \in Handler : RequestBacked(req[g], asked[g]))'
    <1> SUFFICES ASSUME NEW g \in Handler PROVE RequestBacked(req[g], asked[g])'
        OBVIOUS
    <1>1. req'[h] = r /\ (g # h => req'[g] = req[g])
        BY AskedOnward
    <1>2. CASE g = h
        BY <1>1, <1>2 DEF RequestBacked
    <1>3. CASE g # h
        BY <1>1, <1>3, RequestRests
    <1> QED
        BY <1>2, <1>3

LEMMA RequestsStay ==
    ASSUME Live, Steady, Settling, UNCHANGED req
    PROVE  (\A g \in Handler : RequestBacked(req[g], asked[g]))'
    <1>1. \A g \in Handler : RequestBacked(req[g], asked[g])'
        BY RequestRests
    <1> QED
        BY <1>1

LEMMA TopUpRests ==
    ASSUME Live, Steady, NEW i \in Intent,
           intents'[i].amount = intents[i].amount,
           intents'[i].status # "none" => intents[i].status # "none",
           intents'[i].status = "completed" => intents[i].status = "completed"
    PROVE  TopUpBacked(intents[i], kept[i])'
    <1>1. intents[i].amount \in Nat
        BY DEF Live, InboundInv, TypeOK, TopUp
    <1>2. PICK past \in Known : past = kept[i]
        BY PastsKnown DEF Live
    <1>3. kept'[i] = past
        BY <1>2, KeptStays
    <1>4. PICK amount \in Nat : amount = intents[i].amount
        BY <1>1
    <1>5. /\ intents[i].status # "none" => LaterThan(past, amount)' /\ past # {}
          /\ intents[i].status = "completed" => LaterThan(past, 0)'
        BY <1>2, <1>4 DEF Live, BackedInv, TopUpBacked, Steady
    <1> QED
        BY <1>3, <1>4, <1>5 DEF TopUpBacked, LaterThan

LEMMA TopUpsRest ==
    ASSUME Live, Steady, UNCHANGED intents
    PROVE  (\A i \in Intent : TopUpBacked(intents[i], kept[i]))'
    BY TopUpRests

LEMMA ResumeStays ==
    ASSUME Live, Steady, NEW r \in Resume, ResumeAgrees(r), ResumeBacked(r),
           \A i \in Intent : intents[i].status # "none" => intents'[i].status # "none"
    PROVE  ResumeBacked(r)'
    <1>1. CASE r.pc \notin {"deposit", "resumed"}
        BY <1>1 DEF ResumeBacked
    <1>2. CASE r.pc \in {"deposit", "resumed"}
        <2>1. PICK i \in Intent : i = r.intent /\ intents[i].status # "none"
            BY <1>2 DEF ResumeAgrees, ResumeBacked
        <2>2. PICK past \in Known : past = kept[i]
            BY PastsKnown DEF Live
        <2>3. kept'[i] = past /\ intents'[i].status # "none"
            BY <2>1, <2>2, KeptStays
        <2>4. r.pc = "resumed" => LaterThan(past, 0)'
            BY <2>1, <2>2 DEF ResumeBacked, Steady
        <2> QED
            BY <2>1, <2>3, <2>4 DEF ResumeBacked, LaterThan
    <1> QED
        BY <1>1, <1>2

LEMMA ResumesStay ==
    ASSUME Live, Steady, UNCHANGED job,
           \A i \in Intent : intents[i].status # "none" => intents'[i].status # "none"
    PROVE  (\A k \in Task : ResumeBacked(job[k]))'
    <1>1. ASSUME NEW k \in Task
          PROVE  ResumeBacked(job[k])'
        <2>1. PICK r \in Resume : r = job[k] /\ ResumeAgrees(r) /\ ResumeBacked(r)
            BY DEF Live, InboundInv, TypeOK, BackedInv
        <2>2. ResumeBacked(r)'
            BY <2>1, ResumeStays
        <2> QED
            BY <2>1, <2>2 DEF ResumeBacked
    <1> QED
        BY <1>1

LEMMA ResumesTurn ==
    ASSUME Live, Steady, NEW k \in Task, NEW r, Become(k, r), ResumeBacked(r)',
           \A i \in Intent : intents[i].status # "none" => intents'[i].status # "none"
    PROVE  (\A j \in Task : ResumeBacked(job[j]))'
    <1> SUFFICES ASSUME NEW j \in Task PROVE ResumeBacked(job[j])'
        OBVIOUS
    <1>1. job'[j] = IF j = k THEN r ELSE job[j]
        BY DEF Live, InboundInv, TypeOK, Become
    <1>2. CASE j = k
        BY <1>1, <1>2 DEF ResumeBacked
    <1>3. CASE j # k
        <2>1. PICK q \in Resume : q = job[j] /\ ResumeAgrees(q) /\ ResumeBacked(q)
            BY DEF Live, InboundInv, TypeOK, BackedInv
        <2>2. ResumeBacked(q)'
            BY <2>1, ResumeStays
        <2> QED
            BY <1>1, <1>3, <2>1, <2>2 DEF ResumeBacked
    <1> QED
        BY <1>2, <1>3

(* An event is marked processed in a step only if its payment has a credit. *)
LEMMA NewlyProcessed ==
    ASSUME InboundInv, Next, NEW n \in Note,
           events'[n] = "processed", events[n] # "processed"
    PROVE  CreditedTx(TxOf[n])
    <1>1. events \in [Hook -> Status] /\ n \in Hook /\ n \notin Intent
        BY InboundAssumption DEF InboundInv, TypeOK, Hook
    <1>2. ASSUME NEW m, Save(m, "processed") PROVE m = n
        BY <1>1, <1>2 DEF Save
    <1>3. ASSUME NEW m, NEW s \in {"skipped", "received", "failed"} PROVE ~Save(m, s)
        BY <1>1, <1>3 DEF Save
    <1>4. CASE \/ \E t \in Tx : Arrive(t)
               \/ BindWallet
               \/ \E i \in Intent : GasArrives(i)
               \/ Crash
        BY <1>4 DEF Arrive, BindWallet, GasArrives, Crash, ledgerVars
    <1>5. ASSUME NEW h \in Handler, NEW m \in Hook,
                 \/ Deliver(h, m) \/ Skip(h, m) \/ Duplicate(h, m) \/ Receive(h, m)
                 \/ ReplayProcessed(h, m) \/ TopUpNoticed(h, m)
          PROVE  CreditedTx(TxOf[n])
        <2>1. CASE Duplicate(h, m)
            <3>1. m = n
                BY <1>2, <2>1 DEF Duplicate
            <3>2. MatchingCredit(n)
                BY <2>1, <3>1 DEF Duplicate
            <3> QED
                BY <3>2 DEF MatchingCredit, CreditedTx, InboundInv, EntriesAgree
        <2>2. CASE ~Duplicate(h, m)
            BY <1>1, <1>2, <1>3, <1>5, <2>2
               DEF Deliver, Skip, Receive, ReplayProcessed, TopUpNoticed, ledgerVars
        <2> QED
            BY <2>1, <2>2
    <1>6. ASSUME NEW i \in DOMAIN pendings, CreditedTx(pendings[i].tx), pendings[i].note = n
          PROVE  CreditedTx(TxOf[n])
        BY <1>6 DEF InboundInv, EntriesAgree
    <1>7. ASSUME NEW h \in Handler,
                 \/ CircleStep(h)
                 \/ StartDeposit(h) \/ DepositFailed(h) \/ DepositAwaitsGas(h)
                 \/ DepositCompleted(h) \/ MarkProcessed(h) \/ Finish(h)
                 \/ \E i \in DOMAIN pendings : CreditNext(h, i)
          PROVE  CreditedTx(TxOf[n])
        <2>1. CASE MarkProcessed(h)
            <3>1. PICK i : i = req[h].current
                OBVIOUS
            <3>2. i \in DOMAIN pendings /\ CreditedTx(pendings[i].tx)
                BY <2>1, <3>1, RequestKnown DEF RequestAgrees, MarkProcessed
            <3>3. pendings[i].note = n
                BY <1>2, <2>1, <3>1 DEF MarkProcessed
            <3> QED
                BY <1>6, <3>2, <3>3
        <2>2. CASE Finish(h)
            <3>1. PICK q \in Request : q = req[h] /\ RequestAgrees(q) /\ q.pc = "crediting"
                BY <2>2, RequestKnown DEF Finish
            <3>2. q.note = n
                BY <1>2, <2>2, <3>1 DEF Finish
            <3>3. PICK e \in DOMAIN pendings : e = q.entry /\ pendings[e].tx = TxOf[n]
                BY <3>1, <3>2 DEF RequestAgrees, InboundInv, TypeOK
            <3>4. CASE LinkedCredit(e)
                BY <3>3, <3>4 DEF InboundInv, EntriesAgree, LinkedCredit, CreditedTx
            <3> QED
                BY <2>2, <3>1, <3>3, <3>4 DEF Finish, CreditLinkedToPending
        <2>3. CASE ~MarkProcessed(h) /\ ~Finish(h)
            BY <1>3, <1>7, <2>3
               DEF CircleStep, CircleHook, CircleStatus, CircleDeposits, CircleTopsUp, CircleRefuses,
                   StartDeposit, DepositFailed, DepositAwaitsGas, DepositCompleted, CreditNext,
                   ledgerVars
        <2> QED
            BY <2>1, <2>2, <2>3
    <1>8. ASSUME NEW k \in Task, TaskStep(k)
          PROVE  CreditedTx(TxOf[n])
        <2>1. CASE ResumeMarks(k)
            <3>1. PICK i : i = job[k].current
                OBVIOUS
            <3>2. i \in DOMAIN pendings /\ CreditedTx(pendings[i].tx)
                BY <2>1, <3>1, ResumeKnown DEF ResumeAgrees, ResumeMarks
            <3>3. pendings[i].note = n
                BY <1>2, <2>1, <3>1 DEF ResumeMarks
            <3> QED
                BY <1>6, <3>2, <3>3
        <2>2. CASE ~ResumeMarks(k)
            BY <1>8, <2>2 DEF TaskStep, ResumeCall, ResumeDeposits, ResumeRefused,
                              ResumeCredits, ResumeFindsCredit, ledgerVars
        <2> QED
            BY <2>1, <2>2
    <1> QED
        BY <1>4, <1>5, <1>7, <1>8 DEF Next, HandlerStep

LEMMA EventsStay ==
    ASSUME Live, Next, Settling
    PROVE  (\A n \in Note : events[n] = "processed" => Settled(TxOf[n]))'
    <1> SUFFICES ASSUME NEW n \in Note, events'[n] = "processed"
                 PROVE  Settled(TxOf[n])'
        OBVIOUS
    <1>1. Settled(TxOf[n])
        BY NewlyProcessed DEF Live, BackedInv, BooksBacked, Settled
    <1> QED
        BY <1>1 DEF Settling

-----------------------------------------------------------------------------
(* One lemma per kind of step.                                             *)

Still == <<arrived, credits, available, wallet, gateway>>

LEMMA StillBacked ==
    ASSUME Live, Next, Steady, Settling, HistTypes',
           IsFiniteSet(PaidIn'), wallet' + gateway' = Total(PaidIn'), Spare' \in Nat,
           (\A h \in Handler : RequestBacked(req[h], asked[h]))',
           (\A i \in Intent : TopUpBacked(intents[i], kept[i]))',
           (\A k \in Task : ResumeBacked(job[k]))'
    PROVE  BackedInv'
    <1>1. LaterThan({}, 0)'
        BY DEF Steady, Known, Live, BackedInv, BooksBacked
    <1>2. (\A n \in Note : events[n] = "processed" => Settled(TxOf[n]))'
        BY EventsStay
    <1>3. BooksBacked'
        BY <1>1, <1>2 DEF BooksBacked
    <1> QED
        BY <1>3 DEF BackedInv

(* No money moves and nothing is credited.                                 *)
LEMMA QuietBooks ==
    ASSUME Live, UNCHANGED Still
    PROVE  /\ Steady /\ Settling
           /\ \A past, amount : LaterThan(past, amount)' <=> LaterThan(past, amount)
           /\ IsFiniteSet(PaidIn') /\ wallet' + gateway' = Total(PaidIn') /\ Spare' \in Nat
    <1>1. stray' = stray /\ old' = old
        BY DEF Live, Remember, Stray, Still, BackedInv, HistTypes
    <1>2. UNCHANGED Money
        BY <1>1 DEF Money, Still
    <1> QED
        BY <1>2, QuietBounds DEF Live, BackedInv, BooksBacked, Still

LEMMA QuietTurn ==
    ASSUME Live, Next, UNCHANGED Still, NEW h \in Handler, NEW r, Goto(h, r),
           NEW past \in Known \cup {PaidIn}, asked'[h] = past, RequestBacked(r, past),
           \A i \in Intent : kept'[i] \in Known,
           (\A i \in Intent : TopUpBacked(intents[i], kept[i]))',
           (\A k \in Task : ResumeBacked(job[k]))'
    PROVE  BackedInv'
    <1>1. /\ Steady /\ Settling
          /\ \A p, amount : LaterThan(p, amount)' <=> LaterThan(p, amount)
          /\ IsFiniteSet(PaidIn') /\ wallet' + gateway' = Total(PaidIn') /\ Spare' \in Nat
        BY QuietBooks
    <1>2. HistTypes'
        BY HistMove DEF Still
    <1>3. RequestBacked(r, past)'
        BY <1>1 DEF RequestBacked, Settling
    <1>4. (\A g \in Handler : RequestBacked(req[g], asked[g]))'
        BY <1>1, <1>3, RequestsTurn
    <1> QED
        BY <1>1, <1>2, <1>4, StillBacked

LEMMA QuietOnward ==
    ASSUME Live, Next, UNCHANGED Still, UNCHANGED <<intents, job>>,
           NEW h \in Handler, NEW r, Goto(h, r),
           NEW past \in Known \cup {PaidIn}, asked'[h] = past, RequestBacked(r, past)
    PROVE  BackedInv'
    <1>1. Steady
        BY QuietBooks
    <1>2. \A i \in Intent : kept'[i] \in Known
        BY KeptStays
    <1>3. (\A i \in Intent : TopUpBacked(intents[i], kept[i]))'
        BY <1>1, TopUpsRest
    <1>4. (\A k \in Task : ResumeBacked(job[k]))'
        BY <1>1, ResumesStay
    <1> QED
        BY <1>2, <1>3, <1>4, QuietTurn

LEMMA QuietResumes ==
    ASSUME Live, Next, UNCHANGED Still, UNCHANGED <<req, intents>>,
           NEW k \in Task, NEW r, Become(k, r), ResumeBacked(r)
    PROVE  BackedInv'
    <1>1. /\ Steady /\ Settling
          /\ \A past, amount : LaterThan(past, amount)' <=> LaterThan(past, amount)
          /\ IsFiniteSet(PaidIn') /\ wallet' + gateway' = Total(PaidIn') /\ Spare' \in Nat
        BY QuietBooks
    <1>2. \A i \in Intent : kept'[i] = kept[i] /\ kept'[i] \in Known
        BY KeptStays
    <1>3. \A h \in Handler : asked'[h] \in Known \cup {PaidIn}
        BY AskedStays, PastsKnown DEF Live
    <1>4. HistTypes'
        BY <1>2, <1>3, HistQuiet DEF Still
    <1>5. kept' = kept
        BY <1>2 DEF Live, Remember, BackedInv, HistTypes
    <1>6. ResumeBacked(r)'
        BY <1>1, <1>5 DEF ResumeBacked
    <1>7. (\A j \in Task : ResumeBacked(job[j]))'
        BY <1>1, <1>6, ResumesTurn
    <1>8. (\A h \in Handler : RequestBacked(req[h], asked[h]))'
        BY <1>1, RequestsStay
    <1>9. (\A i \in Intent : TopUpBacked(intents[i], kept[i]))'
        BY <1>1, TopUpsRest
    <1> QED
        BY <1>1, <1>4, <1>7, <1>8, <1>9, StillBacked

LEMMA IdleBacked ==
    ASSUME NEW past
    PROVE  RequestBacked(NoRequest, past) /\ ResumeBacked(NoResume)
    BY DEF RequestBacked, ResumeBacked, NoRequest, NoResume

LEMMA RequestGone ==
    ASSUME Live, Next, UNCHANGED Still, UNCHANGED <<intents, job>>,
           NEW h \in Handler, Goto(h, NoRequest)
    PROVE  BackedInv'
    <1>1. PICK r : r = NoRequest
        OBVIOUS
    <1>2. asked'[h] = {}
        BY AskedOnward DEF NoRequest
    <1>3. {} \in Known /\ RequestBacked(r, {})
        BY <1>1, IdleBacked DEF Known
    <1> QED
        BY <1>1, <1>2, <1>3, QuietOnward

(* Facts of the request that moves.                                        *)
LEMMA Mine ==
    ASSUME Live, NEW h \in Handler
    PROVE  /\ req[h] \in Request /\ RequestAgrees(req[h])
           /\ RequestBacked(req[h], asked[h])
           /\ asked[h] \in Known /\ asked[h] \in SUBSET PaidIn
           /\ \A past \in Known : past \in SUBSET PaidIn
    BY PastsKnown, RequestKnown DEF Live, BackedInv, HistTypes

(* A request that goes on in a way for which nothing is to be shown anew.  *)
LEMMA OnwardBacked ==
    ASSUME Live, Next, UNCHANGED Still, UNCHANGED <<intents, job>>,
           NEW h \in Handler, NEW r, Goto(h, r),
           r.pc \notin {"idle", "hook", "balance"}, RequestBacked(r, asked[h])
    PROVE  BackedInv'
    <1>1. PICK past \in Known : past = asked[h]
        BY Mine
    <1>2. asked'[h] = past
        BY <1>1, AskedOnward
    <1> QED
        BY <1>1, <1>2, QuietOnward

LEMMA ArriveBacked ==
    ASSUME Live, Next, NEW t \in Tx, Arrive(t)
    PROVE  BackedInv'
    <1> USE DEF Arrive
    <1>1. old' = old /\ old \subseteq arrived /\ stray \in Nat /\ UNCHANGED credits
        BY DEF Live, Remember, BackedInv, HistTypes, ledgerVars
    <1>2. stray' = stray
        BY <1>1 DEF Live, Remember, Stray
    <1>3. /\ Steady /\ Settling
          /\ IsFiniteSet(PaidIn') /\ wallet' + gateway' = Total(PaidIn') /\ Spare' \in Nat
        BY <1>1, <1>2, ArriveBounds, BoundTypes DEF Live
    <1>4. \A h \in Handler : asked'[h] \in Known \cup {PaidIn}
        BY AskedStays, PastsKnown DEF Live
    <1>5. HistTypes'
        BY <1>1, <1>4, KeptStays, HistQuiet
    <1>6. /\ (\A h \in Handler : RequestBacked(req[h], asked[h]))'
          /\ (\A i \in Intent : TopUpBacked(intents[i], kept[i]))'
          /\ (\A k \in Task : ResumeBacked(job[k]))'
        BY <1>3, RequestsStay, TopUpsRest, ResumesStay
    <1> QED
        BY <1>3, <1>5, <1>6, StillBacked

(* Neither the requests nor the tasks move.                                *)
LEMMA RestBacked ==
    ASSUME Live, Next, UNCHANGED Still, UNCHANGED <<req, job>>,
           \A i \in Intent : /\ intents'[i].status = intents[i].status
                             /\ intents'[i].amount = intents[i].amount
    PROVE  BackedInv'
    <1>1. /\ Steady /\ Settling
          /\ IsFiniteSet(PaidIn') /\ wallet' + gateway' = Total(PaidIn') /\ Spare' \in Nat
        BY QuietBooks
    <1>2. \A h \in Handler : asked'[h] \in Known \cup {PaidIn}
        BY AskedStays, PastsKnown DEF Live
    <1>3. HistTypes'
        BY <1>2, KeptStays, HistQuiet DEF Still
    <1>4. (\A i \in Intent : TopUpBacked(intents[i], kept[i]))'
        <2>1. \A i \in Intent : TopUpBacked(intents[i], kept[i])'
            BY <1>1, TopUpRests
        <2> QED
            BY <2>1
    <1>5. (\A k \in Task : ResumeBacked(job[k]))'
        BY <1>1, ResumesStay
    <1>6. (\A h \in Handler : RequestBacked(req[h], asked[h]))'
        BY <1>1, RequestsStay
    <1> QED
        BY <1>1, <1>3, <1>4, <1>5, <1>6, StillBacked

LEMMA WorldBacked ==
    ASSUME Live, Next, BindWallet \/ \E i \in Intent : GasArrives(i)
    PROVE  BackedInv'
    <1>1. UNCHANGED Still /\ UNCHANGED <<req, job>>
        BY DEF BindWallet, GasArrives, Still, worldVars, ledgerVars, circleVars
    <1>2. \A i \in Intent : /\ intents'[i].status = intents[i].status
                            /\ intents'[i].amount = intents[i].amount
        <2>1. intents \in [Intent -> TopUp]
            BY DEF Live, InboundInv, TypeOK
        <2>2. ASSUME NEW j \in Intent, GasArrives(j), NEW i \in Intent
              PROVE  /\ intents'[i].status = intents[i].status
                     /\ intents'[i].amount = intents[i].amount
            <3>1. intents'[i] = IF i = j THEN [intents[i] EXCEPT !.arrived = TRUE] ELSE intents[i]
                BY <2>1, <2>2 DEF GasArrives
            <3> QED
                BY <2>1, <3>1 DEF TopUp
        <2> QED
            BY <2>2 DEF BindWallet, circleVars
    <1> QED
        BY <1>1, <1>2, RestBacked

LEMMA CrashBacked ==
    ASSUME Live, Next, Crash
    PROVE  BackedInv'
    <1> USE DEF Crash, worldVars, ledgerVars, circleVars
    <1>1. /\ Steady /\ Settling
          /\ IsFiniteSet(PaidIn') /\ wallet' + gateway' = Total(PaidIn') /\ Spare' \in Nat
        BY QuietBooks DEF Still
    <1>2. \A h \in Handler : req'[h] = NoRequest /\ asked'[h] = {}
        BY DEF Live, Remember, Asked, Moves, NoRequest
    <1>3. HistTypes'
        BY <1>2, KeptStays, HistQuiet DEF Known
    <1>4. (\A h \in Handler : RequestBacked(req[h], asked[h]))'
        BY <1>2 DEF RequestBacked, NoRequest
    <1>5. (\A k \in Task : ResumeBacked(job[k]))'
        BY DEF ResumeBacked, NoResume
    <1>6. (\A i \in Intent : TopUpBacked(intents[i], kept[i]))'
        BY <1>1, TopUpsRest
    <1> QED
        BY <1>1, <1>3, <1>4, <1>5, <1>6, StillBacked

LEMMA AnsweredBacked ==
    ASSUME Live, Next, NEW h \in Handler, NEW n \in Hook,
           \/ Skip(h, n) \/ Duplicate(h, n)
           \/ DepositFailed(h) \/ DepositAwaitsGas(h) \/ Finish(h)
    PROVE  BackedInv'
    BY RequestGone
       DEF Skip, Duplicate, DepositFailed, DepositAwaitsGas, Finish, Reply,
           Still, worldVars, circleVars

LEMMA DeliverBacked ==
    ASSUME Live, Next, NEW h \in Handler, NEW n \in Hook, Deliver(h, n)
    PROVE  BackedInv'
    <1> USE DEF Deliver, Still, worldVars, ledgerVars, circleVars
    <1>1. CASE events[n] = "skipped"
        BY <1>1, RequestGone DEF Reply
    <1>2. CASE events[n] # "skipped"
        <2>1. PICK r : /\ Goto(h, r)
                       /\ r = [NoRequest EXCEPT !.pc = "hook", !.note = n, !.seen = events[n]]
            BY <1>2
        <2>2. r.pc = "hook" /\ r.note = n /\ r.seen = events[n] /\ r.batch = {}
            BY <2>1 DEF NoRequest
        <2>3. events[n] = "processed" => n \in Intent \/ Settled(TxOf[n])
            BY DEF Live, BackedInv, BooksBacked, Hook
        <2>4. RequestBacked(r, {})
            BY <2>2, <2>3 DEF RequestBacked
        <2>5. {} \in Known /\ asked'[h] = {}
            BY <2>1, <2>2, AskedOnward DEF Known
        <2> QED
            BY <2>1, <2>4, <2>5, QuietOnward
    <1> QED
        BY <1>1, <1>2

LEMMA ReceiveBacked ==
    ASSUME Live, Next, NEW h \in Handler, NEW n \in Hook, Receive(h, n)
    PROVE  BackedInv'
    <1> USE DEF Receive, Still, worldVars, circleVars
    <1>1. PICK p, r : Goto(h, r) /\ r = [req[h] EXCEPT !.pc = "status", !.seen = "none", !.entry = p]
        OBVIOUS
    <1>2. r.pc = "status" /\ r.seen = "none"
        BY <1>1, Mine DEF Request
    <1>3. RequestBacked(r, asked[h])
        BY <1>2 DEF RequestBacked
    <1> QED
        BY <1>1, <1>2, <1>3, OnwardBacked

(* Who credits without a deposit has an event of a settled payment.        *)
LEMMA ReplayBacked ==
    ASSUME Live, Next, NEW h \in Handler, NEW n \in Hook, ReplayProcessed(h, n)
    PROVE  BackedInv'
    <1> USE DEF ReplayProcessed, Still, worldVars, circleVars
    <1>1. PICK e, r : Goto(h, r) /\ r = [req[h] EXCEPT !.pc = "crediting", !.entry = e]
        OBVIOUS
    <1>2. /\ r.pc = "crediting" /\ r.seen = "processed" /\ r.batch = {}
          /\ r.note = req[h].note /\ req[h].seen = r.seen /\ asked[h] = {}
        BY <1>1, Mine DEF Request, Inbound, RequestBacked
    <1>3. LaterThan({}, 0)
        BY DEF Live, BackedInv, BooksBacked
    <1>4. RequestBacked(r, asked[h])
        BY <1>2, <1>3, Mine DEF RequestBacked
    <1> QED
        BY <1>1, <1>2, <1>4, OnwardBacked

LEMMA TopUpNoticedBacked ==
    ASSUME Live, Next, NEW h \in Handler, NEW i \in Hook, TopUpNoticed(h, i)
    PROVE  BackedInv'
    <1> USE DEF TopUpNoticed, Reply, Still, worldVars, circleVars
    <1>1. CASE req[h].pc = "topup_complete"
        <2>1. PICK k, r :
                k \in Task /\ Become(k, r) /\ r = [NoResume EXCEPT !.pc = "scheduled", !.intent = i]
            BY <1>1
        <2>2. r.pc = "scheduled"
            BY <2>1 DEF NoResume
        <2>3. ResumeBacked(r)'
            BY <2>2 DEF ResumeBacked
        <2>4. Steady
            BY QuietBooks
        <2>5. (\A j \in Task : ResumeBacked(job[j]))'
            BY <2>1, <2>3, <2>4, ResumesTurn
        <2>6. (\A j \in Intent : TopUpBacked(intents[j], kept[j]))'
            BY <2>4, TopUpsRest
        <2>7. PICK q : q = NoRequest /\ q.pc = "idle" /\ Goto(h, q)
            BY DEF NoRequest
        <2>8. asked'[h] = {}
            BY <2>7, AskedOnward
        <2>9. {} \in Known /\ RequestBacked(q, {})
            BY <2>7, IdleBacked DEF Known
        <2>10. \A j \in Intent : kept'[j] \in Known
            BY KeptStays
        <2>11. UNCHANGED Still
            OBVIOUS
        <2> QED
            BY <2>5, <2>6, <2>7, <2>8, <2>9, <2>10, <2>11, QuietTurn
    <1>2. CASE req[h].pc # "topup_complete"
        BY <1>2, RequestGone
    <1> QED
        BY <1>1, <1>2

-----------------------------------------------------------------------------
(* The handler's request, up to its deposit.                               *)

LEMMA StatusBacked ==
    ASSUME Live, Next, NEW h \in Handler, CircleStatus(h)
    PROVE  BackedInv'
    <1> USE DEF CircleStatus, Still, worldVars, ledgerVars, circleVars
    <1>1. PICK r : /\ Goto(h, r)
                   /\ \/ r = [req[h] EXCEPT !.pc = "balance", !.amount = wallet]
                      \/ r = [req[h] EXCEPT !.pc = "failed"]
        OBVIOUS
    <1>2. /\ r.seen = req[h].seen /\ r.note = req[h].note
          /\ r.seen = "processed" => r.note \in Intent \/ Settled(TxOf[r.note])
        BY <1>1, Mine DEF Request, RequestBacked
    <1>3. CASE r = [req[h] EXCEPT !.pc = "failed"]
        <2>1. r.pc = "failed"
            BY <1>3, Mine DEF Request
        <2>2. RequestBacked(r, asked[h])
            BY <1>2, <2>1 DEF RequestBacked
        <2> QED
            BY <1>1, <2>1, <2>2, OnwardBacked
    <1>4. CASE r = [req[h] EXCEPT !.pc = "balance", !.amount = wallet]
        <2>1. r.pc = "balance" /\ r.amount = wallet /\ req[h].pc = "status"
            BY <1>4, Mine DEF Request
        <2>2. asked'[h] = PaidIn
            BY <1>1, <2>1, AskedOnward
        <2>3. /\ wallet \in Nat /\ gateway \in Nat /\ Spare \in Nat
              /\ Total(Uncredited \ PaidIn) \in Nat
            BY BoundTypes DEF Live
        <2>4. LaterThan(PaidIn, wallet)
            BY <2>3 DEF LaterThan
        <2>5. PaidIn = {} => wallet = 0
            <3>1. wallet + gateway = Total(PaidIn)
                BY DEF Live, BackedInv, BooksBacked
            <3> QED
                BY <2>3, <3>1, TotalOfNone
        <2>6. RequestBacked(r, PaidIn)
            BY <1>2, <2>1, <2>4, <2>5 DEF RequestBacked
        <2> QED
            BY <1>1, <2>2, <2>6, QuietOnward
    <1> QED
        BY <1>1, <1>3, <1>4

(* Steps that leave what the request relies on as it was.                  *)
LEMMA SameBacked ==
    ASSUME Live, Next, NEW h \in Handler,
           StartDeposit(h) \/ CircleRefuses(h) \/ DepositCompleted(h) \/ MarkProcessed(h)
    PROVE  BackedInv'
    <1> USE DEF StartDeposit, CircleRefuses, DepositCompleted, MarkProcessed,
                Still, worldVars, ledgerVars, circleVars
    <1>1. PICK q \in Request : q = req[h] /\ RequestBacked(q, asked[h])
        BY Mine
    <1>2. CASE StartDeposit(h)
        <2>1. PICK e, r : Goto(h, r) /\ r = [q EXCEPT !.pc = "deposit", !.entry = e]
            BY <1>1, <1>2
        <2>2. /\ r.pc = "deposit" /\ q.pc = "balance" /\ r.amount = q.amount
              /\ r.seen = q.seen /\ r.note = q.note
            BY <1>1, <1>2, <2>1 DEF Request
        <2>3. RequestBacked(r, asked[h])
            BY <1>1, <2>2 DEF RequestBacked
        <2> QED
            BY <1>2, <2>1, <2>2, <2>3, OnwardBacked
    <1>3. CASE CircleRefuses(h)
        <2>1. PICK r : Goto(h, r) /\ r = [q EXCEPT !.pc = "failed"]
            BY <1>1, <1>3
        <2>2. r.pc = "failed" /\ r.seen = q.seen /\ r.note = q.note
            BY <2>1 DEF Request
        <2>3. RequestBacked(r, asked[h])
            BY <1>1, <2>2 DEF RequestBacked
        <2> QED
            BY <1>3, <2>1, <2>2, <2>3, OnwardBacked
    <1>4. CASE DepositCompleted(h)
        <2>1. PICK b, r : Goto(h, r) /\ r = [q EXCEPT !.pc = "crediting", !.batch = b]
            BY <1>1, <1>4
        <2>2. r.pc = "crediting" /\ q.pc = "deposited" /\ r.seen = q.seen /\ r.note = q.note
            BY <1>1, <1>4, <2>1 DEF Request
        <2>3. RequestBacked(r, asked[h])
            BY <1>1, <2>2 DEF RequestBacked
        <2> QED
            BY <1>4, <2>1, <2>2, <2>3, OnwardBacked
    <1>5. CASE MarkProcessed(h)
        <2>1. PICK r : Goto(h, r) /\ r = [q EXCEPT !.pc = "crediting"]
            BY <1>1, <1>5
        <2>2. /\ r.pc = "crediting" /\ q.pc = "marking" /\ r.batch = q.batch
              /\ r.seen = q.seen /\ r.note = q.note
            BY <1>1, <1>5, <2>1 DEF Request
        <2>3. RequestBacked(r, asked[h])
            BY <1>1, <2>2 DEF RequestBacked
        <2> QED
            BY <1>5, <2>1, <2>2, <2>3, OnwardBacked
    <1> QED
        BY <1>2, <1>3, <1>4, <1>5

LEMMA HookBacked ==
    ASSUME Live, Next, NEW h \in Handler, NEW i \in Intent, CircleHook(h, i)
    PROVE  BackedInv'
    <1> USE DEF CircleHook, Still, worldVars, ledgerVars
    <1>1. PICK r : /\ Goto(h, r)
                   /\ \/ r = [req[h] EXCEPT !.pc = "topup_complete"]
                      \/ r = [req[h] EXCEPT !.pc = "topup_known"]
        OBVIOUS
    <1>2. r.pc \in {"topup_complete", "topup_known"} /\ r.note = i
        BY <1>1, Mine DEF Request
    <1>3. PICK past \in Known : past = asked[h]
        BY Mine
    <1>4. asked'[h] = past
        BY <1>1, <1>2, <1>3, AskedOnward
    <1>5. RequestBacked(r, past)
        BY <1>2 DEF RequestBacked
    <1>6. intents \in [Intent -> TopUp]
        BY DEF Live, InboundInv, TypeOK
    <1>7. \A j \in Intent : /\ intents'[j].amount = intents[j].amount
                            /\ intents'[j].status = "none" <=> intents[j].status = "none"
                            /\ intents'[j].status = "completed" <=> intents[j].status = "completed"
        <2>1. CASE UNCHANGED intents
            BY <2>1
        <2>2. CASE /\ intents[i].status \in {"pending", "topup_complete"}
                   /\ intents' = [intents EXCEPT ![i].status = "topup_complete"]
            <3> SUFFICES ASSUME NEW j \in Intent
                         PROVE  /\ intents'[j].amount = intents[j].amount
                                /\ intents'[j].status = "none" <=> intents[j].status = "none"
                                /\ intents'[j].status = "completed" <=> intents[j].status = "completed"
                OBVIOUS
            <3>1. intents'[j] = IF j = i THEN [intents[j] EXCEPT !.status = "topup_complete"]
                                         ELSE intents[j]
                BY <1>6, <2>2
            <3> QED
                BY <1>6, <2>2, <3>1 DEF TopUp
        <2> QED
            BY <2>1, <2>2
    <1>8. Steady
        BY QuietBooks
    <1>9. \A j \in Intent : kept'[j] \in Known
        BY <1>7, KeptStays
    <1>10. (\A j \in Intent : TopUpBacked(intents[j], kept[j]))'
        BY <1>7, <1>8, TopUpRests
    <1>11. (\A k \in Task : ResumeBacked(job[k]))'
        BY <1>7, <1>8, ResumesStay
    <1> QED
        BY <1>1, <1>3, <1>4, <1>5, <1>9, <1>10, <1>11, QuietTurn

LEMMA DepositsBacked ==
    ASSUME Live, Next, NEW h \in Handler, CircleDeposits(h)
    PROVE  BackedInv'
    <1> USE DEF CircleDeposits, worldVars, ledgerVars
    <1>0. PICK q \in Request : q = req[h]
        BY Mine
    <1>1. PICK r : /\ q = req[h] /\ Goto(h, r)
                   /\ \/ r = [q EXCEPT !.pc = "deposited"]
                      \/ r = [q EXCEPT !.pc = "failed"]
        BY <1>0
    <1>2. /\ r.pc \in {"deposited", "failed"} /\ q.pc = "deposit"
          /\ r.seen = q.seen /\ r.note = q.note
        BY <1>1 DEF Request
    <1>3. PICK past \in Known : past = asked[h] /\ RequestBacked(q, past)
        BY <1>1, Mine
    <1>4. PICK amount \in Nat : amount = q.amount
        BY <1>1 DEF Request
    <1>5. amount > 0 /\ Sweep(amount)
        BY <1>1, <1>4 DEF Sweep
    <1>6. LaterThan(past, amount) /\ past # {}
        BY <1>2, <1>3, <1>4, <1>5 DEF RequestBacked
    <1>7. asked'[h] = past
        BY <1>1, <1>2, <1>3, AskedOnward
    <1>8. \A i \in Intent : kept'[i] \in Known
        BY KeptStays
    <1>9. HistTypes' /\ old' = old /\ stray' = stray
        BY <1>1, <1>7, <1>8, HistMove
    <1>10. /\ Steady /\ Settling /\ LaterThan(past, 0)'
           /\ PaidIn' = PaidIn /\ Spare' = Spare
           /\ wallet' + gateway' = wallet + gateway
        BY <1>5, <1>6, <1>9, SweepBounds DEF Live
    <1>11. RequestBacked(r, past)'
        BY <1>2, <1>3, <1>6, <1>10 DEF RequestBacked, Settling
    <1>12. (\A g \in Handler : RequestBacked(req[g], asked[g]))'
        BY <1>1, <1>7, <1>10, <1>11, RequestsTurn
    <1>13. /\ (\A i \in Intent : TopUpBacked(intents[i], kept[i]))'
           /\ (\A k \in Task : ResumeBacked(job[k]))'
        BY <1>10, TopUpsRest, ResumesStay
    <1>14. IsFiniteSet(PaidIn') /\ wallet' + gateway' = Total(PaidIn') /\ Spare' \in Nat
        BY <1>10, BoundTypes DEF Live, BackedInv, BooksBacked
    <1> QED
        BY <1>9, <1>10, <1>12, <1>13, <1>14, StillBacked

(* A top-up remembers the amount and the payments of its deposit.          *)
LEMMA TopsUpBacked ==
    ASSUME Live, Next, NEW h \in Handler, CircleTopsUp(h)
    PROVE  BackedInv'
    <1> USE DEF CircleTopsUp, Still, worldVars, ledgerVars
    <1>0. PICK q \in Request : q = req[h]
        BY Mine
    <1>1. PICK r : q = req[h] /\ Goto(h, r) /\ r = [q EXCEPT !.pc = "gas_pending"]
        BY <1>0
    <1>2. /\ r.pc = "gas_pending" /\ q.pc = "deposit"
          /\ r.seen = q.seen /\ r.note = q.note
        BY <1>1 DEF Request
    <1>3. PICK past \in Known : past = asked[h] /\ RequestBacked(q, past)
        BY <1>1, Mine
    <1>4. PICK amount \in Nat : amount = q.amount /\ amount > 0
        BY <1>1 DEF Request
    <1>5. LaterThan(past, amount) /\ past # {}
        BY <1>2, <1>3, <1>4 DEF RequestBacked
    <1>6. asked'[h] = past /\ RequestBacked(r, past)
        BY <1>1, <1>2, <1>3, AskedOnward DEF RequestBacked
    <1>7. intents \in [Intent -> TopUp]
        BY DEF Live, InboundInv, TypeOK
    <1>8. /\ Steady
          /\ \A p, a : LaterThan(p, a)' <=> LaterThan(p, a)
        BY QuietBooks
    <1>9. CASE UNCHANGED intents
        <2>1. \A i \in Intent : kept'[i] \in Known
            BY <1>9, KeptStays
        <2>2. /\ (\A i \in Intent : TopUpBacked(intents[i], kept[i]))'
              /\ (\A k \in Task : ResumeBacked(job[k]))'
            BY <1>8, <1>9, TopUpsRest, ResumesStay
        <2> QED
            BY <1>1, <1>6, <2>1, <2>2, QuietTurn
    <1>10. CASE \E i \in UnusedTopUps : intents' = [intents EXCEPT ![i] =
                    [status |-> "pending", ref |-> q.note, amount |-> q.amount, arrived |-> FALSE]]
        <2>1. PICK i \in Intent :
                /\ intents[i].status = "none"
                /\ intents'[i].status = "pending" /\ intents'[i].amount = amount
                /\ \A j \in Intent : j # i => intents'[j] = intents[j]
            BY <1>4, <1>7, <1>10 DEF UnusedTopUps
        <2>2. \A g \in Handler : Moves(g, "deposit", "gas_pending") <=> g = h
            <3>1. Moves(h, "deposit", "gas_pending")
                BY <1>1, <1>2, AskedOnward DEF Moves
            <3>2. ASSUME NEW g \in Handler, g # h
                  PROVE  ~Moves(g, "deposit", "gas_pending")
                <4>1. req'[g] = req[g]
                    BY <1>1, <3>2, AskedOnward
                <4> QED
                    BY <4>1 DEF Moves
            <3> QED
                BY <3>1, <3>2
        <2>3. kept'[i] = past
            <3>1. kept'[i] = UNION {asked[g] : g \in {g \in Handler : Moves(g, "deposit", "gas_pending")}}
                BY <2>1 DEF Live, Remember, Kept
            <3>2. {asked[g] : g \in {g \in Handler : Moves(g, "deposit", "gas_pending")}} = {past}
                BY <1>3, <2>2
            <3> QED
                BY <3>1, <3>2
        <2>4. \A j \in Intent : kept'[j] \in Known
            BY <2>1, <2>3, KeptStays
        <2>5. \A j \in Intent : j # i => TopUpBacked(intents[j], kept[j])'
            BY <1>8, <2>1, TopUpRests
        <2>6. TopUpBacked(intents[i], kept[i])'
            BY <1>5, <1>8, <2>1, <2>3 DEF TopUpBacked
        <2>7. (\A j \in Intent : TopUpBacked(intents[j], kept[j]))'
            BY <2>5, <2>6
        <2>8. \A j \in Intent : intents[j].status # "none" => intents'[j].status # "none"
            BY <2>1
        <2>9. (\A k \in Task : ResumeBacked(job[k]))'
            BY <1>8, <2>8, ResumesStay
        <2> QED
            BY <1>1, <1>6, <2>4, <2>7, <2>9, QuietTurn
    <1> QED
        BY <1>1, <1>9, <1>10
-----------------------------------------------------------------------------
(* Credits, by a handler or by a resume task.                              *)

LEMMA CreditedBacked ==
    ASSUME Live, NEW i \in DOMAIN pendings, CreditPending(i),
           UNCHANGED <<arrived, wallet, gateway, intents>>,
           NEW mine \in Known, LaterThan(mine, 0), AskedByCreditor = mine,
           mine = {} => Settled(pendings[i].tx),
           \A h \in Handler : asked'[h] \in Known
    PROVE  /\ Steady /\ Settling /\ HistTypes'
           /\ IsFiniteSet(PaidIn') /\ wallet' + gateway' = Total(PaidIn') /\ Spare' \in Nat
           /\ (\A j \in Intent : TopUpBacked(intents[j], kept[j]))'
    <1>1. old' = old /\ stray' = stray + Stray /\ old \subseteq arrived
        BY DEF Live, Remember, BackedInv, HistTypes
    <1>2. Steady /\ Settling /\ PaidIn' = PaidIn /\ Spare' \in Nat /\ stray' \in Nat
        BY <1>1, CreditBounds DEF Live
    <1>3. \A j \in Intent : kept'[j] \in Known
        BY KeptStays
    <1>4. /\ asked' \in [Handler -> SUBSET PaidIn'] /\ kept' \in [Intent -> SUBSET PaidIn']
          /\ \A p, q \in Pasts' : p \subseteq q \/ q \subseteq p
        BY <1>2, <1>3, PastsKnown DEF Live, Remember, Pasts
    <1>5. HistTypes'
        BY <1>1, <1>2, <1>4 DEF HistTypes
    <1> QED
        BY <1>2, <1>5, TopUpsRest DEF Live, BackedInv, BooksBacked

LEMMA CreditNextBacked ==
    ASSUME Live, Next, NEW h \in Handler, NEW i \in DOMAIN pendings, CreditNext(h, i)
    PROVE  BackedInv'
    <1> USE DEF CreditNext, worldVars, circleVars
    <1>1. PICK q \in Request : q = req[h]
        BY Mine
    <1>2. PICK r : Goto(h, r) /\ r = [q EXCEPT !.pc = "marking", !.current = i]
        BY <1>1
    <1>3. /\ r.pc = "marking" /\ q.pc = "crediting" /\ r.batch = q.batch
          /\ r.seen = q.seen /\ r.note = q.note
        BY <1>1, <1>2 DEF Request
    <1>4. PICK mine \in Known : mine = asked[h] /\ RequestBacked(q, mine) /\ RequestAgrees(q)
        BY <1>1, Mine
    <1>5. asked'[h] = mine
        BY <1>2, <1>3, <1>4, AskedOnward
    <1>6. \A g \in Handler : Moves(g, "crediting", "marking") <=> g = h
        <2>1. Moves(h, "crediting", "marking")
            BY <1>1, <1>2, <1>3, AskedOnward DEF Moves
        <2>2. ASSUME NEW g \in Handler, g # h
              PROVE  ~Moves(g, "crediting", "marking")
            <3>1. req'[g] = req[g]
                BY <1>2, <2>2, AskedOnward
            <3> QED
                BY <3>1 DEF Moves
        <2> QED
            BY <2>1, <2>2
    <1>7. AskedByCreditor = mine
        <2>1. {asked[g] : g \in {g \in Handler : Moves(g, "crediting", "marking")}} = {mine}
            BY <1>4, <1>6
        <2>2. {kept[job[k].intent] : k \in {j \in Task : job[j].pc = "resumed" /\ job'[j].pc = "marking"}}
                  = {}
            OBVIOUS
        <2> QED
            BY <2>1, <2>2 DEF AskedByCreditor
    <1>8. LaterThan(mine, 0)
        BY <1>3, <1>4 DEF RequestBacked
    <1>9. mine = {} => Settled(pendings[i].tx)
        <2>1. CASE mine = {}
            <3>1. q.batch = {} /\ q.seen = "processed" /\ q.note \in Usable
                BY <1>3, <1>4, <2>1 DEF RequestBacked, RequestAgrees
            <3>2. OpenBatch(h) = {}
                BY <1>1, <3>1 DEF OpenBatch
            <3>3. i = q.entry
                BY <1>1, <3>2
            <3>4. q.entry # 0
                BY <1>3, <1>4 DEF RequestAgrees
            <3>5. pendings[i].tx = TxOf[q.note]
                BY <1>4, <3>3, <3>4 DEF RequestAgrees
            <3>6. q.note \notin Intent
                BY <3>1, InboundAssumption
            <3> QED
                BY <1>4, <3>1, <3>5, <3>6 DEF RequestBacked
        <2> QED
            BY <2>1
    <1>10. \A g \in Handler : asked'[g] \in Known
        <2>1. ASSUME NEW g \in Handler, g # h
              PROVE  asked'[g] \in Known
            <3>1. req'[g] = req[g]
                BY <1>2, <2>1, AskedOnward
            <3> QED
                BY <3>1, AskedStays, PastsKnown DEF Live
        <2> QED
            BY <1>5, <2>1
    <1>11. /\ Steady /\ Settling /\ HistTypes'
           /\ IsFiniteSet(PaidIn') /\ wallet' + gateway' = Total(PaidIn') /\ Spare' \in Nat
           /\ (\A j \in Intent : TopUpBacked(intents[j], kept[j]))'
        BY <1>7, <1>8, <1>9, <1>10, CreditedBacked
    <1>12. LaterThan(mine, 0)'
        BY <1>8, <1>11 DEF Steady
    <1>13. RequestBacked(r, mine)'
        BY <1>3, <1>4, <1>11, <1>12 DEF RequestBacked, Settling
    <1>14. (\A g \in Handler : RequestBacked(req[g], asked[g]))'
        BY <1>2, <1>5, <1>11, <1>13, RequestsTurn
    <1>15. (\A k \in Task : ResumeBacked(job[k]))'
        BY <1>11, ResumesStay
    <1> QED
        BY <1>11, <1>14, <1>15, StillBacked

(* Facts of the resume task that moves, and of its top-up.                 *)
LEMMA MyTopUp ==
    ASSUME Live, NEW k \in Task
    PROVE  /\ job[k] \in Resume /\ ResumeAgrees(job[k]) /\ ResumeBacked(job[k])
           /\ intents \in [Intent -> TopUp]
           /\ \A i \in Intent : TopUpBacked(intents[i], kept[i]) /\ kept[i] \in Known
    BY ResumeKnown, PastsKnown DEF Live, BackedInv, InboundInv, TypeOK

LEMMA ResumeCreditsBacked ==
    ASSUME Live, Next, NEW k \in Task, NEW i \in 0..Len(pendings), ResumeCredits(k, i)
    PROVE  BackedInv'
    <1> USE DEF ResumeCredits, worldVars, circleVars
    <1>1. PICK q \in Resume : q = job[k] /\ ResumeAgrees(q) /\ ResumeBacked(q)
        BY MyTopUp
    <1>2. q.pc = "resumed"
        BY <1>1 DEF ResumedEntry
    <1>3. PICK r : Become(k, r) /\ r = [q EXCEPT !.pc = "marking", !.current = i]
        BY <1>1
    <1>4. r.pc = "marking"
        BY <1>3 DEF Resume
    <1>5. PICK t \in Intent : t = q.intent /\ intents[t].status # "none"
        BY <1>1, <1>2 DEF ResumeAgrees, ResumeBacked
    <1>6. PICK mine \in Known : mine = kept[t] /\ mine # {} /\ LaterThan(mine, 0)
        BY <1>1, <1>2, <1>5, MyTopUp DEF TopUpBacked, ResumeBacked
    <1>7. job \in [Task -> Resume] /\ i \in DOMAIN pendings
        BY DEF Live, InboundInv, TypeOK
    <1>8. \A j \in Task : (job[j].pc = "resumed" /\ job'[j].pc = "marking") <=> j = k
        BY <1>1, <1>2, <1>3, <1>4, <1>7 DEF Become
    <1>9. AskedByCreditor = mine
        <2>1. {g \in Handler : Moves(g, "crediting", "marking")} = {}
            BY DEF Moves
        <2>2. {kept[job[j].intent] : j \in {j \in Task : job[j].pc = "resumed" /\ job'[j].pc = "marking"}}
                  = {mine}
            BY <1>1, <1>5, <1>6, <1>8
        <2>3. {asked[g] : g \in {g \in Handler : Moves(g, "crediting", "marking")}} = {}
            BY <2>1
        <2> QED
            BY <2>2, <2>3 DEF AskedByCreditor
    <1>10. \A g \in Handler : asked'[g] \in Known
        BY AskedStays, PastsKnown DEF Live
    <1>11. /\ Steady /\ Settling /\ HistTypes'
           /\ IsFiniteSet(PaidIn') /\ wallet' + gateway' = Total(PaidIn') /\ Spare' \in Nat
           /\ (\A j \in Intent : TopUpBacked(intents[j], kept[j]))'
        BY <1>6, <1>7, <1>9, <1>10, CreditedBacked
    <1>12. ResumeBacked(r)'
        BY <1>4 DEF ResumeBacked
    <1>13. (\A j \in Task : ResumeBacked(job[j]))'
        BY <1>3, <1>11, <1>12, ResumesTurn
    <1>14. (\A g \in Handler : RequestBacked(req[g], asked[g]))'
        BY <1>11, RequestsStay
    <1> QED
        BY <1>11, <1>13, <1>14, StillBacked

LEMMA ResumeQuietBacked ==
    ASSUME Live, Next, NEW k \in Task,
           \/ ResumeCall(k) \/ ResumeMarks(k)
           \/ \E i \in 0..Len(pendings) : ResumeFindsCredit(k, i)
    PROVE  BackedInv'
    <1> USE DEF ResumeCall, ResumeMarks, ResumeFindsCredit,
                Still, worldVars, ledgerVars, circleVars
    <1>1. PICK q \in Resume : q = job[k] /\ ResumeAgrees(q) /\ ResumeBacked(q)
        BY MyTopUp
    <1>2. CASE Become(k, NoResume)
        <2>1. PICK r : r = NoResume
            OBVIOUS
        <2>2. ResumeBacked(r)
            BY <2>1, IdleBacked
        <2> QED
            BY <1>2, <2>1, <2>2, QuietResumes
    <1>3. CASE ResumeCall(k) /\ ~Become(k, NoResume)
        <2>1. PICK t \in Intent : t = q.intent
            BY <1>1, <1>3 DEF ResumeAgrees
        <2>2. PICK r :
                /\ Become(k, r)
                /\ \/ intents[t].status = "completed" /\ r = [q EXCEPT !.pc = "resumed"]
                   \/ intents[t].status \in {"pending", "topup_complete"} /\ r = [q EXCEPT !.pc = "deposit"]
            BY <1>1, <1>3, <2>1
        <2>3. r.intent = t /\ r.pc \in {"resumed", "deposit"} /\ intents[t].status # "none"
            BY <2>1, <2>2 DEF Resume
        <2>4. r.pc = "resumed" => intents[t].status = "completed"
            BY <2>2 DEF Resume
        <2>5. r.pc = "resumed" => LaterThan(kept[t], 0)
            BY <2>4, MyTopUp DEF TopUpBacked
        <2>6. ResumeBacked(r)
            BY <2>3, <2>5 DEF ResumeBacked
        <2> QED
            BY <1>3, <2>2, <2>6, QuietResumes
    <1> QED
        BY <1>2, <1>3

LEMMA ResumeDepositsBacked ==
    ASSUME Live, Next, NEW k \in Task, ResumeDeposits(k)
    PROVE  BackedInv'
    <1> USE DEF ResumeDeposits, worldVars, ledgerVars
    <1>1. PICK q \in Resume : q = job[k] /\ ResumeAgrees(q) /\ ResumeBacked(q)
        BY MyTopUp
    <1>2. PICK t \in Intent : t = q.intent /\ intents[t].status # "none"
        BY <1>1 DEF ResumeAgrees, ResumeBacked
    <1>3. PICK amount \in Nat : amount = intents[t].amount
        BY MyTopUp DEF TopUp
    <1>4. PICK past \in Known : past = kept[t] /\ LaterThan(past, amount) /\ past # {}
        BY <1>2, <1>3, MyTopUp DEF TopUpBacked
    <1>5. Sweep(amount)
        BY <1>1, <1>2, <1>3
    <1>6. /\ intents'[t].status = "completed" /\ intents'[t].amount = amount
          /\ \A j \in Intent : j # t => intents'[j] = intents[j]
        BY <1>1, <1>2, <1>3, MyTopUp DEF TopUp
    <1>7. \A j \in Intent : kept'[j] = kept[j] /\ kept'[j] \in Known
        BY <1>2, <1>6, KeptStays
    <1>8. \A h \in Handler : asked'[h] \in Known \cup {PaidIn}
        BY AskedStays, PastsKnown DEF Live
    <1>9. HistTypes' /\ old' = old /\ stray' = stray
        BY <1>7, <1>8, HistQuiet
    <1>10. /\ Steady /\ Settling /\ LaterThan(past, 0)' /\ LaterThan(past, amount)'
           /\ PaidIn' = PaidIn /\ Spare' = Spare
           /\ wallet' + gateway' = wallet + gateway
        BY <1>4, <1>5, <1>9, SweepBounds DEF Live, Steady
    <1>11. kept'[t] = past
        BY <1>4, <1>7
    <1>12. (\A j \in Intent : TopUpBacked(intents[j], kept[j]))'
        <2>1. \A j \in Intent : j # t => TopUpBacked(intents[j], kept[j])'
            BY <1>6, <1>10, TopUpRests
        <2>2. TopUpBacked(intents[t], kept[t])'
            BY <1>4, <1>6, <1>10, <1>11 DEF TopUpBacked
        <2> QED
            BY <2>1, <2>2
    <1>13. \A j \in Intent : intents[j].status # "none" => intents'[j].status # "none"
        BY <1>6
    <1>14. PICK r : /\ Become(k, r)
                    /\ r = NoResume \/ r = [q EXCEPT !.pc = "resumed"]
        BY <1>1
    <1>15. ResumeBacked(r)'
        <2>1. CASE r = NoResume
            BY <2>1 DEF ResumeBacked, NoResume
        <2>2. CASE r = [q EXCEPT !.pc = "resumed"]
            <3>1. r.intent = t
                BY <1>2, <2>2 DEF Resume
            <3> QED
                BY <1>6, <1>10, <1>11, <3>1 DEF ResumeBacked
        <2> QED
            BY <1>14, <2>1, <2>2
    <1>16. (\A j \in Task : ResumeBacked(job[j]))'
        BY <1>10, <1>13, <1>14, <1>15, ResumesTurn
    <1>17. (\A h \in Handler : RequestBacked(req[h], asked[h]))'
        BY <1>10, RequestsStay
    <1>18. IsFiniteSet(PaidIn') /\ wallet' + gateway' = Total(PaidIn') /\ Spare' \in Nat
        BY <1>10, BoundTypes DEF Live, BackedInv, BooksBacked
    <1> QED
        BY <1>9, <1>10, <1>12, <1>16, <1>17, <1>18, StillBacked

LEMMA ResumeRefusedBacked ==
    ASSUME Live, Next, NEW k \in Task, ResumeRefused(k)
    PROVE  BackedInv'
    <1> USE DEF ResumeRefused, Still, worldVars, ledgerVars
    <1>1. PICK q \in Resume : q = job[k] /\ ResumeAgrees(q) /\ ResumeBacked(q)
        BY MyTopUp
    <1>2. PICK t \in Intent : t = q.intent /\ intents[t].status # "none"
        BY <1>1 DEF ResumeAgrees, ResumeBacked
    <1>3. /\ intents'[t].status = "failed" /\ intents'[t].amount = intents[t].amount
          /\ \A j \in Intent : j # t => intents'[j] = intents[j]
        BY <1>1, <1>2, MyTopUp DEF TopUp
    <1>4. /\ Steady /\ Settling
          /\ IsFiniteSet(PaidIn') /\ wallet' + gateway' = Total(PaidIn') /\ Spare' \in Nat
        BY QuietBooks
    <1>5. \A h \in Handler : asked'[h] \in Known \cup {PaidIn}
        BY AskedStays, PastsKnown DEF Live
    <1>6. \A j \in Intent : kept'[j] \in Known
        BY <1>2, <1>3, KeptStays
    <1>7. HistTypes'
        BY <1>5, <1>6, HistQuiet
    <1>8. \A j \in Intent : TopUpBacked(intents[j], kept[j])'
        BY <1>2, <1>3, <1>4, TopUpRests
    <1>9. PICK r : Become(k, r) /\ r = NoResume
        OBVIOUS
    <1>10. ResumeBacked(r)'
        BY <1>9 DEF ResumeBacked, NoResume
    <1>11. \A j \in Intent : intents[j].status # "none" => intents'[j].status # "none"
        BY <1>3
    <1>12. (\A j \in Task : ResumeBacked(job[j]))'
        BY <1>4, <1>9, <1>10, <1>11, ResumesTurn
    <1>13. (\A h \in Handler : RequestBacked(req[h], asked[h]))'
        BY <1>4, RequestsStay
    <1>14. (\A j \in Intent : TopUpBacked(intents[j], kept[j]))'
        BY <1>8
    <1> QED
        BY <1>4, <1>7, <1>12, <1>13, <1>14, StillBacked
-----------------------------------------------------------------------------
(* The invariant, and what it says of the account.                         *)

LEMMA StutterBacked ==
    ASSUME InboundInv, BackedInv, UNCHANGED <<vars, histVars>>
    PROVE  BackedInv'
    <1> USE DEF vars, histVars, worldVars, ledgerVars, circleVars
    <1>1. PaidIn' = PaidIn /\ Uncredited' = Uncredited /\ Spare' = Spare
        BY DEF PaidIn, Uncredited, CreditedTx, Spare
    <1>2. \A past, amount : LaterThan(past, amount)' <=> LaterThan(past, amount)
        BY <1>1 DEF LaterThan
    <1>3. \A t : Settled(t)' <=> Settled(t)
        BY DEF Settled, CreditedTx
    <1>4. HistTypes'
        BY <1>1 DEF BackedInv, HistTypes, Pasts
    <1>5. BooksBacked'
        BY <1>1, <1>2, <1>3 DEF BackedInv, BooksBacked
    <1>6. (\A h \in Handler : RequestBacked(req[h], asked[h]))'
        BY <1>2, <1>3 DEF BackedInv, RequestBacked
    <1>7. (\A i \in Intent : TopUpBacked(intents[i], kept[i]))'
        BY <1>2 DEF BackedInv, TopUpBacked
    <1>8. (\A k \in Task : ResumeBacked(job[k]))'
        BY <1>2 DEF BackedInv, ResumeBacked
    <1> QED
        BY <1>4, <1>5, <1>6, <1>7, <1>8 DEF BackedInv

LEMMA InitBacked == BackingInit => BackedInv
    <1> SUFFICES ASSUME BackingInit PROVE BackedInv
        OBVIOUS
    <1> USE DEF BackingInit, Init, HistInit
    <1>1. PaidIn = {} /\ Uncredited = {}
        BY DEF PaidIn, Uncredited
    <1>2. Total({}) = 0 /\ IsFiniteSet({})
        BY TotalOfNone, FS_EmptySet
    <1>3. Spare = 0
        BY <1>1, <1>2 DEF Spare
    <1>4. LaterThan({}, 0)
        BY <1>1, <1>2, <1>3 DEF LaterThan
    <1>5. \A n \in Note : events[n] = "processed" => Settled(TxOf[n])
        <2> SUFFICES ASSUME NEW n \in Note, events[n] = "processed" PROVE Settled(TxOf[n])
            OBVIOUS
        <2>1. events[n] = IF n \in acked THEN "processed" ELSE "none"
            BY DEF Hook
        <2>2. TxOf[n] \in old
            BY <2>1
        <2> QED
            BY <2>2 DEF Settled
    <1>6. BooksBacked
        <2>1. IsFiniteSet(PaidIn) /\ Total(PaidIn) = 0
            BY <1>1, <1>2, Zenon
        <2>2. wallet + gateway = Total(PaidIn) /\ Spare \in Nat
            BY <1>3, <2>1
        <2> QED
            BY <1>4, <1>5, <2>1, <2>2, Zenon DEF BooksBacked
    <1>7. HistTypes
        BY DEF HistTypes, Pasts
    <1>8. \A h \in Handler : RequestBacked(req[h], asked[h])
        BY IdleBacked
    <1>9. \A k \in Task : ResumeBacked(job[k])
        BY IdleBacked
    <1>10. \A i \in Intent : TopUpBacked(intents[i], kept[i])
        BY DEF TopUpBacked, NoTopUp
    <1> QED
        BY <1>6, <1>7, <1>8, <1>9, <1>10 DEF BackedInv

LEMMA HandlerBacked ==
    ASSUME Live, Next, NEW h \in Handler, HandlerStep(h) \/ CircleStep(h)
    PROVE  BackedInv'
    <1>1. CASE \E n \in Hook : \/ Skip(h, n) \/ Duplicate(h, n) \/ Receive(h, n)
                               \/ ReplayProcessed(h, n) \/ TopUpNoticed(h, n)
        BY <1>1, AnsweredBacked, ReceiveBacked, ReplayBacked, TopUpNoticedBacked
    <1>2. CASE DepositFailed(h) \/ DepositAwaitsGas(h) \/ Finish(h)
        BY <1>2, RequestGone
           DEF DepositFailed, DepositAwaitsGas, Finish, Reply, Still, worldVars, circleVars
    <1>3. CASE \/ StartDeposit(h) \/ CircleRefuses(h)
               \/ DepositCompleted(h) \/ MarkProcessed(h)
        BY <1>3, SameBacked
    <1>4. CASE \/ \E i \in DOMAIN pendings : CreditNext(h, i)
               \/ \E i \in Intent : CircleHook(h, i)
        BY <1>4, CreditNextBacked, HookBacked
    <1>5. CASE CircleStatus(h) \/ CircleDeposits(h) \/ CircleTopsUp(h)
        BY <1>5, StatusBacked, DepositsBacked, TopsUpBacked
    <1> QED
        BY <1>1, <1>2, <1>3, <1>4, <1>5 DEF HandlerStep, CircleStep

LEMMA NextBacked == InboundInv /\ BackedInv /\ [BackingNext]_<<vars, histVars>> => BackedInv'
    <1> SUFFICES ASSUME InboundInv, BackedInv, [BackingNext]_<<vars, histVars>> PROVE BackedInv'
        OBVIOUS
    <1>1. CASE UNCHANGED <<vars, histVars>>
        BY <1>1, StutterBacked
    <1>2. CASE BackingNext
        <2>1. Live /\ Next
            BY <1>2 DEF BackingNext, Live
        <2>2. CASE \E t \in Tx : Arrive(t)
            BY <2>1, <2>2, ArriveBacked
        <2>3. CASE BindWallet \/ \E i \in Intent : GasArrives(i)
            BY <2>1, <2>3, WorldBacked
        <2>4. CASE \E h \in Handler : \/ \E n \in Hook : Deliver(h, n)
                                      \/ HandlerStep(h) \/ CircleStep(h)
            BY <2>1, <2>4, DeliverBacked, HandlerBacked
        <2>5. CASE \E k \in Task : TaskStep(k)
            BY <2>1, <2>5, ResumeQuietBacked, ResumeDepositsBacked, ResumeRefusedBacked,
               ResumeCreditsBacked DEF TaskStep
        <2>6. CASE Crash
            BY <2>1, <2>6, CrashBacked
        <2> QED
            BY <2>1, <2>2, <2>3, <2>4, <2>5, <2>6 DEF Next
    <1> QED
        BY <1>1, <1>2

(* Whatever the handlers and resume tasks remember of a balance, the       *)
(* wallet holds no more beyond it than what came in later: the invariant   *)
(* behind SweptBeforeSpendable, for any number of each.                    *)
THEOREM WalletMoneyAccounted == BackingSpec => []BackedInv
    <1>1. BackingInit => InboundInv /\ BackedInv
        BY InitInv, InitBacked DEF BackingInit
    <1>2. InboundInv /\ BackedInv /\ [BackingNext]_<<vars, histVars>> => (InboundInv /\ BackedInv)'
        <2>1. [BackingNext]_<<vars, histVars>> => [Next]_vars
            BY DEF BackingNext
        <2> QED
            BY <2>1, NextInv, NextBacked
    <1> QED
        BY <1>1, <1>2, PTL DEF BackingSpec

(* What is spendable has been swept to the Gateway, however many handlers  *)
(* and resume tasks run at a time and wherever they crash or lose a reply, *)
(* but for what is credited for a payment that came in after the deposit's *)
(* balance was asked for, is older than the entries, or has its credit.    *)
THEOREM SweptBeforeSpendable == BackingSpec => []SpendableIsSwept
    <1>1. BackingInit => InboundInv
        BY InitInv DEF BackingInit
    <1>2. InboundInv /\ [BackingNext]_<<vars, histVars>> => InboundInv'
        BY NextInv DEF BackingNext
    <1>3. InboundInv /\ BackedInv => SpendableIsSwept
        <2> SUFFICES ASSUME InboundInv, BackedInv PROVE SpendableIsSwept
            OBVIOUS
        <2>1. PaidIn \in Payments /\ Uncredited \in SUBSET PaidIn
            BY PaidInPayments DEF Uncredited
        <2>2. Total(PaidIn) = Total(Uncredited) + Total(PaidIn \ Uncredited)
            BY <2>1, TotalSplit
        <2>3. /\ Total(Uncredited) \in Nat /\ Total(PaidIn \ Uncredited) \in Nat
              /\ wallet \in Nat /\ gateway \in Nat /\ available \in Nat /\ stray \in Nat
            BY <2>1, PaidInPayments, BoundTypes
        <2>4. wallet + gateway = Total(PaidIn)
            BY DEF BackedInv, BooksBacked
        <2>5. wallet <= 0 + Total(Uncredited) + Spare
            <3>1. Uncredited \ {} = Uncredited
                OBVIOUS
            <3> QED
                BY <3>1 DEF BackedInv, BooksBacked, LaterThan
        <2> QED
            BY <2>2, <2>3, <2>4, <2>5 DEF Spare, SpendableIsSwept
    <1> QED
        BY <1>1, <1>2, <1>3, WalletMoneyAccounted, PTL DEF BackingSpec
=============================================================================
