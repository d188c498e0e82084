--------------------------- MODULE CreditsSettler ---------------------------
(***************************************************************************)
(* credits-settler: cron runs that post the spends of the ledger to the    *)
(* MiniAppCredits contract, one batch per epoch, through TxProxy, and the  *)
(* credit_epochs rows in which they keep what they have done.  Nothing     *)
(* keeps runs from overlapping.                                            *)
(*                                                                         *)
(* The ledger is seen as the settler sees it: spend events that appear in  *)
(* the log when they commit, with an id drawn before.  A batch is the set  *)
(* of the events whose amounts its deltas add up.  The confirmation        *)
(* timeout may strike at any time a run looks at a submitted epoch.        *)
(***************************************************************************)
EXTENDS Integers, FiniteSets, Sequences

CONSTANTS
  Wallets,
  Runs,       \* settler runs that may overlap
  MaxUsers,   \* wallets per batch
  MaxId,      \* bound on the ids of events
  MaxOpen,    \* bound on spends that hold an id and have not committed
  MaxTxs,     \* bound on settlement transactions
  MaxFaults,  \* bound on faults
  None

ASSUME SettlerAssumption ==
  /\ {MaxUsers, MaxId, MaxOpen, MaxTxs, MaxFaults} \subseteq Nat
  /\ MaxUsers > 0
  /\ None \notin Nat

Epochs == 1..(MaxTxs + 1)
Spend == [id : 1..MaxId, wallet : Wallets]

VARIABLES
  nextId,      \* next id of an event
  open,        \* spends that hold an id, not committed
  spent,       \* spends in the log
  late,        \* history: those that committed below a window already cut
  epochs,      \* epoch -> its credit_epochs row, or None
  chainEpoch,  \* currentEpoch of the contract
  txs,         \* the settlement transactions broadcast so far
  onRecord,    \* history: those credit_epochs accounts for, see Account below
  run,         \* run -> where it is
  faults       \* faults so far

ledgerVars == <<nextId, open, spent, late>>
chainVars == <<chainEpoch, txs>>
vars == <<nextId, open, spent, late, epochs, chainEpoch, txs, onRecord, run, faults>>

TxIndex == 1..MaxTxs

\* tx: the transaction recorded (tx_hash), as its index in txs.  by: history, the
\* run that has prepared the row.
EpochRow == [status : {"pending", "submitted", "confirmed", "failed"},
             from : 0..MaxId, through : 1..MaxId, tx : TxIndex \cup {None}, by : Runs]

ASSUME NoRowAssumption == None \notin EpochRow

\* fate: in the mempool, executed, or vanished from the mempool for good.  by:
\* history, the run that has posted it.
Tx == [epoch : Epochs, batch : SUBSET Spend, fate : {"pool", "HALT", "FAULT", "gone"}, by : Runs]

\* at: the call the run makes next; chain: the epoch it read; todo: the epochs
\* and tx_hashes it loaded; batch, from, through: the window it has prepared; sent,
\* tx: the settlement it has posted and the tx_hash it was given.
Todo == Epochs \X (TxIndex \cup {None})
IdleRun == [at |-> "idle", chain |-> 0, todo |-> {}, batch |-> {}, from |-> 0, through |-> 0,
            sent |-> None, tx |-> None]
RunRecord == [at : {"idle", "load", "reconcile", "post", "record", "reject"},
              chain : 0..MaxTxs, todo : SUBSET Todo, batch : SUBSET Spend,
              from : 0..MaxId, through : 0..MaxId, sent : TxIndex \cup {None},
              tx : TxIndex \cup {None}]

TypeOK ==
  /\ nextId \in 1..(MaxId + 1)
  /\ open \subseteq Spend /\ spent \subseteq Spend /\ late \subseteq spent
  /\ epochs \in [Epochs -> EpochRow \cup {None}]
  /\ chainEpoch \in 0..MaxTxs
  /\ \A t \in DOMAIN txs : txs[t] \in Tx
  /\ onRecord \subseteq DOMAIN txs /\ DOMAIN txs \subseteq TxIndex
  /\ run \in [Runs -> RunRecord]
  /\ faults \in 0..MaxFaults

Init ==
  /\ nextId = 1
  /\ open = {} /\ spent = {} /\ late = {}
  /\ epochs = [e \in Epochs |-> None]
  /\ chainEpoch = 0
  /\ txs = <<>> /\ onRecord = {}
  /\ run = [r \in Runs |-> IdleRun]
  /\ faults = 0

Goto(r, next) == run' = [run EXCEPT ![r] = next]
Fault == faults < MaxFaults /\ faults' = faults + 1
WithStatus(S) == {e \in Epochs : epochs[e] # None /\ epochs[e].status \in S}

\* The end of a window that is live or that a run has in hand.
Cut(i) ==
  \/ \E e \in WithStatus({"pending", "submitted", "confirmed"}) : i <= epochs[e].through
  \/ \E r \in Runs : i <= run[r].through

-----------------------------------------------------------------------------
\* Spends of the ledger: the id is drawn when the event is inserted, under the
\* lock of the wallet's balance row, and the event is seen when the transaction
\* commits, in whatever order for different wallets.

SpendInsert(w) ==
  /\ nextId <= MaxId
  /\ Cardinality(open) < MaxOpen
  /\ \A s \in open : s.wallet # w
  /\ open' = open \cup {[id |-> nextId, wallet |-> w]}
  /\ nextId' = nextId + 1
  /\ UNCHANGED <<spent, late, epochs, chainVars, onRecord, run, faults>>

SpendCommit(s) ==
  /\ s \in open
  /\ open' = open \ {s}
  /\ spent' = spent \cup {s}
  /\ late' = IF Cut(s.id) THEN late \cup {s} ELSE late
  /\ UNCHANGED <<nextId, epochs, chainVars, onRecord, run, faults>>

SpendRollback(s) ==
  /\ s \in open
  /\ open' = open \ {s}
  /\ UNCHANGED <<nextId, spent, late, epochs, chainVars, onRecord, run, faults>>

-----------------------------------------------------------------------------
\* The chain.

SetFate(t, fate) == txs' = [txs EXCEPT ![t].fate = fate]

\* The contract accepts a batch for currentEpoch + 1 only.
Land(t) ==
  /\ txs[t].fate = "pool"
  /\ IF txs[t].epoch = chainEpoch + 1
     THEN SetFate(t, "HALT") /\ chainEpoch' = chainEpoch + 1
     ELSE SetFate(t, "FAULT") /\ UNCHANGED chainEpoch
  /\ UNCHANGED <<ledgerVars, epochs, onRecord, run, faults>>

\* The execution faults for another reason: the contract is paused, or the
\* fee does not suffice.
LandFaults(t) ==
  /\ txs[t].fate = "pool"
  /\ Fault
  /\ SetFate(t, "FAULT")
  /\ UNCHANGED <<ledgerVars, epochs, chainEpoch, onRecord, run>>

Vanish(t) ==
  /\ txs[t].fate = "pool"
  /\ Fault
  /\ SetFate(t, "gone")
  /\ UNCHANGED <<ledgerVars, epochs, chainEpoch, onRecord, run>>

-----------------------------------------------------------------------------
\* A run reads the chain and reconciles the submitted epochs.

ReadChainEpoch(r) ==
  /\ run[r].at = "idle"
  /\ Goto(r, [IdleRun EXCEPT !.at = "load", !.chain = chainEpoch])
  /\ UNCHANGED <<ledgerVars, epochs, chainVars, onRecord, faults>>

LoadSubmitted(r) ==
  /\ run[r].at = "load"
  /\ Goto(r, [run[r] EXCEPT !.at = "reconcile",
                            !.todo = {<<e, epochs[e].tx>> : e \in WithStatus({"submitted"})}])
  /\ UNCHANGED <<ledgerVars, epochs, chainVars, onRecord, faults>>

Reconciling(r) == run[r].at = "reconcile" /\ run[r].todo # {}
First(r) == CHOOSE d \in run[r].todo : \A f \in run[r].todo : d[1] <= f[1]

\* update ... where status = from
SetStatus(e, from, to) ==
  epochs' = IF e \in WithStatus({from}) THEN [epochs EXCEPT ![e].status = to] ELSE epochs

\* mutant: a FAULTed settlement is taken for confirmed
ResolveAnyHow(r, d, status) ==
  /\ SetStatus(d[1], "submitted", "confirmed")
  /\ Goto(r, [run[r] EXCEPT !.todo = @ \ {d}])
Resolve(r, d, status) ==
  /\ SetStatus(d[1], "submitted", status)
  /\ Goto(r, [run[r] EXCEPT !.todo = @ \ {d}])

Fate(d) == IF d[2] = None THEN "unknown" ELSE txs[d[2]].fate

\* The settlements of an epoch that have landed or may still land.
Viable(e) == {t \in DOMAIN txs : txs[t].epoch = e /\ txs[t].fate \in {"pool", "HALT"}}

\* credit_epochs accounts for a settlement once its run has recorded it in the
\* window it was made for, and until a run gives it up by mistake: on the
\* timeout, or on the log of an older settlement of the epoch that it loaded
\* before another run had retried it.
Account(q, e) ==
  onRecord' = IF /\ e \in WithStatus({"pending"})
                 /\ epochs[e].from = q.from /\ epochs[e].through = q.through
              THEN onRecord \cup {q.sent} ELSE onRecord
GiveUp(d) == onRecord' = onRecord \ Viable(d[1])

\* The application log tells whether the settlement halted.
ReconcileByLog(r) ==
  /\ Reconciling(r)
  /\ LET d == First(r)
     IN  \/ Fate(d) = "HALT" /\ Resolve(r, d, "confirmed") /\ UNCHANGED onRecord
         \/ /\ Fate(d) = "FAULT"
            /\ Resolve(r, d, "failed")
            /\ IF epochs[d[1]].tx = d[2] THEN UNCHANGED onRecord ELSE GiveUp(d)
  /\ UNCHANGED <<ledgerVars, chainVars, faults>>

Consumed(r, d) == run[r].chain >= d[1]

\* No log, but the epoch number was consumed.
ReconcileByProgress(r) ==
  /\ Consumed(r, First(r))
  /\ Resolve(r, First(r), "confirmed")
  /\ UNCHANGED <<faults, onRecord>>

\* No log and no progress: the timeout, which is in time when nothing of the
\* epoch can land any more.
ReconcileByTimeout(r) ==
  /\ ~Consumed(r, First(r))
  /\ IF Viable(First(r)[1]) = {} THEN UNCHANGED faults ELSE Fault
  /\ Resolve(r, First(r), "failed")
  /\ GiveUp(First(r))

\* The run ends: waiting_confirmation.
ReconcileWaits(r) ==
  /\ ~Consumed(r, First(r))
  /\ Viable(First(r)[1]) # {}
  /\ Goto(r, IdleRun)
  /\ UNCHANGED <<epochs, faults, onRecord>>

\* There is no log of a transaction that has not been executed, or whose
\* hash is not known.
ReconcileUnexecuted(r) ==
  /\ Reconciling(r)
  /\ Fate(First(r)) \in {"pool", "gone", "unknown"}
  /\ ReconcileByProgress(r) \/ ReconcileByTimeout(r) \/ ReconcileWaits(r)
  /\ UNCHANGED <<ledgerVars, chainVars>>

\* getapplicationlog fails: what tells then is the chain as the run has read it
\* and, where that is behind, the timeout.
ReconcileLogFails(r) ==
  /\ Reconciling(r)
  /\ Fate(First(r)) \in {"HALT", "FAULT"}
  /\ Fault
  /\ \/ Consumed(r, First(r)) /\ Resolve(r, First(r), "confirmed") /\ UNCHANGED onRecord
     \/ ~Consumed(r, First(r)) /\ Resolve(r, First(r), "failed") /\ GiveUp(First(r))
     \/ ~Consumed(r, First(r)) /\ Goto(r, IdleRun) /\ UNCHANGED <<epochs, onRecord>>
  /\ UNCHANGED <<ledgerVars, chainVars>>

-----------------------------------------------------------------------------
\* credits_prepare_epoch.  Its statements are taken as one step.

MaxOf(S) == CHOOSE x \in S : \A y \in S : y <= x
ThroughOf(S) == MaxOf({0} \cup {epochs[e].through : e \in WithStatus(S)})

\* mutant: a submitted window may be prepared again
WindowStartConfirmed == ThroughOf({"confirmed"})
\* mutant: a failed window is not released
WindowStartAll == ThroughOf({"submitted", "confirmed", "failed"})
WindowStart == ThroughOf({"submitted", "confirmed"})

Upto(S, i) == {s \in S : s.id <= i}
Users(S) == {s.wallet : s \in S}
Unsettled == {s \in spent : s.id > WindowStart}

\* The largest id that keeps the distinct users within the cap.
WindowEnd ==
  MaxOf({s.id : s \in {u \in Unsettled : Cardinality(Users(Upto(Unsettled, u.id))) <= MaxUsers}})

Batch == Upto(Unsettled, WindowEnd)

\* mutant: the window ends before its last event's successor
PendingRowExclusive(r) ==
  [status |-> "pending", from |-> WindowStart, through |-> WindowEnd + 1, tx |-> None, by |-> r]
\* mutant: the cap cuts the batch but not the window
PendingRowUncapped(r) ==
  [status |-> "pending", from |-> WindowStart, through |-> MaxOf({s.id : s \in Unsettled}),
   tx |-> None, by |-> r]
PendingRow(r) ==
  [status |-> "pending", from |-> WindowStart, through |-> WindowEnd, tx |-> None, by |-> r]

Reconciled(r) == run[r].at = "reconcile" /\ run[r].todo = {}
NextEpoch(r) == run[r].chain + 1

NothingToSettle(r) ==
  /\ Reconciled(r)
  /\ Unsettled = {}
  /\ Goto(r, IdleRun)
  /\ UNCHANGED <<ledgerVars, epochs, chainVars, onRecord, faults>>

\* The epoch is already submitted or confirmed: the function raises.
PrepareRefused(r) ==
  /\ Reconciled(r)
  /\ Unsettled # {}
  /\ NextEpoch(r) \in WithStatus({"submitted", "confirmed"})
  /\ Goto(r, IdleRun)
  /\ UNCHANGED <<ledgerVars, epochs, chainVars, onRecord, faults>>

\* The epoch's row is made pending, over a pending or failed one.
Prepare(r) ==
  /\ Reconciled(r)
  /\ Unsettled # {}
  /\ NextEpoch(r) \notin WithStatus({"submitted", "confirmed"})
  /\ epochs' = [epochs EXCEPT ![NextEpoch(r)] = PendingRow(r)]
  /\ Goto(r, [run[r] EXCEPT !.at = "post", !.batch = Batch,
                            !.from = PendingRow(r).from, !.through = PendingRow(r).through])
  /\ UNCHANGED <<ledgerVars, chainVars, onRecord, faults>>

-----------------------------------------------------------------------------
\* invokeViaTxProxy and what the run writes about it.

Broadcast(r) ==
  /\ run[r].at = "post"
  /\ Len(txs) < MaxTxs
  /\ txs' = Append(txs, [epoch |-> NextEpoch(r), batch |-> run[r].batch, fate |-> "pool", by |-> r])

\* The reply may carry no tx_hash.
Invoke(r) ==
  /\ Broadcast(r)
  /\ \E hash \in {Len(txs) + 1, None} :
       /\ IF hash = None THEN Fault ELSE UNCHANGED faults
       /\ Goto(r, [run[r] EXCEPT !.at = "record", !.sent = Len(txs) + 1, !.tx = hash])
  /\ UNCHANGED <<ledgerVars, epochs, chainEpoch, onRecord>>

\* TxProxy refuses, or broadcasts and its reply is lost: after 15 s the call is
\* aborted.  The run cannot tell.
InvokeRejected(r) ==
  /\ Fault
  /\ \/ run[r].at = "post" /\ UNCHANGED txs
     \/ Broadcast(r)
  /\ Goto(r, [run[r] EXCEPT !.at = "reject"])
  /\ UNCHANGED <<ledgerVars, epochs, chainEpoch, onRecord>>

MarkSubmitted(r) ==
  /\ run[r].at = "record"
  /\ epochs' = IF NextEpoch(r) \in WithStatus({"pending"})
               THEN [epochs EXCEPT ![NextEpoch(r)].status = "submitted",
                                   ![NextEpoch(r)].tx = run[r].tx]
               ELSE epochs
  /\ Account(run[r], NextEpoch(r))
  /\ Goto(r, IdleRun)
  /\ UNCHANGED <<ledgerVars, chainVars, faults>>

MarkFailed(r) ==
  /\ run[r].at = "reject"
  /\ SetStatus(NextEpoch(r), "pending", "failed")
  /\ Goto(r, IdleRun)
  /\ UNCHANGED <<ledgerVars, chainVars, onRecord, faults>>

\* The run crashes, or a call but TxProxy's fails and the run ends.  A dry_run
\* ends so before it posts.
Crash(r) ==
  /\ run[r].at # "idle"
  /\ Fault
  /\ Goto(r, IdleRun)
  /\ UNCHANGED <<ledgerVars, epochs, chainVars, onRecord>>

-----------------------------------------------------------------------------
RunStep(r) ==
  \/ ReadChainEpoch(r)
  \/ LoadSubmitted(r)
  \/ ReconcileByLog(r)
  \/ ReconcileUnexecuted(r)
  \/ NothingToSettle(r)
  \/ PrepareRefused(r)
  \/ Prepare(r)
  \/ Invoke(r)
  \/ MarkSubmitted(r)
  \/ MarkFailed(r)

RunFault(r) == ReconcileLogFails(r) \/ InvokeRejected(r) \/ Crash(r)

SpendStep ==
  \/ \E w \in Wallets : SpendInsert(w)
  \/ \E s \in open : SpendCommit(s) \/ SpendRollback(s)

ChainStep == \E t \in DOMAIN txs : Land(t) \/ LandFaults(t) \/ Vanish(t)

Next == SpendStep \/ ChainStep \/ \E r \in Runs : RunStep(r) \/ RunFault(r)

Spec == Init /\ [][Next]_vars

\* Cron starts runs again and again, a run that does not crash goes on, and a
\* settlement that stays in the mempool is executed.
FairSpec ==
  /\ Spec
  /\ \A r \in Runs : WF_vars(RunStep(r))
  /\ \A t \in TxIndex : WF_vars(t \in DOMAIN txs /\ Land(t))

-----------------------------------------------------------------------------
\* Correctness.

Landed == {t \in DOMAIN txs : txs[t].fate = "HALT"}
Settled == UNION {txs[t].batch : t \in Landed}

\* A run never prepares a spend that a settlement on record has posted or may
\* still post: whatever other runs crash at, read late or write in between.
\* (What a settlement holds that is not on record yet may be prepared again,
\* see NoDoubleSettlement.)
NeverPreparedAgain ==
  [][\A r \in Runs :
       run[r].at = "reconcile" /\ run'[r].at = "post" =>
         \A t \in onRecord :
           txs[t].fate \in {"pool", "HALT"} => run'[r].batch \cap txs[t].batch = {}]_vars

\* The settlements on record in the row that their own run has prepared: runs
\* that overlap prepare an epoch one over the other, and its row may have come
\* back to a window that was on record otherwise in between.
Owned == {t \in onRecord : epochs[txs[t].epoch].by = txs[t].by}

\* Up to the end of a confirmed window every spend is on the chain, but those
\* that committed below a window already cut, and unless a settlement that
\* was not on record, in a row of its own, had consumed an epoch number.
ConfirmedSettled ==
  Landed \subseteq Owned =>
    \A e \in WithStatus({"confirmed"}) :
      Upto(spent, epochs[e].through) \ late \subseteq Settled

\* "each epoch records its exact window": the row of a settlement on record
\* that has landed tells which spends the settlement holds.
ExactWindows ==
  \A e \in WithStatus({"submitted", "confirmed"}) :
    LET row == epochs[e]
        window == {s \in spent : row.from < s.id /\ s.id <= row.through}
    IN  row.tx # None /\ row.tx \in Landed \cap onRecord =>
          /\ window \ late \subseteq txs[row.tx].batch
          /\ txs[row.tx].batch \subseteq window

\* Every spend reaches the chain in the end, however many settlements fault,
\* vanish or are rejected, with the same exceptions.
SpendsSettled ==
  \A s \in Spend : s \in spent ~> (s \in Settled \cup late \/ ~(Landed \subseteq Owned))

\* What the contract is debited is what was spent, each spend once.  It does
\* not hold: a settlement that goes unrecorded is posted again under the next
\* epoch number, whose run looks at 'submitted' rows alone.
NoDoubleSettlement ==
  \A t, u \in Landed : t # u => txs[t].batch \cap txs[u].batch = {}

\* Windows are contiguous and exact: nothing at or below the end of a confirmed
\* window is left behind.  It does not hold: an id is drawn before its event
\* commits.
NoSpendLeftBehind ==
  Landed \subseteq Owned =>
    \A e \in WithStatus({"confirmed"}) : Upto(spent, epochs[e].through) \subseteq Settled
=============================================================================
