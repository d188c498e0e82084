------------------------ MODULE CreditsSettler_proofs ------------------------
(***************************************************************************)
(* That the state of the settler keeps its type, that no spend of a        *)
(* settlement on record is prepared again, that rows tell the window of    *)
(* their settlement and that confirmed windows are settled, for any number *)
(* of wallets, runs, settlements and faults.                               *)
(*                                                                         *)
(* The heart is OnRecordGood: while a settlement is on record and may      *)
(* land, the row of its epoch is submitted or confirmed, is its own and    *)
(* has its window; so the next window starts above it, and a run that      *)
(* resolves the row as failed has the settlement off the record or at a    *)
(* FAULT.                                                                  *)
(*                                                                         *)
(* For the confirmed windows CInv is added: as long as each settlement     *)
(* that landed is on record in a row of its own, or in the hand of the run *)
(* that will record it so (Kept), all is settled below the start of every  *)
(* live window.                                                            *)
(***************************************************************************)
EXTENDS CreditsSettler, FiniteSetTheorems, TLAPS

-----------------------------------------------------------------------------
\* The largest of a bounded set.  If each element had a larger one, adding one
\* would map the numbers below some element into those of them that are not zero.

LEMMA MaxExists ==
  ASSUME NEW n \in Nat, NEW S \in SUBSET (0..n), S # {}
  PROVE  \E x \in S : \A y \in S : y <= x
<1> SUFFICES ASSUME \A x \in S : \E y \in S : ~(y <= x)
             PROVE  FALSE
  OBVIOUS
<1> DEFINE T == {i \in 0..n : \E x \in S : i <= x}
           f == [i \in T |-> i + 1]
<1>1. 0 \in T
  <2>1. PICK x \in S : TRUE
    OBVIOUS
  <2> QED
    BY <2>1
<1>2. \A i \in T : i + 1 \in T \ {0}
  OBVIOUS
<1>3. IsFiniteSet(T)
  <2>1. IsFiniteSet(0..n) /\ T \subseteq 0..n
    BY FS_Interval
  <2> QED
    BY <2>1, FS_Subset
<1>4. f \in Injection(T, T \ {0})
  BY <1>2 DEF Injection, IsInjective
<1>5. IsFiniteSet(T \ {0}) /\ Cardinality(T \ {0}) = Cardinality(T) - 1 /\ Cardinality(T) \in Nat
  BY <1>1, <1>3, FS_RemoveElement, FS_CardinalityType
<1>6. Cardinality(T) <= Cardinality(T \ {0})
  BY <1>4, <1>5, FS_Injection DEF ExistsInjection
<1> QED
  BY <1>5, <1>6

LEMMA MaxIsMax ==
  ASSUME NEW n \in Nat, NEW S \in SUBSET (0..n), S # {}
  PROVE  MaxOf(S) \in S /\ \A y \in S : y <= MaxOf(S)
BY MaxExists DEF MaxOf

LEMMA MinExists ==
  ASSUME NEW n \in Nat, NEW S \in SUBSET (0..n), S # {}
  PROVE  \E x \in S : \A y \in S : x <= y
<1> DEFINE T == {n - x : x \in S}
<1>1. T \in SUBSET (0..n) /\ T # {}
  <2>1. \A x \in S : n - x \in 0..n
    OBVIOUS
  <2>2. \E x \in S : n - x \in T
    OBVIOUS
  <2> QED
    BY <2>1, <2>2
<1>2. PICK z \in T : \A y \in T : y <= z
  BY <1>1, MaxExists
<1>3. n - z \in S
  BY <1>1, <1>2
<1>4. \A y \in S : n - z <= y
  BY <1>1, <1>2
<1> QED
  BY <1>3, <1>4

-----------------------------------------------------------------------------
\* The inductive invariant.

\* The spends of a window that committed in time are a batch's.
Holds(batch, from, through) ==
  /\ \A s \in batch : s \in spent /\ from < s.id /\ s.id <= through
  /\ \A s \in spent \ late : from < s.id /\ s.id <= through => s \in batch

\* An id is given to one spend.
IdsGood ==
  /\ \A s \in open \cup spent : s.id < nextId
  /\ \A s, u \in open \cup spent : s.id = u.id => s = u

\* The contract has taken one settlement for each epoch.
ChainCounts ==
  /\ txs \in Seq(Tx) /\ Len(txs) <= MaxTxs
  /\ chainEpoch = Cardinality(Landed)

\* What a run that has prepared a window, and posted it, has in hand.
PreparedGood ==
  \A r \in Runs : run[r].at \in {"post", "record"} => Holds(run[r].batch, run[r].from, run[r].through)
SentGood ==
  \A r \in Runs :
    run[r].at = "record" =>
      /\ run[r].sent \in DOMAIN txs /\ run[r].tx \in {run[r].sent, None}
      /\ txs[run[r].sent].epoch = NextEpoch(r)
      /\ txs[run[r].sent].batch = run[r].batch

RowGood ==
  \A e \in WithStatus({"submitted", "confirmed"}) :
    epochs[e].tx # None => epochs[e].tx \in DOMAIN txs /\ txs[epochs[e].tx].epoch = e

\* The row of a settlement that is on record and not given up is the
\* settlement's own, and so is its window.
OwnRow(t) ==
  /\ txs[t].epoch \in WithStatus({"submitted", "confirmed"})
  /\ epochs[txs[t].epoch].tx \in {t, None}
  /\ Holds(txs[t].batch, epochs[txs[t].epoch].from, epochs[txs[t].epoch].through)
OnRecordGood == \A t \in onRecord : txs[t].fate \in {"pool", "HALT"} => OwnRow(t)

Types == TypeOK /\ IdsGood /\ ChainCounts
IInv == Types /\ PreparedGood /\ SentGood /\ RowGood /\ OnRecordGood

-----------------------------------------------------------------------------
\* Windows.

LEMMA ThroughTyped ==
  ASSUME TypeOK, NEW S
  PROVE  /\ ThroughOf(S) \in 0..MaxId
         /\ \A e \in WithStatus(S) : epochs[e].through <= ThroughOf(S)
         /\ ThroughOf(S) = 0 \/ \E e \in WithStatus(S) : ThroughOf(S) = epochs[e].through
<1> DEFINE T == {0} \cup {epochs[e].through : e \in WithStatus(S)}
<1>1. MaxId \in Nat
  BY SettlerAssumption DEF SettlerAssumption
<1>2. \A e \in WithStatus(S) : epochs[e].through \in 0..MaxId
  BY <1>1 DEF TypeOK, WithStatus, EpochRow
<1>3. T \in SUBSET (0..MaxId) /\ T # {}
  BY <1>1, <1>2
<1>4. MaxOf(T) \in T /\ \A y \in T : y <= MaxOf(T)
  BY <1>1, <1>3, MaxIsMax
<1> QED
  BY <1>3, <1>4 DEF ThroughOf

\* There is always a spend to begin the window with, since a batch may have one
\* user at least.
LEMMA WindowTyped ==
  ASSUME Types, Unsettled # {}, NEW r \in Runs
  PROVE  /\ PendingRow(r) \in EpochRow
         /\ Batch \subseteq Spend
         /\ Holds(Batch, PendingRow(r).from, PendingRow(r).through)
         /\ \A s \in Batch : s.id > WindowStart
         /\ PendingRow(r).from < PendingRow(r).through
<1> DEFINE Ends == {s.id : s \in {u \in Unsettled : Cardinality(Users(Upto(Unsettled, u.id))) <= MaxUsers}}
           Ids == {s.id : s \in Unsettled}
<1>1. MaxId \in Nat /\ MaxUsers \in Nat /\ MaxUsers > 0
  BY SettlerAssumption DEF SettlerAssumption
<1>2. Unsettled \subseteq spent /\ \A s \in Unsettled : s.id \in 1..MaxId
  BY DEF Unsettled, Types, TypeOK, Spend
<1>3. PICK s \in Unsettled : \A u \in Unsettled : s.id <= u.id
  <2>1. \A u \in Unsettled : u.id \in Ids
    OBVIOUS
  <2>2. Ids \in SUBSET (0..MaxId) /\ Ids # {}
    BY <1>1, <1>2, <2>1
  <2>3. PICK i \in Ids : \A j \in Ids : i <= j
    BY <1>1, <2>2, MinExists
  <2> QED
    BY <2>1, <2>3
<1>4. Upto(Unsettled, s.id) = {s}
  <2>1. \A u \in Unsettled : u.id <= s.id => u = s
    BY <1>2, <1>3 DEF Types, IdsGood
  <2>2. s.id <= s.id
    BY <1>2
  <2> QED
    BY <2>1, <2>2 DEF Upto
<1>5. Cardinality(Users(Upto(Unsettled, s.id))) = 1
  <2>1. Users({s}) = {s.wallet}
    BY DEF Users
  <2> QED
    BY <1>4, <2>1, FS_Singleton
<1>6. s.id \in Ends
  BY <1>1, <1>5
<1>7. Ends \in SUBSET (0..MaxId) /\ Ends # {}
  BY <1>1, <1>2, <1>6
<1>8. WindowEnd \in Ends
  BY <1>1, <1>7, MaxIsMax DEF WindowEnd
<1>9. WindowEnd \in 1..MaxId
  BY <1>2, <1>8
<1>10. WindowStart \in 0..MaxId
  BY ThroughTyped DEF WindowStart, Types
<1>11. PendingRow(r) \in EpochRow
  BY <1>9, <1>10 DEF PendingRow, EpochRow
<1>12. Batch = {u \in spent : WindowStart < u.id /\ u.id <= WindowEnd}
  <2>1. \A u \in spent : u.id \in Int
    BY DEF Types, TypeOK, Spend
  <2> QED
    BY <1>10, <2>1 DEF Batch, Upto, Unsettled
<1>13. Holds(Batch, PendingRow(r).from, PendingRow(r).through)
  BY <1>12 DEF Holds, PendingRow
<1>14. Batch \subseteq Spend /\ \A u \in Batch : u.id > WindowStart
  <2>1. \A u \in Batch : u \in spent /\ u \in Unsettled
    BY DEF Batch, Upto, Unsettled
  <2> QED
    BY <2>1 DEF Unsettled, Types, TypeOK
<1>15. WindowStart < WindowEnd
  BY <1>2, <1>8, <1>10 DEF Unsettled
<1> QED
  BY <1>11, <1>13, <1>14, <1>15 DEF PendingRow

-----------------------------------------------------------------------------
\* Types.

LEMMA IdleTyped == IdleRun \in RunRecord /\ IdleRun.at = "idle"
BY SettlerAssumption DEF SettlerAssumption, IdleRun, RunRecord

LEMMA GotoTyped ==
  ASSUME TypeOK, NEW r \in Runs, NEW next \in RunRecord, Goto(r, next)
  PROVE  run' \in [Runs -> RunRecord]
BY DEF TypeOK, Goto

LEMMA FaultTyped == TypeOK /\ Fault => faults' \in 0..MaxFaults
BY SettlerAssumption DEF SettlerAssumption, TypeOK, Fault

LEMMA StatusTyped ==
  ASSUME TypeOK, NEW e, NEW from, NEW to \in {"pending", "submitted", "confirmed", "failed"},
         SetStatus(e, from, to)
  PROVE  epochs' \in [Epochs -> EpochRow \cup {None}]
<1>1. CASE e \in WithStatus({from})
  <2>1. [epochs[e] EXCEPT !.status = to] \in EpochRow
    BY <1>1 DEF TypeOK, WithStatus, EpochRow
  <2> QED
    BY <1>1, <2>1 DEF SetStatus, TypeOK
<1>2. CASE e \notin WithStatus({from})
  BY <1>2 DEF SetStatus, TypeOK
<1> QED
  BY <1>1, <1>2

\* Each settlement that lands takes an epoch of its own, so that the contract
\* does not get ahead of those that were posted.
LEMMA LandedFinite ==
  ASSUME Types
  PROVE  /\ IsFiniteSet(Landed)
         /\ chainEpoch \in 0..Len(txs)
         /\ \A t \in DOMAIN txs : t \notin Landed => chainEpoch < Len(txs)
<1>1. Len(txs) \in Nat /\ DOMAIN txs = 1..Len(txs)
  BY DEF Types, ChainCounts
<1>2. IsFiniteSet(DOMAIN txs) /\ Cardinality(DOMAIN txs) = Len(txs)
  <2> DEFINE n == Len(txs)
  <2>1. n \in Nat
    BY <1>1
  <2> HIDE DEF n
  <2>2. IsFiniteSet(1..n) /\ Cardinality(1..n) = n
    BY <2>1, FS_Interval
  <2> QED
    BY <1>1, <2>2 DEF n
<1>3. Landed \subseteq DOMAIN txs
  BY DEF Landed
<1>4. IsFiniteSet(Landed) /\ Cardinality(Landed) <= Len(txs) /\ Cardinality(Landed) \in Nat
  BY <1>2, <1>3, FS_Subset, FS_CardinalityType
<1>5. ASSUME NEW t \in DOMAIN txs, t \notin Landed
      PROVE  Cardinality(Landed) # Len(txs)
  BY <1>2, <1>3, <1>5, FS_Subset
<1> QED
  BY <1>1, <1>4, <1>5 DEF Types, ChainCounts

\* What the chain does to a settlement.
LEMMA FateTyped ==
  ASSUME Types, NEW t \in DOMAIN txs, txs[t].fate = "pool",
         NEW fate \in {"HALT", "FAULT", "gone"}, SetFate(t, fate)
  PROVE  /\ txs' \in Seq(Tx) /\ Len(txs') = Len(txs) /\ DOMAIN txs' = DOMAIN txs
         /\ \A u \in DOMAIN txs' : txs'[u] \in Tx
         /\ \A u \in DOMAIN txs :
              /\ txs'[u].epoch = txs[u].epoch /\ txs'[u].batch = txs[u].batch /\ txs'[u].by = txs[u].by
              /\ txs'[u].fate = IF u = t THEN fate ELSE txs[u].fate
         /\ Landed' = IF fate = "HALT" THEN Landed \cup {t} ELSE Landed
<1>1. txs \in Seq(Tx) /\ txs[t] \in Tx
  BY DEF Types, ChainCounts, TypeOK
<1>2. [txs[t] EXCEPT !.fate = fate] \in Tx
  BY <1>1 DEF Tx
<1>3. txs' \in Seq(Tx) /\ Len(txs') = Len(txs) /\ DOMAIN txs' = DOMAIN txs
  BY <1>1, <1>2 DEF SetFate
<1>4. \A u \in DOMAIN txs :
        /\ txs'[u].epoch = txs[u].epoch /\ txs'[u].batch = txs[u].batch /\ txs'[u].by = txs[u].by
        /\ txs'[u].fate = IF u = t THEN fate ELSE txs[u].fate
  <2>1. txs'[t] = [txs[t] EXCEPT !.fate = fate] /\ \A u \in DOMAIN txs \ {t} : txs'[u] = txs[u]
    BY <1>1 DEF SetFate
  <2>2. txs'[t].epoch = txs[t].epoch /\ txs'[t].batch = txs[t].batch /\ txs'[t].by = txs[t].by /\ txs'[t].fate = fate
    BY <1>1, <2>1 DEF Tx
  <2> QED
    BY <2>1, <2>2
<1>5. \A u \in DOMAIN txs' : txs'[u] \in Tx
  BY <1>3
<1>6. Landed' = IF fate = "HALT" THEN Landed \cup {t} ELSE Landed
  BY <1>3, <1>4 DEF Landed
<1> QED
  BY <1>3, <1>4, <1>5, <1>6

LEMMA BroadcastTyped ==
  ASSUME Types, NEW r \in Runs, Broadcast(r)
  PROVE  /\ txs' \in Seq(Tx) /\ Len(txs') = Len(txs) + 1 /\ Len(txs) < MaxTxs
         /\ Len(txs) + 1 \in TxIndex
         /\ DOMAIN txs' = DOMAIN txs \cup {Len(txs) + 1} /\ DOMAIN txs' \subseteq TxIndex
         /\ \A u \in DOMAIN txs' : txs'[u] \in Tx
         /\ \A u \in DOMAIN txs : txs'[u] = txs[u]
         /\ txs'[Len(txs) + 1] = [epoch |-> NextEpoch(r), batch |-> run[r].batch, fate |-> "pool", by |-> r]
         /\ Landed' = Landed
<1> DEFINE new == [epoch |-> NextEpoch(r), batch |-> run[r].batch, fate |-> "pool", by |-> r]
<1>1. txs \in Seq(Tx) /\ Len(txs) < MaxTxs /\ txs' = Append(txs, new) /\ MaxTxs \in Nat
  BY SettlerAssumption DEF Types, ChainCounts, Broadcast, SettlerAssumption
<1>2. new \in Tx
  BY <1>1 DEF Types, TypeOK, RunRecord, NextEpoch, Epochs, Tx
<1>3. new.fate = "pool"
  OBVIOUS
<1> HIDE DEF new
<1>4. /\ txs' \in Seq(Tx) /\ Len(txs') = Len(txs) + 1
      /\ \A u \in 1..Len(txs) : txs'[u] = txs[u]
      /\ txs'[Len(txs) + 1] = new
  BY <1>1, <1>2
<1>5. DOMAIN txs = 1..Len(txs) /\ DOMAIN txs' = 1..(Len(txs) + 1) /\ Len(txs) \in Nat
  BY <1>1, <1>4
<1>6. \A u \in DOMAIN txs' : txs'[u] \in Tx
  BY <1>4
<1>7. Landed' = Landed
  BY <1>3, <1>4, <1>5 DEF Landed
<1>8. DOMAIN txs' = DOMAIN txs \cup {Len(txs) + 1} /\ DOMAIN txs' \subseteq TxIndex /\ Len(txs) + 1 \in TxIndex
  BY <1>1, <1>5 DEF TxIndex
<1> QED
  BY <1>1, <1>4, <1>5, <1>6, <1>7, <1>8 DEF new

LEMMA InitTyped == Init => IInv
<1> SUFFICES ASSUME Init
             PROVE  IInv
  OBVIOUS
<1>1. TypeOK
  BY SettlerAssumption, IdleTyped DEF SettlerAssumption, Init, TypeOK
<1>2. ChainCounts
  <2>1. Landed = {}
    BY DEF Init, Landed
  <2> QED
    BY <2>1, FS_EmptySet, SettlerAssumption DEF SettlerAssumption, Init, ChainCounts
<1>3. IdsGood /\ OnRecordGood
  BY DEF Init, IdsGood, OnRecordGood
<1>4. RowGood
  BY DEF Init, RowGood, WithStatus
<1>5. PreparedGood /\ SentGood
  BY IdleTyped DEF Init, PreparedGood, SentGood
<1> QED
  BY <1>1, <1>2, <1>3, <1>4, <1>5 DEF IInv, Types

\* The spends of the ledger.
LEMMA SpendsTyped ==
  ASSUME Types, SpendStep
  PROVE  Types'
<1>1. MaxId \in Nat
  BY SettlerAssumption DEF SettlerAssumption
<1>2. UNCHANGED <<epochs, chainEpoch, txs, onRecord, run, faults>>
  BY DEF SpendStep, SpendInsert, SpendCommit, SpendRollback, chainVars
<1>3. ChainCounts'
  BY <1>2 DEF Types, ChainCounts, Landed
<1>4. ASSUME NEW w \in Wallets, SpendInsert(w)
      PROVE  TypeOK' /\ IdsGood'
  <2> DEFINE new == [id |-> nextId, wallet |-> w]
  <2>1. nextId \in 1..MaxId /\ nextId' = nextId + 1 /\ nextId' \in 1..(MaxId + 1)
    BY <1>1, <1>4 DEF SpendInsert, Types, TypeOK
  <2>2. new \in Spend /\ new.id = nextId
    BY <2>1 DEF Spend
  <2>3. open' = open \cup {new} /\ spent' = spent /\ late' = late
    BY <1>4 DEF SpendInsert
  <2> HIDE DEF new
  <2>4. TypeOK'
    BY <1>2, <2>1, <2>2, <2>3 DEF Types, TypeOK
  <2>5. \A s \in open \cup spent : s.id \in 1..MaxId
    BY DEF Types, TypeOK, Spend
  <2>6. IdsGood'
    BY <2>1, <2>2, <2>3, <2>5 DEF Types, IdsGood
  <2> QED
    BY <2>4, <2>6
<1>5. ASSUME NEW s \in open, SpendCommit(s) \/ SpendRollback(s)
      PROVE  TypeOK' /\ IdsGood'
  <2>1. open' \cup spent' \subseteq open \cup spent /\ nextId' = nextId
    BY <1>5 DEF SpendCommit, SpendRollback
  <2>2. IdsGood'
    BY <2>1 DEF Types, IdsGood
  <2>3. late' \subseteq spent' /\ spent' \subseteq spent \cup {s} /\ open' \subseteq open
    BY <1>5 DEF SpendCommit, SpendRollback, Types, TypeOK
  <2>4. TypeOK'
    BY <1>2, <2>1, <2>3 DEF Types, TypeOK
  <2> QED
    BY <2>2, <2>4
<1> QED
  BY <1>3, <1>4, <1>5 DEF SpendStep, Types

LEMMA ChainTyped ==
  ASSUME Types, ChainStep
  PROVE  Types'
<1> PICK t \in DOMAIN txs : Land(t) \/ LandFaults(t) \/ Vanish(t)
  BY DEF ChainStep
<1>1. txs[t].fate = "pool" /\ UNCHANGED <<nextId, open, spent, late, epochs, onRecord, run>>
  BY DEF Land, LandFaults, Vanish, ledgerVars
<1>2. IdsGood'
  BY <1>1 DEF Types, IdsGood
<1>3. t \notin Landed
  BY <1>1 DEF Landed
<1>4. PICK fate \in {"HALT", "FAULT", "gone"} :
        /\ SetFate(t, fate)
        /\ chainEpoch' = IF fate = "HALT" THEN chainEpoch + 1 ELSE chainEpoch
  BY DEF Land, LandFaults, Vanish
<1>5. txs' \in Seq(Tx) /\ Len(txs') = Len(txs) /\ DOMAIN txs' = DOMAIN txs
  BY <1>1, <1>4, FateTyped
<1>6. \A u \in DOMAIN txs' : txs'[u] \in Tx
  BY <1>1, <1>4, FateTyped
<1>7. Landed' = IF fate = "HALT" THEN Landed \cup {t} ELSE Landed
  BY <1>1, <1>4, FateTyped
<1>8. chainEpoch' = Cardinality(Landed')
  BY <1>3, <1>4, <1>7, LandedFinite, FS_AddElement DEF Types, ChainCounts
<1>9. ChainCounts'
  BY <1>5, <1>8 DEF Types, ChainCounts
<1>10. chainEpoch' \in 0..MaxTxs
  <2>1. Len(txs) \in Nat /\ Len(txs) <= MaxTxs /\ MaxTxs \in Nat
    BY SettlerAssumption DEF Types, ChainCounts, SettlerAssumption
  <2>2. chainEpoch \in 0..Len(txs) /\ chainEpoch < Len(txs)
    BY <1>3, LandedFinite
  <2> QED
    BY <1>4, <2>1, <2>2
<1>11. faults' \in 0..MaxFaults
  BY FaultTyped DEF Land, LandFaults, Vanish, Types, TypeOK
<1>12. TypeOK'
  BY <1>1, <1>5, <1>6, <1>10, <1>11 DEF Types, TypeOK
<1> QED
  BY <1>2, <1>9, <1>12 DEF Types

\* The steps of a run: those that write rows and chain at most.
RowsOnly == UNCHANGED <<nextId, open, spent, late, chainEpoch, txs>>

LEMMA RowsOnlyTyped ==
  ASSUME Types, RowsOnly, NEW r \in Runs, NEW next \in RunRecord, Goto(r, next),
         epochs' \in [Epochs -> EpochRow \cup {None}],
         onRecord' \subseteq DOMAIN txs,
         faults' \in 0..MaxFaults
  PROVE  Types'
<1>1. run' \in [Runs -> RunRecord]
  BY GotoTyped DEF Types
<1>2. TypeOK'
  BY <1>1 DEF RowsOnly, Types, TypeOK
<1>3. IdsGood' /\ ChainCounts'
  BY DEF RowsOnly, Types, IdsGood, ChainCounts, Landed
<1> QED
  BY <1>2, <1>3 DEF Types

LEMMA MaxTxsNat == MaxTxs \in Nat /\ MaxId \in Nat /\ None \notin Nat
BY SettlerAssumption DEF SettlerAssumption

LEMMA NextTyped == ASSUME TypeOK, NEW r \in Runs PROVE NextEpoch(r) \in Epochs /\ run[r] \in RunRecord
BY MaxTxsNat DEF TypeOK, RunRecord, NextEpoch, Epochs

\* A step that ends the run or lets go of one row it has looked at.
LEMMA TodoTyped ==
  ASSUME Types, NEW r \in Runs, NEW d, NEW todo \in {run[r].todo \ {d}}
  PROVE  [run[r] EXCEPT !.todo = todo] \in RunRecord
BY NextTyped DEF Types, RunRecord

LEMMA ResolveTyped ==
  ASSUME Types, RowsOnly, NEW r \in Runs, NEW d, NEW status \in {"confirmed", "failed"},
         Resolve(r, d, status), onRecord' \subseteq onRecord, faults' \in 0..MaxFaults
  PROVE  Types'
<1>1. epochs' \in [Epochs -> EpochRow \cup {None}]
  BY StatusTyped DEF Resolve, Types
<1>2. [run[r] EXCEPT !.todo = run[r].todo \ {d}] \in RunRecord
  BY TodoTyped
<1>3. Goto(r, [run[r] EXCEPT !.todo = run[r].todo \ {d}])
  BY DEF Resolve
<1>4. onRecord' \subseteq DOMAIN txs
  BY DEF Types, TypeOK
<1> QED
  BY <1>1, <1>2, <1>3, <1>4, RowsOnlyTyped

LEMMA EndsTyped ==
  ASSUME Types, RowsOnly, NEW r \in Runs, Goto(r, IdleRun),
         epochs' \in [Epochs -> EpochRow \cup {None}], onRecord' \subseteq DOMAIN txs,
         faults' \in 0..MaxFaults
  PROVE  Types'
BY IdleTyped, RowsOnlyTyped

\* Looking at a settlement changes a row's status, or ends the run.
Looks(r) == ReconcileByLog(r) \/ ReconcileUnexecuted(r) \/ ReconcileLogFails(r)
\* A settlement is given up, and its row failed, only if it cannot land any more
\* or is taken off the record.
Outcome(r, d) ==
  \/ Goto(r, IdleRun) /\ UNCHANGED <<epochs, onRecord>>
  \/ Resolve(r, d, "confirmed") /\ UNCHANGED onRecord
  \/ Resolve(r, d, "failed") /\ GiveUp(d)
  \/ /\ Resolve(r, d, "failed") /\ UNCHANGED onRecord
     /\ Fate(d) = "FAULT" /\ epochs[d[1]].tx = d[2]

LEMMA LooksAt ==
  ASSUME NEW r \in Runs, Looks(r)
  PROVE  /\ RowsOnly /\ run[r].at = "reconcile"
         /\ Fault \/ UNCHANGED faults
         /\ Outcome(r, First(r))
BY DEF Looks, ReconcileByLog, ReconcileUnexecuted, ReconcileLogFails, ReconcileByProgress, ReconcileByTimeout,
       ReconcileWaits, RowsOnly, Reconciling, Outcome, ledgerVars, chainVars

LEMMA LooksTyped ==
  ASSUME Types, NEW r \in Runs, Looks(r)
  PROVE  Types'
<1>1. RowsOnly /\ (Fault \/ UNCHANGED faults) /\ Outcome(r, First(r))
  BY LooksAt
<1>2. faults' \in 0..MaxFaults
  BY <1>1, FaultTyped DEF Types, TypeOK
<1>3. CASE Goto(r, IdleRun) /\ UNCHANGED <<epochs, onRecord>>
  <2>1. epochs' \in [Epochs -> EpochRow \cup {None}] /\ onRecord' \subseteq DOMAIN txs
    BY <1>3 DEF Types, TypeOK
  <2> QED
    BY <1>1, <1>2, <1>3, <2>1, EndsTyped
<1>4. CASE Resolve(r, First(r), "confirmed") \/ Resolve(r, First(r), "failed")
  <2>1. onRecord' \subseteq onRecord
    <3>1. CASE UNCHANGED onRecord
      BY <3>1
    <3>2. CASE GiveUp(First(r))
      BY <3>2 DEF GiveUp
    <3>3. CASE Goto(r, IdleRun) /\ UNCHANGED <<epochs, onRecord>>
      BY <3>3
    <3> QED
      BY <1>1, <3>1, <3>2, <3>3 DEF Outcome
  <2> QED
    BY <1>1, <1>2, <1>4, <2>1, ResolveTyped
<1> QED
  BY <1>1, <1>3, <1>4 DEF Outcome

LEMMA RunsTyped ==
  ASSUME Types, SentGood, NEW r \in Runs, RunStep(r) \/ RunFault(r)
  PROVE  Types'
<1> USE MaxTxsNat
<1>a. /\ epochs \in [Epochs -> EpochRow \cup {None}] /\ onRecord \subseteq DOMAIN txs
      /\ faults \in 0..MaxFaults /\ chainEpoch \in 0..MaxTxs
  BY DEF Types, TypeOK
<1>b. run[r] \in RunRecord /\ NextEpoch(r) \in Epochs
  BY NextTyped DEF Types
<1>c. Fault => faults' \in 0..MaxFaults
  BY FaultTyped DEF Types
<1>1. CASE ReadChainEpoch(r)
  <2>1. [IdleRun EXCEPT !.at = "load", !.chain = chainEpoch] \in RunRecord
    BY <1>a, IdleTyped DEF RunRecord
  <2>2. RowsOnly
    BY <1>1 DEF ReadChainEpoch, RowsOnly, ledgerVars, chainVars
  <2> QED
    BY <1>1, <1>a, <2>1, <2>2, RowsOnlyTyped DEF ReadChainEpoch
<1>2. CASE LoadSubmitted(r)
  <2> DEFINE loaded == {<<e, epochs[e].tx>> : e \in WithStatus({"submitted"})}
  <2>1. \A e \in WithStatus({"submitted"}) : <<e, epochs[e].tx>> \in Todo
    BY <1>a DEF WithStatus, Todo, EpochRow
  <2>2. loaded \in SUBSET Todo
    BY <2>1
  <2>3. Goto(r, [run[r] EXCEPT !.at = "reconcile", !.todo = loaded])
    BY <1>2 DEF LoadSubmitted
  <2> HIDE DEF loaded
  <2>4. [run[r] EXCEPT !.at = "reconcile", !.todo = loaded] \in RunRecord
    BY <1>b, <2>2 DEF RunRecord
  <2>5. RowsOnly /\ UNCHANGED <<epochs, onRecord, faults>>
    BY <1>2 DEF LoadSubmitted, RowsOnly, ledgerVars, chainVars
  <2> QED
    BY <1>a, <2>3, <2>4, <2>5, RowsOnlyTyped
<1>3. CASE Looks(r)
  BY <1>3, LooksTyped
<1>4. CASE NothingToSettle(r) \/ PrepareRefused(r) \/ Crash(r)
  <2>1. RowsOnly /\ Goto(r, IdleRun) /\ UNCHANGED <<epochs, onRecord>> /\ (Fault \/ UNCHANGED faults)
    BY <1>4 DEF NothingToSettle, PrepareRefused, Crash, RowsOnly, ledgerVars, chainVars
  <2> QED
    BY <1>a, <1>c, <2>1, EndsTyped
<1>5. CASE Prepare(r)
  <2>1. PendingRow(r) \in EpochRow /\ Batch \subseteq Spend
    BY <1>5, WindowTyped DEF Prepare
  <2>2. epochs' \in [Epochs -> EpochRow \cup {None}]
    BY <1>5, <1>a, <1>b, <2>1 DEF Prepare
  <2> DEFINE next == [run[r] EXCEPT !.at = "post", !.batch = Batch,
                                    !.from = PendingRow(r).from, !.through = PendingRow(r).through]
  <2>3. PendingRow(r).from \in 0..MaxId /\ PendingRow(r).through \in 0..MaxId
    BY <2>1 DEF EpochRow
  <2>4. next \in RunRecord
    BY <1>b, <2>1, <2>3 DEF RunRecord
  <2>5. RowsOnly /\ Goto(r, next) /\ UNCHANGED <<onRecord, faults>>
    BY <1>5 DEF Prepare, RowsOnly, ledgerVars, chainVars
  <2> HIDE DEF next
  <2> QED
    BY <1>a, <2>2, <2>4, <2>5, RowsOnlyTyped
<1>6. CASE Invoke(r) \/ InvokeRejected(r)
  <2>1. CASE RowsOnly
    <3>1. InvokeRejected(r)
      <4>1. Len(txs) \in Nat
        BY DEF Types, ChainCounts
      <4>2. Broadcast(r) => Len(txs') = Len(txs) + 1
        BY BroadcastTyped
      <4>3. Len(txs') = Len(txs)
        BY <2>1 DEF RowsOnly
      <4> QED
        BY <1>6, <4>1, <4>2, <4>3 DEF Invoke
    <3>2. [run[r] EXCEPT !.at = "reject"] \in RunRecord
      BY <1>b DEF RunRecord
    <3>3. Goto(r, [run[r] EXCEPT !.at = "reject"]) /\ UNCHANGED <<epochs, onRecord>> /\ Fault
      BY <3>1 DEF InvokeRejected
    <3> QED
      BY <1>a, <1>c, <2>1, <3>2, <3>3, RowsOnlyTyped
  <2>2. CASE ~RowsOnly
    <3>1. Broadcast(r) /\ UNCHANGED <<nextId, open, spent, late, epochs, chainEpoch, onRecord>>
      BY <1>6, <2>2 DEF Invoke, InvokeRejected, RowsOnly, ledgerVars
    <3>2. /\ txs' \in Seq(Tx) /\ Len(txs') = Len(txs) + 1 /\ Len(txs) < MaxTxs
          /\ Len(txs) + 1 \in TxIndex /\ Landed' = Landed
          /\ DOMAIN txs' = DOMAIN txs \cup {Len(txs) + 1} /\ DOMAIN txs' \subseteq TxIndex
      BY <3>1, BroadcastTyped
    <3>3. \A u \in DOMAIN txs' : txs'[u] \in Tx
      BY <3>1, BroadcastTyped
    <3>4. IdsGood' /\ ChainCounts'
      <4>1. Len(txs) \in Nat
        BY DEF Types, ChainCounts
      <4> QED
        BY <3>1, <3>2, <4>1 DEF Types, IdsGood, ChainCounts
    <3>5. faults' \in 0..MaxFaults
      BY <1>6, <1>a, <1>c DEF Invoke, InvokeRejected
    <3>6. run' \in [Runs -> RunRecord]
      <4>1. CASE Invoke(r)
        <5>1. PICK hash \in {Len(txs) + 1, None} :
                Goto(r, [run[r] EXCEPT !.at = "record", !.sent = Len(txs) + 1, !.tx = hash])
          BY <4>1 DEF Invoke
        <5>2. [run[r] EXCEPT !.at = "record", !.sent = Len(txs) + 1, !.tx = hash] \in RunRecord
          BY <1>b, <3>2 DEF RunRecord
        <5> QED
          BY <5>1, <5>2, GotoTyped DEF Types
      <4>2. CASE InvokeRejected(r)
        <5>1. [run[r] EXCEPT !.at = "reject"] \in RunRecord
          BY <1>b DEF RunRecord
        <5> QED
          BY <4>2, <5>1, GotoTyped DEF Types, InvokeRejected
      <4> QED
        BY <1>6, <4>1, <4>2
    <3>7. TypeOK'
      BY <3>1, <3>2, <3>3, <3>5, <3>6 DEF Types, TypeOK
    <3> QED
      BY <3>4, <3>7 DEF Types
  <2> QED
    BY <2>1, <2>2
<1>7. CASE MarkSubmitted(r)
  <2>1. run[r].sent \in DOMAIN txs /\ run[r].tx \in TxIndex \cup {None}
    BY <1>7, <1>b DEF MarkSubmitted, SentGood, RunRecord
  <2>2. onRecord' \subseteq DOMAIN txs
    BY <1>7, <1>a, <2>1 DEF MarkSubmitted, Account
  <2>3. epochs' \in [Epochs -> EpochRow \cup {None}]
    <3>1. CASE NextEpoch(r) \in WithStatus({"pending"})
      <4>1. [epochs[NextEpoch(r)] EXCEPT !.status = "submitted", !.tx = run[r].tx] \in EpochRow
        BY <1>a, <2>1, <3>1 DEF WithStatus, EpochRow
      <4>2. epochs' = [epochs EXCEPT ![NextEpoch(r)] =
                         [epochs[NextEpoch(r)] EXCEPT !.status = "submitted", !.tx = run[r].tx]]
        BY <1>7, <1>a, <3>1 DEF MarkSubmitted
      <4> QED
        BY <1>a, <4>1, <4>2
    <3>2. CASE NextEpoch(r) \notin WithStatus({"pending"})
      BY <1>7, <1>a, <3>2 DEF MarkSubmitted
    <3> QED
      BY <3>1, <3>2
  <2>4. RowsOnly /\ Goto(r, IdleRun) /\ UNCHANGED faults
    BY <1>7 DEF MarkSubmitted, RowsOnly, ledgerVars, chainVars
  <2> QED
    BY <1>a, <2>2, <2>3, <2>4, EndsTyped
<1>8. CASE MarkFailed(r)
  <2>1. epochs' \in [Epochs -> EpochRow \cup {None}]
    BY <1>8, StatusTyped DEF MarkFailed, Types
  <2>2. RowsOnly /\ Goto(r, IdleRun) /\ UNCHANGED <<onRecord, faults>>
    BY <1>8 DEF MarkFailed, RowsOnly, ledgerVars, chainVars
  <2> QED
    BY <1>a, <2>1, <2>2, EndsTyped
<1> QED
  BY <1>1, <1>2, <1>3, <1>4, <1>5, <1>6, <1>7, <1>8 DEF RunStep, RunFault, Looks

-----------------------------------------------------------------------------
\* Windows, rows and settlements.

Guarded == PreparedGood /\ SentGood /\ RowGood /\ OnRecordGood

\* A spend that commits into a window already cut is late, and no batch's.
HoldsNext(batch, from, through) ==
  /\ \A s \in batch : s \in spent' /\ from < s.id /\ s.id <= through
  /\ \A s \in spent' \ late' : from < s.id /\ s.id <= through => s \in batch

LEMMA SpendsKeep ==
  ASSUME Types, SpendStep, NEW batch, NEW from, NEW through,
         Holds(batch, from, through), \A i \in 1..MaxId : i <= through => Cut(i)
  PROVE  HoldsNext(batch, from, through)
<1>1. CASE \E w \in Wallets : SpendInsert(w)
  BY <1>1 DEF SpendInsert, Holds, HoldsNext
<1>2. ASSUME NEW s \in open, SpendRollback(s)
      PROVE  HoldsNext(batch, from, through)
  BY <1>2 DEF SpendRollback, Holds, HoldsNext
<1>3. ASSUME NEW s \in open, SpendCommit(s)
      PROVE  HoldsNext(batch, from, through)
  <2>1. s.id \in 1..MaxId
    BY DEF Types, TypeOK, Spend
  <2>2. spent' = spent \cup {s} /\ (s.id <= through => s \in late') /\ late \subseteq late'
    BY <1>3, <2>1 DEF SpendCommit
  <2> QED
    BY <2>2 DEF Holds, HoldsNext
<1> QED
  BY <1>1, <1>2, <1>3 DEF SpendStep

LEMMA SpendsGuarded ==
  ASSUME IInv, SpendStep
  PROVE  Guarded'
<1>1. UNCHANGED <<epochs, chainEpoch, txs, onRecord, run, faults>>
  BY DEF SpendStep, SpendInsert, SpendCommit, SpendRollback, chainVars
<1>2. SentGood' /\ RowGood'
  BY <1>1 DEF IInv, SentGood, RowGood, WithStatus, NextEpoch
<1>3. PreparedGood'
  <2>1. ASSUME NEW r \in Runs, run[r].at \in {"post", "record"}
        PROVE  Holds(run[r].batch, run[r].from, run[r].through)'
    <3>1. Holds(run[r].batch, run[r].from, run[r].through)
      BY <2>1 DEF IInv, PreparedGood
    <3>2. \A i \in 1..MaxId : i <= run[r].through => Cut(i)
      BY DEF Cut
    <3>3. HoldsNext(run[r].batch, run[r].from, run[r].through)
      BY <3>1, <3>2, SpendsKeep DEF IInv
    <3> QED
      BY <3>3, <1>1 DEF Holds, HoldsNext
  <2> QED
    BY <1>1, <2>1 DEF PreparedGood
<1>4. OnRecordGood'
  <2>1. ASSUME NEW t \in onRecord, txs[t].fate \in {"pool", "HALT"}
        PROVE  OwnRow(t)'
    <3> DEFINE row == epochs[txs[t].epoch]
    <3>1. OwnRow(t)
      BY <2>1 DEF IInv, OnRecordGood
    <3>2. Holds(txs[t].batch, row.from, row.through)
      BY <3>1 DEF OwnRow
    <3>3. \A i \in 1..MaxId : i <= row.through => Cut(i)
      BY <3>1 DEF Cut, OwnRow, WithStatus
    <3>4. HoldsNext(txs[t].batch, row.from, row.through)
      BY <3>2, <3>3, SpendsKeep DEF IInv
    <3> QED
      BY <1>1, <3>1, <3>4 DEF OwnRow, WithStatus, Holds, HoldsNext
  <2> QED
    BY <1>1, <2>1 DEF OnRecordGood
<1> QED
  BY <1>2, <1>3, <1>4 DEF Guarded

\* What the chain does to a settlement: it can only cease to be viable.
LEMMA ChainGuarded ==
  ASSUME IInv, ChainStep
  PROVE  Guarded'
<1> PICK t \in DOMAIN txs : Land(t) \/ LandFaults(t) \/ Vanish(t)
  BY DEF ChainStep
<1>1. txs[t].fate = "pool" /\ UNCHANGED <<nextId, open, spent, late, epochs, onRecord, run>>
  BY DEF Land, LandFaults, Vanish, ledgerVars
<1>2. PICK fate \in {"HALT", "FAULT", "gone"} : SetFate(t, fate)
  BY DEF Land, LandFaults, Vanish
<1>3. DOMAIN txs' = DOMAIN txs
  BY <1>1, <1>2, FateTyped DEF IInv
<1>4. \A u \in DOMAIN txs :
        /\ txs'[u].epoch = txs[u].epoch /\ txs'[u].batch = txs[u].batch
        /\ txs'[u].fate \in {"pool", "HALT"} => txs[u].fate \in {"pool", "HALT"}
  BY <1>1, <1>2, FateTyped DEF IInv
<1>5. PreparedGood'
  BY <1>1 DEF IInv, PreparedGood, Holds
<1>6. SentGood'
  BY <1>1, <1>3, <1>4 DEF IInv, SentGood, NextEpoch
<1>7. RowGood'
  BY <1>1, <1>3, <1>4 DEF IInv, RowGood, WithStatus
<1>8. OnRecordGood'
  <2>1. ASSUME NEW u \in onRecord, txs'[u].fate \in {"pool", "HALT"}
        PROVE  OwnRow(u)'
    <3>1. u \in DOMAIN txs
      BY DEF IInv, Types, TypeOK
    <3>2. OwnRow(u)
      BY <1>4, <2>1, <3>1 DEF IInv, OnRecordGood
    <3> QED
      BY <1>1, <1>4, <3>1, <3>2 DEF OwnRow, Holds, WithStatus
  <2> QED
    BY <1>1, <2>1 DEF OnRecordGood
<1> QED
  BY <1>5, <1>6, <1>7, <1>8 DEF Guarded

\* A run that neither prepares nor posts leaves what runs have in hand.
LEMMA RunLetsGo ==
  ASSUME IInv, RowsOnly, NEW r \in Runs, NEW next, Goto(r, next), next.at \notin {"post", "record"}
  PROVE  PreparedGood' /\ SentGood'
<1>1. run' = [run EXCEPT ![r] = next] /\ run \in [Runs -> RunRecord]
  BY DEF Goto, IInv, Types, TypeOK
<1>2. PreparedGood'
  BY <1>1 DEF IInv, RowsOnly, PreparedGood, Holds
<1>3. SentGood'
  BY <1>1 DEF IInv, RowsOnly, SentGood, NextEpoch
<1> QED
  BY <1>2, <1>3

\* Rows that are left alone.
LEMMA RowsLeft ==
  ASSUME IInv, RowsOnly, UNCHANGED epochs, onRecord' \subseteq onRecord
  PROVE  RowGood' /\ OnRecordGood'
<1>1. RowGood'
  BY DEF IInv, RowsOnly, RowGood, WithStatus
<1>2. OnRecordGood'
  BY DEF IInv, RowsOnly, OnRecordGood, OwnRow, WithStatus, Holds
<1> QED
  BY <1>1, <1>2

\* A status that is set leaves the rest of the row, and the other rows.
LEMMA StatusSet ==
  ASSUME TypeOK, NEW e, NEW from, NEW to \in {"pending", "submitted", "confirmed", "failed"},
         SetStatus(e, from, to)
  PROVE  /\ \A k \in Epochs : k # e => epochs'[k] = epochs[k]
         /\ \A k \in Epochs :
              epochs[k] # None => /\ epochs'[k] # None /\ epochs'[k].from = epochs[k].from
                                  /\ epochs'[k].through = epochs[k].through /\ epochs'[k].tx = epochs[k].tx
                                  /\ epochs'[k].by = epochs[k].by
         /\ \A k \in Epochs : epochs'[k] # None => epochs[k] # None
         /\ e \in WithStatus({from}) => epochs'[e].status = to
         /\ e \notin WithStatus({from}) => epochs' = epochs
<1>1. CASE e \in WithStatus({from})
  <2> DEFINE row == [epochs[e] EXCEPT !.status = to]
  <2>1. e \in Epochs /\ epochs[e] # None /\ epochs[e] \in EpochRow
    BY <1>1 DEF WithStatus, TypeOK
  <2>2. /\ row \in EpochRow /\ row.status = to /\ row.from = epochs[e].from
        /\ row.through = epochs[e].through /\ row.tx = epochs[e].tx /\ row.by = epochs[e].by
    BY <2>1 DEF EpochRow
  <2>3. row # None
    BY <2>2, NoRowAssumption DEF NoRowAssumption
  <2>4. epochs' = [epochs EXCEPT ![e] = row]
    BY <1>1 DEF SetStatus
  <2> HIDE DEF row
  <2>5. epochs'[e] = row /\ \A k \in Epochs \ {e} : epochs'[k] = epochs[k]
    BY <2>1, <2>4 DEF TypeOK
  <2> QED
    BY <1>1, <2>1, <2>2, <2>3, <2>5
<1>2. CASE e \notin WithStatus({from})
  BY <1>2 DEF SetStatus
<1> QED
  BY <1>1, <1>2

\* A row that is resolved as failed has no settlement that is on record and viable.
LEMMA LooksGuarded ==
  ASSUME IInv, NEW r \in Runs, Looks(r)
  PROVE  Guarded'
<1> DEFINE d == First(r)
<1>1. RowsOnly /\ run[r].at = "reconcile" /\ Outcome(r, d)
  BY LooksAt
<1>2. CASE Goto(r, IdleRun) /\ UNCHANGED <<epochs, onRecord>>
  BY <1>1, <1>2, IdleTyped, RunLetsGo, RowsLeft DEF Guarded
<1>3. ASSUME NEW status \in {"confirmed", "failed"}, Resolve(r, d, status), onRecord' \subseteq onRecord,
             status = "failed" =>
               \A t \in onRecord' : txs[t].fate \in {"pool", "HALT"} /\ OwnRow(t)
                                      => txs[t].epoch # d[1] \/ d[1] \notin WithStatus({"submitted"})
      PROVE  Guarded'
  <2>1. PreparedGood' /\ SentGood'
    <3>1. [run[r] EXCEPT !.todo = run[r].todo \ {d}].at = "reconcile"
      BY <1>1, NextTyped DEF IInv, Types, RunRecord
    <3> QED
      BY <1>1, <1>3, <3>1, RunLetsGo DEF Resolve
  <2>2. SetStatus(d[1], "submitted", status) /\ TypeOK
    BY <1>3 DEF Resolve, IInv, Types
  <2> DEFINE g == d[1]
  <2>10. SetStatus(g, "submitted", status)
    BY <2>2
  <2> HIDE DEF d, g
  <2>11. status \in {"pending", "submitted", "confirmed", "failed"} /\ TypeOK
    BY <2>2
  <2>12. \A k \in Epochs : k # g => epochs'[k] = epochs[k]
    BY <2>10, <2>11, StatusSet, ZenonT(60)
  <2>3. \A k \in Epochs :
          epochs[k] # None => /\ epochs'[k] # None /\ epochs'[k].from = epochs[k].from
                              /\ epochs'[k].through = epochs[k].through /\ epochs'[k].tx = epochs[k].tx
    BY <2>2, StatusSet
  <2>4. \A k \in Epochs : k \in WithStatus({"submitted", "confirmed"})' => k \in WithStatus({"submitted", "confirmed"})
    <3>1. d[1] \in WithStatus({"submitted"}) => d[1] \in WithStatus({"submitted", "confirmed"})
      BY DEF WithStatus
    <3>2. \A k \in Epochs : k # d[1] => epochs'[k] = epochs[k]
      BY <2>12 DEF g
    <3>3. d[1] \notin WithStatus({"submitted"}) => epochs' = epochs
      BY <2>2, StatusSet
    <3>4. CASE d[1] \in WithStatus({"submitted"})
      <4>1. ASSUME NEW k \in Epochs, k \in WithStatus({"submitted", "confirmed"})'
            PROVE  k \in WithStatus({"submitted", "confirmed"})
        <5>1. CASE k = d[1]
          BY <3>1, <3>4, <5>1
        <5>2. CASE k # d[1]
          BY <3>2, <4>1, <5>2 DEF WithStatus
        <5> QED
          BY <5>1, <5>2
      <4> QED
        BY <4>1
    <3>5. CASE d[1] \notin WithStatus({"submitted"})
      BY <3>3, <3>5 DEF WithStatus
    <3> QED
      BY <3>4, <3>5
  <2>5. RowGood'
    BY <1>1, <2>3, <2>4 DEF IInv, RowsOnly, RowGood, WithStatus
  <2>6. ASSUME NEW t \in onRecord', txs[t].fate \in {"pool", "HALT"}
        PROVE  OwnRow(t)'
    <3> DEFINE e == txs[t].epoch
    <3>1. OwnRow(t)
      BY <1>3, <2>6 DEF IInv, OnRecordGood
    <3>2. e \in Epochs /\ epochs[e] # None /\ epochs[e].status \in {"submitted", "confirmed"}
      BY <3>1 DEF OwnRow, WithStatus
    <3>3. epochs'[e].status \in {"submitted", "confirmed"}
      <4>1. CASE e = d[1] /\ d[1] \in WithStatus({"submitted"})
        <5>1. status = "confirmed"
          BY <1>3, <2>6, <3>1, <4>1
        <5> QED
          BY <2>2, <4>1, <5>1, StatusSet
      <4>2. CASE e # d[1]
        BY <2>12, <3>2, <4>2 DEF g
      <4>3. CASE d[1] \notin WithStatus({"submitted"})
        BY <2>2, <3>2, <4>3, StatusSet
      <4> QED
        BY <4>1, <4>2, <4>3
    <3>4. /\ epochs'[e] # None /\ epochs'[e].from = epochs[e].from
          /\ epochs'[e].through = epochs[e].through /\ epochs'[e].tx = epochs[e].tx
      BY <2>3, <3>2
    <3> QED
      BY <1>1, <3>1, <3>2, <3>3, <3>4 DEF OwnRow, WithStatus, Holds, RowsOnly
  <2>7. OnRecordGood'
    BY <1>1, <2>6 DEF OnRecordGood, RowsOnly
  <2> QED
    BY <2>1, <2>5, <2>7 DEF Guarded
<1>4. CASE Resolve(r, d, "confirmed") /\ UNCHANGED onRecord
  BY <1>3, <1>4
<1>5. CASE Resolve(r, d, "failed") /\ GiveUp(d)
  <2>1. \A t \in onRecord' : t \in onRecord /\ ~(txs[t].fate \in {"pool", "HALT"} /\ txs[t].epoch = d[1])
    BY <1>5 DEF GiveUp, Viable, IInv, Types, TypeOK
  <2> QED
    BY <1>3, <1>5, <2>1
<1>6. CASE /\ Resolve(r, d, "failed") /\ UNCHANGED onRecord
           /\ Fate(d) = "FAULT" /\ epochs[d[1]].tx = d[2]
  <2>1. d[2] # None /\ txs[d[2]].fate = "FAULT"
    BY <1>6 DEF Fate
  <2>2. \A t \in onRecord : txs[t].fate \in {"pool", "HALT"} /\ OwnRow(t) => txs[t].epoch # d[1]
    BY <1>6, <2>1 DEF OwnRow
  <2> QED
    BY <1>3, <1>6, <2>2
<1> QED
  BY <1>1, <1>2, <1>4, <1>5, <1>6 DEF Outcome

\* A window is prepared over a row that no settlement on record relies on.
LEMMA PrepareGuarded ==
  ASSUME IInv, NEW r \in Runs, Prepare(r)
  PROVE  Guarded'
<1> DEFINE e == NextEpoch(r)
           next == [run[r] EXCEPT !.at = "post", !.batch = Batch,
                                  !.from = PendingRow(r).from, !.through = PendingRow(r).through]
<1>1. RowsOnly /\ UNCHANGED onRecord /\ Goto(r, next)
  BY DEF Prepare, RowsOnly, ledgerVars, chainVars
<1>2. e \in Epochs /\ run[r] \in RunRecord
  BY NextTyped DEF IInv, Types
<1>3. e \notin WithStatus({"submitted", "confirmed"}) /\ epochs' = [epochs EXCEPT ![e] = PendingRow(r)]
  BY DEF Prepare
<1>4. PendingRow(r).status = "pending" /\ Holds(Batch, PendingRow(r).from, PendingRow(r).through)
  BY WindowTyped DEF IInv, Prepare, PendingRow
<1>5. /\ next.at = "post" /\ next.batch = Batch
      /\ next.from = PendingRow(r).from /\ next.through = PendingRow(r).through
  BY <1>2 DEF RunRecord
<1>6. run' = [run EXCEPT ![r] = next] /\ run \in [Runs -> RunRecord]
  BY <1>1 DEF Goto, IInv, Types, TypeOK
<1> HIDE DEF next, e
<1>7. PreparedGood'
  <2>1. ASSUME NEW q \in Runs, run'[q].at \in {"post", "record"}
        PROVE  Holds(run'[q].batch, run'[q].from, run'[q].through)
    <3>1. CASE q = r
      BY <1>4, <1>5, <1>6, <3>1
    <3>2. CASE q # r
      BY <1>6, <2>1, <3>2 DEF IInv, PreparedGood
    <3> QED
      BY <3>1, <3>2
  <2> QED
    BY <1>1, <2>1 DEF PreparedGood, Holds, RowsOnly
<1>8. SentGood'
  BY <1>1, <1>5, <1>6 DEF IInv, RowsOnly, SentGood, NextEpoch
<1>9. /\ e \notin WithStatus({"submitted", "confirmed"})'
      /\ \A k \in Epochs : k # e => epochs'[k] = epochs[k]
  <2>1. epochs \in [Epochs -> EpochRow \cup {None}]
    BY DEF IInv, Types, TypeOK
  <2>2. epochs'[e] = PendingRow(r) /\ \A k \in Epochs \ {e} : epochs'[k] = epochs[k]
    BY <1>2, <1>3, <2>1
  <2> QED
    BY <1>4, <2>2 DEF WithStatus
<1>10. RowGood'
  BY <1>1, <1>9 DEF IInv, RowsOnly, RowGood, WithStatus
<1>11. OnRecordGood'
  <2>1. ASSUME NEW t \in onRecord, txs[t].fate \in {"pool", "HALT"}
        PROVE  OwnRow(t)'
    <3>1. OwnRow(t) /\ txs[t].epoch \in Epochs /\ txs[t].epoch # e
      BY <1>3, <2>1 DEF IInv, OnRecordGood, OwnRow, WithStatus
    <3>2. epochs'[txs[t].epoch] = epochs[txs[t].epoch]
      BY <1>9, <3>1
    <3> QED
      BY <1>1, <3>1, <3>2 DEF OwnRow, WithStatus, Holds, RowsOnly
  <2> QED
    BY <1>1, <2>1 DEF OnRecordGood, RowsOnly
<1> QED
  BY <1>7, <1>8, <1>10, <1>11 DEF Guarded

\* Posting a settlement adds to the chain only.
LEMMA PostGuarded ==
  ASSUME IInv, NEW r \in Runs, Invoke(r) \/ InvokeRejected(r)
  PROVE  Guarded'
<1>1. UNCHANGED <<nextId, open, spent, late, epochs, onRecord>>
  BY DEF Invoke, InvokeRejected, ledgerVars
<1>2. run \in [Runs -> RunRecord] /\ run[r] \in RunRecord
  BY DEF IInv, Types, TypeOK
<1>3. DOMAIN txs \subseteq DOMAIN txs' /\ \A u \in DOMAIN txs : txs'[u] = txs[u]
  BY BroadcastTyped DEF IInv, Invoke, InvokeRejected
<1>4. RowGood'
  BY <1>1, <1>3 DEF IInv, RowGood, WithStatus
<1>5. OnRecordGood'
  <2>1. \A t \in onRecord : txs'[t] = txs[t]
    BY <1>3 DEF IInv, Types, TypeOK
  <2> QED
    BY <1>1, <2>1 DEF IInv, OnRecordGood, OwnRow, WithStatus, Holds
<1>6. CASE Invoke(r)
  <2> DEFINE sent == Len(txs) + 1
  <2>1. Broadcast(r) /\ run[r].at = "post"
    BY <1>6 DEF Invoke, Broadcast
  <2>2. PICK hash \in {sent, None} :
          Goto(r, [run[r] EXCEPT !.at = "record", !.sent = sent, !.tx = hash])
    BY <1>6 DEF Invoke
  <2> DEFINE next == [run[r] EXCEPT !.at = "record", !.sent = sent, !.tx = hash]
  <2>3. /\ next.at = "record" /\ next.sent = sent /\ next.tx = hash /\ next.batch = run[r].batch
        /\ next.from = run[r].from /\ next.through = run[r].through /\ next.chain = run[r].chain
    BY <1>2 DEF RunRecord
  <2>4. run' = [run EXCEPT ![r] = next]
    BY <2>2 DEF Goto
  <2>5. sent \in DOMAIN txs' /\ txs'[sent].epoch = NextEpoch(r) /\ txs'[sent].batch = run[r].batch
    <3>1. /\ DOMAIN txs' = DOMAIN txs \cup {sent}
          /\ txs'[sent] = [epoch |-> NextEpoch(r), batch |-> run[r].batch, fate |-> "pool", by |-> r]
      BY <2>1, BroadcastTyped DEF IInv
    <3> QED
      BY <3>1
  <2> HIDE DEF next, sent
  <2>6. PreparedGood'
    BY <1>1, <1>2, <2>1, <2>3, <2>4 DEF IInv, PreparedGood, Holds
  <2>7. SentGood'
    <3>1. ASSUME NEW q \in Runs, run'[q].at = "record"
          PROVE  /\ run'[q].sent \in DOMAIN txs' /\ run'[q].tx \in {run'[q].sent, None}
                 /\ txs'[run'[q].sent].epoch = run'[q].chain + 1
                 /\ txs'[run'[q].sent].batch = run'[q].batch
      <4>1. CASE q = r
        BY <1>2, <2>2, <2>3, <2>4, <2>5, <4>1 DEF NextEpoch
      <4>2. CASE q # r
        <5>1. run'[q] = run[q]
          BY <1>2, <2>4, <4>2
        <5> QED
          BY <1>3, <3>1, <5>1 DEF IInv, SentGood, NextEpoch
      <4> QED
        BY <4>1, <4>2
    <3> QED
      BY <3>1 DEF SentGood, NextEpoch
  <2> QED
    BY <1>4, <1>5, <2>6, <2>7 DEF Guarded
<1>7. CASE InvokeRejected(r)
  <2> DEFINE next == [run[r] EXCEPT !.at = "reject"]
  <2>1. run' = [run EXCEPT ![r] = next]
    BY <1>7 DEF InvokeRejected, Goto
  <2>2. next.at = "reject"
    BY <1>2 DEF RunRecord
  <2> HIDE DEF next
  <2>3. PreparedGood'
    BY <1>1, <1>2, <2>1, <2>2 DEF IInv, PreparedGood, Holds
  <2>4. SentGood'
    <3>1. ASSUME NEW q \in Runs, run'[q].at = "record"
          PROVE  run'[q] = run[q]
      BY <1>2, <2>1, <2>2, <3>1
    <3> QED
      BY <1>3, <3>1 DEF IInv, SentGood, NextEpoch
  <2> QED
    BY <1>4, <1>5, <2>3, <2>4 DEF Guarded
<1> QED
  BY <1>6, <1>7

\* A settlement goes on record with the row of its own window only.
LEMMA SubmitGuarded ==
  ASSUME IInv, NEW r \in Runs, MarkSubmitted(r)
  PROVE  Guarded'
<1> DEFINE e == NextEpoch(r)
           row == [epochs[e] EXCEPT !.status = "submitted", !.tx = run[r].tx]
<1>1. RowsOnly /\ run[r].at = "record" /\ Goto(r, IdleRun) /\ Account(run[r], e)
  BY DEF MarkSubmitted, RowsOnly, ledgerVars, chainVars
<1>2. PreparedGood' /\ SentGood'
  BY <1>1, IdleTyped, RunLetsGo
<1>3. /\ run[r].sent \in DOMAIN txs /\ run[r].tx \in {run[r].sent, None}
      /\ txs[run[r].sent].epoch = e /\ txs[run[r].sent].batch = run[r].batch
      /\ Holds(run[r].batch, run[r].from, run[r].through)
  BY <1>1 DEF IInv, SentGood, PreparedGood
<1>4. CASE e \notin WithStatus({"pending"})
  <2>1. UNCHANGED <<epochs, onRecord>>
    BY <1>4 DEF MarkSubmitted, Account
  <2> QED
    BY <1>1, <1>2, <2>1, RowsLeft DEF Guarded
<1>5. CASE e \in WithStatus({"pending"})
  <2>1. epochs \in [Epochs -> EpochRow \cup {None}] /\ e \in Epochs /\ epochs[e] \in EpochRow
    BY <1>5 DEF IInv, Types, TypeOK, WithStatus
  <2>2. run[r].tx \in TxIndex \cup {None}
    BY DEF IInv, Types, TypeOK, RunRecord
  <2>3. /\ row \in EpochRow /\ row.status = "submitted" /\ row.tx = run[r].tx
        /\ row.from = epochs[e].from /\ row.through = epochs[e].through
    BY <2>1, <2>2 DEF EpochRow
  <2>4. row # None
    BY <2>3, NoRowAssumption DEF NoRowAssumption
  <2>5. epochs' = [epochs EXCEPT ![e] = row]
    BY <1>5, <2>1 DEF MarkSubmitted
  <2>6. e \notin WithStatus({"submitted", "confirmed"})
    BY <1>5 DEF WithStatus
  <2>7. onRecord' = IF epochs[e].from = run[r].from /\ epochs[e].through = run[r].through
                    THEN onRecord \cup {run[r].sent} ELSE onRecord
    BY <1>1, <1>5 DEF Account
  <2> HIDE DEF row, e
  <2>8. epochs'[e] = row /\ \A k \in Epochs \ {e} : epochs'[k] = epochs[k]
    BY <2>1, <2>5
  <2>9. RowGood'
    <3>1. ASSUME NEW k \in Epochs, epochs'[k] # None, epochs'[k].status \in {"submitted", "confirmed"},
                 epochs'[k].tx # None
          PROVE  epochs'[k].tx \in DOMAIN txs /\ txs[epochs'[k].tx].epoch = k
      <4>1. CASE k = e
        BY <1>3, <2>3, <2>8, <3>1, <4>1
      <4>2. CASE k # e
        BY <2>8, <3>1, <4>2 DEF IInv, RowGood, WithStatus
      <4> QED
        BY <4>1, <4>2
    <3> QED
      BY <1>1, <3>1 DEF RowGood, WithStatus, RowsOnly
  <2>10. ASSUME NEW t \in onRecord', txs[t].fate \in {"pool", "HALT"}
         PROVE  OwnRow(t)'
    <3>1. CASE t \in onRecord
      <4>1. OwnRow(t) /\ txs[t].epoch \in Epochs /\ txs[t].epoch # e
        BY <2>6, <2>10, <3>1 DEF IInv, OnRecordGood, OwnRow, WithStatus
      <4>2. epochs'[txs[t].epoch] = epochs[txs[t].epoch]
        BY <2>8, <4>1
      <4> QED
        BY <1>1, <4>1, <4>2 DEF OwnRow, WithStatus, Holds, RowsOnly
    <3>2. CASE t \notin onRecord
      <4>1. t = run[r].sent /\ epochs[e].from = run[r].from /\ epochs[e].through = run[r].through
        BY <2>7, <2>10, <3>2
      <4>2. /\ txs[t].epoch = e /\ epochs'[e] = row /\ epochs'[e].tx \in {t, None}
            /\ epochs'[e] # None /\ epochs'[e].status = "submitted"
        BY <1>3, <2>3, <2>4, <2>8, <4>1
      <4>3. Holds(txs[t].batch, epochs'[e].from, epochs'[e].through)
        BY <1>3, <2>3, <2>8, <4>1
      <4> QED
        BY <1>1, <2>1, <4>2, <4>3 DEF OwnRow, WithStatus, Holds, RowsOnly
    <3> QED
      BY <3>1, <3>2
  <2>11. OnRecordGood'
    BY <1>1, <2>10 DEF OnRecordGood, RowsOnly
  <2> QED
    BY <1>2, <2>9, <2>11 DEF Guarded
<1> QED
  BY <1>4, <1>5

\* A posting that was refused fails a pending row at most.
LEMMA RefusalGuarded ==
  ASSUME IInv, NEW r \in Runs, MarkFailed(r)
  PROVE  Guarded'
<1> DEFINE e == NextEpoch(r)
<1>1. RowsOnly /\ UNCHANGED onRecord /\ Goto(r, IdleRun)
  BY DEF MarkFailed, RowsOnly, ledgerVars, chainVars
<1>2. PreparedGood' /\ SentGood'
  BY <1>1, IdleTyped, RunLetsGo
<1>3. CASE e \notin WithStatus({"pending"})
  <2>1. UNCHANGED epochs
    BY <1>3 DEF MarkFailed, SetStatus
  <2> QED
    BY <1>1, <1>2, <2>1, RowsLeft DEF Guarded
<1>4. CASE e \in WithStatus({"pending"})
  <2>1. epochs \in [Epochs -> EpochRow \cup {None}] /\ e \in Epochs /\ epochs[e] \in EpochRow
    BY <1>4 DEF IInv, Types, TypeOK, WithStatus
  <2>2. epochs' = [epochs EXCEPT ![e].status = "failed"]
    BY <1>4 DEF MarkFailed, SetStatus
  <2>3. epochs'[e].status = "failed" /\ \A k \in Epochs \ {e} : epochs'[k] = epochs[k]
    BY <2>1, <2>2 DEF EpochRow
  <2>4. e \notin WithStatus({"submitted", "confirmed"})
    BY <1>4 DEF WithStatus
  <2> HIDE DEF e
  <2>5. RowGood'
    BY <1>1, <2>3 DEF IInv, RowsOnly, RowGood, WithStatus
  <2>6. ASSUME NEW t \in onRecord, txs[t].fate \in {"pool", "HALT"}
        PROVE  OwnRow(t)'
    <3>1. OwnRow(t) /\ txs[t].epoch \in Epochs /\ txs[t].epoch # e
      BY <2>4, <2>6 DEF IInv, OnRecordGood, OwnRow, WithStatus
    <3>2. epochs'[txs[t].epoch] = epochs[txs[t].epoch]
      BY <2>3, <3>1
    <3> QED
      BY <1>1, <3>1, <3>2 DEF OwnRow, WithStatus, Holds, RowsOnly
  <2>7. OnRecordGood'
    BY <1>1, <2>6 DEF OnRecordGood, RowsOnly
  <2> QED
    BY <1>2, <2>5, <2>7 DEF Guarded
<1> QED
  BY <1>3, <1>4

LEMMA RunsGuarded ==
  ASSUME IInv, NEW r \in Runs, RunStep(r) \/ RunFault(r)
  PROVE  Guarded'
<1>1. CASE ReadChainEpoch(r)
  <2> DEFINE next == [IdleRun EXCEPT !.at = "load", !.chain = chainEpoch]
  <2>1. RowsOnly /\ UNCHANGED <<epochs, onRecord>> /\ Goto(r, next)
    BY <1>1 DEF ReadChainEpoch, RowsOnly, ledgerVars, chainVars
  <2>2. next.at = "load"
    BY DEF IdleRun
  <2> HIDE DEF next
  <2> QED
    BY <2>1, <2>2, RunLetsGo, RowsLeft DEF Guarded
<1>2. CASE LoadSubmitted(r)
  <2> DEFINE loaded == {<<e, epochs[e].tx>> : e \in WithStatus({"submitted"})}
             next == [run[r] EXCEPT !.at = "reconcile", !.todo = loaded]
  <2>1. RowsOnly /\ UNCHANGED <<epochs, onRecord>> /\ Goto(r, next)
    BY <1>2 DEF LoadSubmitted, RowsOnly, ledgerVars, chainVars
  <2> HIDE DEF loaded
  <2>2. next.at = "reconcile"
    BY NextTyped DEF IInv, Types, RunRecord
  <2> HIDE DEF next
  <2> QED
    BY <2>1, <2>2, RunLetsGo, RowsLeft DEF Guarded
<1>3. CASE NothingToSettle(r) \/ PrepareRefused(r) \/ Crash(r)
  <2>1. RowsOnly /\ UNCHANGED <<epochs, onRecord>> /\ Goto(r, IdleRun)
    BY <1>3 DEF NothingToSettle, PrepareRefused, Crash, RowsOnly, ledgerVars, chainVars
  <2> QED
    BY <2>1, IdleTyped, RunLetsGo, RowsLeft DEF Guarded
<1> QED
  BY <1>1, <1>2, <1>3, LooksGuarded, PrepareGuarded, PostGuarded, SubmitGuarded, RefusalGuarded
     DEF RunStep, RunFault, Looks

LEMMA Inductive ==
  ASSUME IInv, [Next]_vars
  PROVE  IInv'
<1>1. CASE UNCHANGED vars
  BY <1>1 DEF vars, IInv, Types, TypeOK, IdsGood, ChainCounts, Landed, PreparedGood, SentGood, NextEpoch,
              RowGood, OnRecordGood, OwnRow, WithStatus, Holds
<1>2. CASE SpendStep
  BY <1>2, SpendsTyped, SpendsGuarded DEF IInv, Guarded
<1>3. CASE ChainStep
  BY <1>3, ChainTyped, ChainGuarded DEF IInv, Guarded
<1>4. CASE \E r \in Runs : RunStep(r) \/ RunFault(r)
  BY <1>4, RunsTyped, RunsGuarded DEF IInv, Guarded
<1> QED
  BY <1>1, <1>2, <1>3, <1>4 DEF Next

-----------------------------------------------------------------------------
\* That confirmed windows are settled.  Each epoch that the contract has passed
\* has a settlement that landed, and, where these are on record in rows of their
\* own, every spend below a window was settled before it.

\* How far epochs, rows and runs have come, against the contract.
Reach ==
  /\ \A r \in Runs : run[r].chain <= chainEpoch
  /\ \A t \in DOMAIN txs :
       /\ txs[t].epoch <= chainEpoch + 1
       /\ txs[t].fate = "HALT" => txs[t].epoch <= chainEpoch
  /\ \A k \in Epochs : k <= chainEpoch => \E t \in Landed : txs[t].epoch = k
  /\ \A k \in Epochs :
       epochs[k] # None =>
         /\ k <= chainEpoch + 1
         /\ epochs[k].from <= epochs[k].through
         /\ epochs[k].status = "confirmed" => k <= chainEpoch

\* What a run has loaded to reconcile is of the epoch it was loaded with.
TodoGood ==
  \A r \in Runs : \A d \in run[r].todo :
    d[2] # None => d[2] \in DOMAIN txs /\ txs[d[2]].epoch = d[1]

\* The row of the epoch is still as the run has prepared it.
Mine(r) == NextEpoch(r) \in WithStatus({"pending"}) /\ epochs[NextEpoch(r)].by = r
HandGood ==
  \A r \in Runs :
    /\ run[r].at \in {"post", "record"} /\ Mine(r) =>
         epochs[NextEpoch(r)].from = run[r].from /\ epochs[NextEpoch(r)].through = run[r].through
    /\ run[r].at = "record" => txs[run[r].sent].by = r

\* The settlements that have landed are on record in a row of their own, or
\* their run may still record them so.
InHand(t) == \E r \in Runs : run[r].at = "record" /\ run[r].sent = t /\ Mine(r)
Kept == \A t \in Landed : t \in Owned \/ InHand(t)

Base(i) == \A s \in spent \ late : s.id <= i => s \in Settled
Live == WithStatus({"pending", "submitted", "confirmed"})
BaseGood == Kept => \A k \in Live : Base(epochs[k].from)

CInv == Reach /\ TodoGood /\ HandGood /\ BaseGood

LEMMA RowFields ==
  ASSUME TypeOK, NEW k \in Epochs, epochs[k] # None
  PROVE  /\ epochs[k] \in EpochRow /\ epochs[k].from \in 0..MaxId /\ epochs[k].through \in 1..MaxId
         /\ epochs[k].by \in Runs
         /\ epochs[k].status \in {"pending", "submitted", "confirmed", "failed"}
BY DEF TypeOK, EpochRow

LEMMA LandedRuns ==
  ASSUME Types, NEW t \in Landed
  PROVE  t \in DOMAIN txs /\ txs[t] \in Tx /\ txs[t].epoch \in Epochs /\ txs[t].fate = "HALT"
BY DEF Types, TypeOK, Landed, Tx

\* A row that is submitted or confirmed, of an epoch that was passed, is that of a
\* settlement that landed, and below the end of its window all is settled.
LEMMA PassedSettled ==
  ASSUME IInv, CInv, Kept, NEW k \in WithStatus({"submitted", "confirmed"}), k <= chainEpoch
  PROVE  Base(epochs[k].through)
<1>1. k \in Epochs /\ epochs[k] # None /\ epochs[k].status \in {"submitted", "confirmed"}
  BY DEF WithStatus
<1>2. PICK t \in Landed : txs[t].epoch = k
  BY <1>1 DEF CInv, Reach
<1>3. ~InHand(t)
  <2> SUFFICES ASSUME NEW r \in Runs, run[r].at = "record", run[r].sent = t, Mine(r)
               PROVE  FALSE
    BY DEF InHand
  <2>1. NextEpoch(r) = k
    BY <1>2 DEF IInv, SentGood
  <2> QED
    BY <1>1, <2>1 DEF Mine, WithStatus
<1>4. t \in onRecord /\ txs[t].fate \in {"pool", "HALT"}
  BY <1>3, LandedRuns DEF Kept, Owned, IInv
<1>5. OwnRow(t)
  BY <1>4 DEF IInv, OnRecordGood
<1>6. Holds(txs[t].batch, epochs[k].from, epochs[k].through)
  BY <1>2, <1>5 DEF OwnRow
<1>7. Base(epochs[k].from)
  BY <1>1 DEF CInv, BaseGood, Live, WithStatus
<1>8. txs[t].batch \subseteq Settled
  BY DEF Settled
<1>9. \A s \in spent : s.id \in 1..MaxId
  BY DEF IInv, Types, TypeOK, Spend
<1>10. epochs[k].from \in 0..MaxId /\ MaxId \in Nat
  BY <1>1, RowFields, MaxTxsNat DEF IInv, Types
<1> QED
  BY <1>6, <1>7, <1>8, <1>9, <1>10 DEF Base, Holds

\* Most steps leave the rows but for their status, which goes on.
RowsGoOn ==
  \A k \in Epochs :
    /\ epochs'[k] # None <=> epochs[k] # None
    /\ epochs[k] # None =>
         /\ epochs'[k].from = epochs[k].from /\ epochs'[k].through = epochs[k].through
         /\ epochs'[k].by = epochs[k].by
         /\ epochs'[k].status = "pending" => epochs[k].status = "pending"
         /\ epochs'[k].status # "failed" => epochs[k].status # "failed"
         /\ epochs'[k].status = "confirmed" => epochs[k].status = "confirmed" \/ k <= chainEpoch

\* Settlements keep what they hold, and what has landed; new ones are not beyond
\* the next epoch.
TxsGoOn ==
  /\ \A t \in DOMAIN txs :
       /\ t \in DOMAIN txs' /\ txs'[t].epoch = txs[t].epoch /\ txs'[t].batch = txs[t].batch
       /\ txs'[t].by = txs[t].by
       /\ txs[t].fate = "HALT" => txs'[t].fate = "HALT"
  /\ \A t \in DOMAIN txs' :
       txs'[t].epoch <= chainEpoch' + 1 /\ (txs'[t].fate = "HALT" => txs'[t].epoch <= chainEpoch')

\* A settlement goes on record from the hand of its run, to which it comes new.
RecordGoesOn ==
  \A t \in onRecord' \ onRecord :
    \E r \in Runs : run[r].at = "record" /\ run[r].sent = t /\ NextEpoch(r) \in WithStatus({"pending"})
HandsGoOn ==
  \A r \in Runs :
    run'[r].at = "record" =>
      \/ run[r].at = "record" /\ run'[r].sent = run[r].sent /\ run'[r].chain = run[r].chain
      \/ run'[r].sent \notin DOMAIN txs

LEMMA TxsLeft == ASSUME CInv, UNCHANGED <<txs, chainEpoch>> PROVE TxsGoOn
BY DEF CInv, Reach, TxsGoOn

LEMMA RowsLeftGoOn == UNCHANGED epochs => RowsGoOn
BY DEF RowsGoOn

LEMMA LandedGrows ==
  ASSUME Types, TxsGoOn
  PROVE  Landed \subseteq Landed' /\ Settled \subseteq Settled'
<1>1. \A t \in Landed : t \in Landed' /\ txs'[t].batch = txs[t].batch
  BY LandedRuns DEF TxsGoOn, Landed
<1> QED
  BY <1>1 DEF Settled

LEMMA KeptBefore ==
  ASSUME IInv, HandGood, RowsGoOn, TxsGoOn, RecordGoesOn, HandsGoOn, Kept'
  PROVE  Kept
<1> SUFFICES ASSUME NEW t \in Landed
             PROVE  t \in Owned \/ InHand(t)
  BY DEF Kept
<1>1. t \in DOMAIN txs /\ txs[t].epoch \in Epochs /\ txs[t].fate = "HALT" /\ txs'[t].by = txs[t].by
      /\ txs'[t].epoch = txs[t].epoch
  BY LandedRuns DEF IInv, TxsGoOn
<1>2. t \in Landed'
  BY LandedGrows DEF IInv
<1>3. CASE t \in Owned'
  <2>1. t \in onRecord' /\ epochs'[txs[t].epoch].by = txs[t].by
    BY <1>1, <1>3 DEF Owned
  <2>2. CASE t \in onRecord
    <3>1. OwnRow(t)
      BY <1>1, <2>2 DEF IInv, OnRecordGood
    <3>2. epochs[txs[t].epoch].by = txs[t].by
      BY <1>1, <2>1, <3>1 DEF OwnRow, WithStatus, RowsGoOn
    <3> QED
      BY <2>2, <3>2 DEF Owned
  <2>3. CASE t \notin onRecord
    <3>1. PICK r \in Runs : /\ run[r].at = "record" /\ run[r].sent = t
                            /\ NextEpoch(r) \in WithStatus({"pending"})
      BY <2>1, <2>3 DEF RecordGoesOn
    <3>2. txs[t].epoch = NextEpoch(r) /\ txs[t].by = r
      BY <3>1 DEF IInv, SentGood, HandGood
    <3>3. epochs[NextEpoch(r)].by = r
      BY <1>1, <2>1, <3>1, <3>2 DEF WithStatus, RowsGoOn
    <3> QED
      BY <3>1, <3>3 DEF InHand, Mine
  <2> QED
    BY <2>2, <2>3
<1>4. CASE t \notin Owned'
  <2>1. PICK r \in Runs : run'[r].at = "record" /\ run'[r].sent = t /\ Mine(r)'
    BY <1>2, <1>4 DEF Kept, InHand
  <2>2. run[r].at = "record" /\ run[r].sent = t /\ run'[r].chain = run[r].chain
    BY <1>1, <2>1 DEF HandsGoOn
  <2>3. Mine(r)
    BY <2>1, <2>2 DEF Mine, NextEpoch, WithStatus, RowsGoOn
  <2> QED
    BY <2>2, <2>3 DEF InHand
<1> QED
  BY <1>3, <1>4

\* So what was settled below a window stays settled, unless a spend commits late.
LEMMA BaseKept ==
  ASSUME IInv, CInv, RowsGoOn, TxsGoOn, RecordGoesOn, HandsGoOn, UNCHANGED <<spent, late>>
  PROVE  BaseGood'
<1> SUFFICES ASSUME Kept', NEW k \in Live'
             PROVE  Base(epochs[k].from)'
  BY DEF BaseGood
<1>1. Kept
  BY KeptBefore DEF CInv
<1>2. k \in Live /\ epochs'[k].from = epochs[k].from
  <2>1. k \in Epochs /\ epochs'[k] # None /\ epochs'[k].status # "failed"
    BY DEF Live, WithStatus
  <2>2. epochs[k] # None /\ epochs[k].status # "failed" /\ epochs'[k].from = epochs[k].from
    BY <2>1 DEF RowsGoOn
  <2> QED
    BY <2>1, <2>2, RowFields DEF Live, WithStatus, IInv, Types
<1>3. Base(epochs[k].from)
  BY <1>1, <1>2 DEF CInv, BaseGood
<1>4. Settled \subseteq Settled'
  BY LandedGrows DEF IInv
<1> QED
  BY <1>2, <1>3, <1>4 DEF Base

LEMMA InitFollows == Init => CInv
<1> SUFFICES ASSUME Init
             PROVE  CInv
  OBVIOUS
<1>1. IdleRun.at = "idle" /\ IdleRun.chain = 0 /\ IdleRun.todo = {}
  BY DEF IdleRun
<1>2. Reach
  BY <1>1, MaxTxsNat DEF Init, Reach, Epochs
<1>3. TodoGood /\ HandGood
  BY <1>1 DEF Init, TodoGood, HandGood
<1>4. BaseGood
  BY DEF Init, BaseGood, Live, WithStatus
<1> QED
  BY <1>2, <1>3, <1>4 DEF CInv

LEMMA ReachKept ==
  ASSUME IInv, CInv, RowsGoOn, TxsGoOn, chainEpoch' \in Nat, chainEpoch <= chainEpoch',
         \A r \in Runs : run'[r].chain <= chainEpoch',
         \A k \in Epochs : k <= chainEpoch' => \E t \in Landed' : txs'[t].epoch = k
  PROVE  Reach'
<1>1. ASSUME NEW k \in Epochs, epochs'[k] # None
      PROVE  /\ k <= chainEpoch' + 1 /\ epochs'[k].from <= epochs'[k].through
             /\ epochs'[k].status = "confirmed" => k <= chainEpoch'
  <2>1. /\ epochs[k] # None /\ epochs'[k].from = epochs[k].from /\ epochs'[k].through = epochs[k].through
        /\ epochs'[k].status = "confirmed" => epochs[k].status = "confirmed" \/ k <= chainEpoch
    BY <1>1 DEF RowsGoOn
  <2>2. /\ k <= chainEpoch + 1 /\ epochs[k].from <= epochs[k].through
        /\ epochs[k].status = "confirmed" => k <= chainEpoch
    BY <2>1 DEF CInv, Reach
  <2>3. k \in Nat /\ chainEpoch \in Nat
    BY MaxTxsNat DEF Epochs, IInv, Types, TypeOK
  <2> QED
    BY <2>1, <2>2, <2>3
<1> QED
  BY <1>1 DEF Reach, TxsGoOn

LEMMA TodoKept ==
  ASSUME CInv, TxsGoOn, \A r \in Runs : run'[r].todo \subseteq run[r].todo
  PROVE  TodoGood'
BY DEF CInv, TodoGood, TxsGoOn

LEMMA HandsKept ==
  ASSUME IInv, CInv, RowsGoOn, TxsGoOn,
         \A r \in Runs :
           /\ run'[r].at \in {"post", "record"} =>
                /\ run[r].at \in {"post", "record"} /\ run'[r].chain = run[r].chain
                /\ run'[r].from = run[r].from /\ run'[r].through = run[r].through
           /\ run'[r].at = "record" =>
                \/ run[r].at = "record" /\ run'[r].sent = run[r].sent
                \/ txs'[run'[r].sent].by = r
  PROVE  HandGood'
<1>1. ASSUME NEW r \in Runs, run'[r].at \in {"post", "record"}, Mine(r)'
      PROVE  epochs'[run'[r].chain + 1].from = run'[r].from /\ epochs'[run'[r].chain + 1].through = run'[r].through
  <2>1. run[r].at \in {"post", "record"} /\ run'[r].chain = run[r].chain
    BY <1>1
  <2>2. Mine(r) /\ epochs'[NextEpoch(r)].from = epochs[NextEpoch(r)].from
        /\ epochs'[NextEpoch(r)].through = epochs[NextEpoch(r)].through
    BY <1>1, <2>1 DEF Mine, NextEpoch, WithStatus, RowsGoOn
  <2> QED
    BY <1>1, <2>1, <2>2 DEF CInv, HandGood, NextEpoch
<1>2. ASSUME NEW r \in Runs, run'[r].at = "record"
      PROVE  txs'[run'[r].sent].by = r
  <2>1. CASE run[r].at = "record" /\ run'[r].sent = run[r].sent
    BY <2>1 DEF IInv, SentGood, CInv, HandGood, TxsGoOn
  <2> QED
    BY <1>2, <2>1
<1> QED
  BY <1>1, <1>2 DEF HandGood, NextEpoch

\* A spend that commits below a window is late.
LEMMA SpendsFollow ==
  ASSUME IInv, CInv, SpendStep
  PROVE  CInv'
<1>1. UNCHANGED <<epochs, chainEpoch, txs, onRecord, run, faults>>
  BY DEF SpendStep, SpendInsert, SpendCommit, SpendRollback, chainVars
<1>2. RowsGoOn /\ TxsGoOn
  BY <1>1, RowsLeftGoOn, TxsLeft
<1>3. Reach' /\ TodoGood' /\ HandGood'
  BY <1>1 DEF CInv, Reach, TodoGood, HandGood, Mine, NextEpoch, WithStatus, Landed
<1>4. Kept' => Kept
  BY <1>1 DEF Kept, Landed, Owned, InHand, Mine, NextEpoch, WithStatus
<1>5. ASSUME Kept, NEW k \in Live, NEW s \in spent' \ late', s.id <= epochs[k].from
      PROVE  s \in Settled
  <2>1. k \in Epochs /\ epochs[k] # None /\ epochs[k].status \in {"pending", "submitted", "confirmed"}
    BY DEF Live, WithStatus
  <2>2. s \in spent
    <3> SUFFICES ASSUME s \notin spent
                 PROVE  FALSE
      OBVIOUS
    <3>1. s \in open /\ s \notin late' /\ late' = (IF Cut(s.id) THEN late \cup {s} ELSE late)
      BY DEF SpendStep, SpendInsert, SpendCommit, SpendRollback
    <3>2. s.id \in Nat
      BY <3>1, MaxTxsNat DEF IInv, Types, TypeOK, Spend
    <3>3. epochs[k].from <= epochs[k].through /\ epochs[k].from \in Nat /\ epochs[k].through \in Nat
      BY <2>1, RowFields, MaxTxsNat DEF CInv, Reach, IInv, Types
    <3>4. s.id <= epochs[k].through
      BY <1>5, <3>2, <3>3
    <3>5. Cut(s.id)
      BY <2>1, <3>4 DEF Cut, WithStatus
    <3> QED
      BY <3>1, <3>5
  <2>3. s \notin late
    BY DEF SpendStep, SpendInsert, SpendCommit, SpendRollback
  <2>4. Base(epochs[k].from)
    BY <1>5 DEF CInv, BaseGood
  <2> QED
    BY <1>5, <2>2, <2>3, <2>4 DEF Base
<1>6. BaseGood'
  <2>1. Live' = Live /\ Settled' = Settled
    BY <1>1 DEF Live, WithStatus, Settled, Landed
  <2> QED
    BY <1>1, <1>4, <1>5, <2>1 DEF BaseGood, Base
<1> QED
  BY <1>3, <1>6 DEF CInv

LEMMA ChainFollows ==
  ASSUME IInv, CInv, ChainStep
  PROVE  CInv'
<1> PICK t \in DOMAIN txs : Land(t) \/ LandFaults(t) \/ Vanish(t)
  BY DEF ChainStep
<1>1. txs[t].fate = "pool" /\ UNCHANGED <<nextId, open, spent, late, epochs, onRecord, run>>
  BY DEF Land, LandFaults, Vanish, ledgerVars
<1>2. PICK fate \in {"HALT", "FAULT", "gone"} :
        /\ SetFate(t, fate)
        /\ chainEpoch' = IF fate = "HALT" THEN chainEpoch + 1 ELSE chainEpoch
        /\ fate = "HALT" => txs[t].epoch = chainEpoch + 1
  BY DEF Land, LandFaults, Vanish
<1>3. /\ DOMAIN txs' = DOMAIN txs
      /\ \A u \in DOMAIN txs :
           /\ txs'[u].epoch = txs[u].epoch /\ txs'[u].batch = txs[u].batch /\ txs'[u].by = txs[u].by
           /\ txs'[u].fate = IF u = t THEN fate ELSE txs[u].fate
      /\ Landed' = IF fate = "HALT" THEN Landed \cup {t} ELSE Landed
  BY <1>1, <1>2, FateTyped DEF IInv
<1>4. chainEpoch \in Nat /\ chainEpoch' \in Nat /\ chainEpoch <= chainEpoch'
  BY <1>2, MaxTxsNat DEF IInv, Types, TypeOK
<1>5. \A u \in DOMAIN txs : txs[u].epoch \in Nat
  BY MaxTxsNat DEF IInv, Types, TypeOK, Tx, Epochs
<1>6. TxsGoOn
  BY <1>1, <1>2, <1>3, <1>4, <1>5 DEF CInv, Reach, TxsGoOn
<1>7. RowsGoOn
  BY <1>1, RowsLeftGoOn
<1>8. Reach'
  <2>1. \A r \in Runs : run'[r].chain <= chainEpoch'
    <3>1. \A r \in Runs : run[r].chain \in Nat
      BY MaxTxsNat DEF IInv, Types, TypeOK, RunRecord
    <3> QED
      BY <1>1, <1>4, <3>1 DEF CInv, Reach
  <2>2. ASSUME NEW k \in Epochs, k <= chainEpoch'
        PROVE  \E u \in Landed' : txs'[u].epoch = k
    <3>1. CASE k <= chainEpoch
      <4>1. PICK u \in Landed : txs[u].epoch = k
        BY <3>1 DEF CInv, Reach
      <4> QED
        BY <1>3, <4>1 DEF Landed
    <3>2. CASE ~(k <= chainEpoch)
      <4>1. k = chainEpoch + 1 /\ fate = "HALT"
        BY <1>2, <1>4, <2>2, <3>2, MaxTxsNat DEF Epochs
      <4> QED
        BY <1>2, <1>3, <4>1
    <3> QED
      BY <3>1, <3>2
  <2> QED
    BY <1>4, <1>6, <1>7, <2>1, <2>2, ReachKept
<1>9. TodoGood' /\ HandGood'
  <2>1. TodoGood'
    BY <1>1, <1>6, TodoKept
  <2>2. HandGood'
    BY <1>1, <1>6, <1>7, HandsKept
  <2> QED
    BY <2>1, <2>2
<1>10. RecordGoesOn /\ HandsGoOn
  BY <1>1 DEF RecordGoesOn, HandsGoOn
<1>11. BaseGood'
  BY <1>1, <1>6, <1>7, <1>10, BaseKept
<1> QED
  BY <1>8, <1>9, <1>11 DEF CInv

\* A run that neither prepares nor posts.
LEMMA LetsGoFollows ==
  ASSUME IInv, CInv, RowsOnly, RowsGoOn, RecordGoesOn, NEW r \in Runs, NEW next, Goto(r, next),
         next.at \notin {"post", "record"}, next.chain <= chainEpoch,
         \A d \in next.todo : d[2] # None => d[2] \in DOMAIN txs /\ txs[d[2]].epoch = d[1]
  PROVE  CInv'
<1>1. run' = [run EXCEPT ![r] = next] /\ run \in [Runs -> RunRecord]
  BY DEF Goto, IInv, Types, TypeOK
<1>2. run'[r] = next /\ \A q \in Runs : q # r => run'[q] = run[q]
  BY <1>1
<1>3. UNCHANGED <<txs, chainEpoch, spent, late>>
  BY DEF RowsOnly
<1>4. TxsGoOn
  BY <1>3, TxsLeft
<1>5. HandsGoOn
  BY <1>2 DEF HandsGoOn
<1>6. Reach'
  <2>1. \A q \in Runs : run'[q].chain <= chainEpoch'
    BY <1>2, <1>3 DEF CInv, Reach
  <2>2. \A k \in Epochs : k <= chainEpoch' => \E t \in Landed' : txs'[t].epoch = k
    BY <1>3 DEF CInv, Reach, Landed
  <2>3. chainEpoch' \in Nat /\ chainEpoch <= chainEpoch'
    BY <1>3, MaxTxsNat DEF IInv, Types, TypeOK
  <2> QED
    BY <1>4, <2>1, <2>2, <2>3, ReachKept
<1>7. TodoGood'
  BY <1>2, <1>3 DEF CInv, TodoGood
<1>8. HandGood'
  <2>1. \A q \in Runs : run'[q].at \in {"post", "record"} => run'[q] = run[q]
    BY <1>2
  <2> QED
    BY <1>4, <2>1, HandsKept
<1>9. BaseGood'
  BY <1>3, <1>4, <1>5, BaseKept
<1> QED
  BY <1>6, <1>7, <1>8, <1>9 DEF CInv

LEMMA StatusGoesOn ==
  ASSUME TypeOK, NEW e, NEW from \in {"pending", "submitted"}, NEW to \in {"confirmed", "failed"},
         SetStatus(e, from, to), to = "confirmed" => e <= chainEpoch
  PROVE  RowsGoOn
<1>1. to \in {"pending", "submitted", "confirmed", "failed"}
  OBVIOUS
<1>2. /\ \A k \in Epochs : k # e => epochs'[k] = epochs[k]
      /\ \A k \in Epochs :
           epochs[k] # None => /\ epochs'[k] # None /\ epochs'[k].from = epochs[k].from
                               /\ epochs'[k].through = epochs[k].through /\ epochs'[k].by = epochs[k].by
      /\ \A k \in Epochs : epochs'[k] # None => epochs[k] # None
      /\ e \in WithStatus({from}) => epochs'[e].status = to
      /\ e \notin WithStatus({from}) => epochs' = epochs
  BY <1>1, StatusSet, ZenonT(60)
<1>3. ASSUME NEW k \in Epochs, epochs[k] # None
      PROVE  /\ epochs'[k].status = "pending" => epochs[k].status = "pending"
             /\ epochs'[k].status # "failed" => epochs[k].status # "failed"
             /\ epochs'[k].status = "confirmed" => epochs[k].status = "confirmed" \/ k <= chainEpoch
  <2>1. CASE k = e /\ e \in WithStatus({from})
    <3>1. epochs[k].status = from /\ epochs'[k].status = to
      BY <1>2, <2>1 DEF WithStatus
    <3> QED
      BY <2>1, <3>1
  <2>2. CASE k # e \/ e \notin WithStatus({from})
    BY <1>2, <1>3, <2>2
  <2> QED
    BY <2>1, <2>2
<1> QED
  BY <1>2, <1>3 DEF RowsGoOn

LEMMA FirstLoaded ==
  ASSUME TypeOK, NEW r \in Runs, run[r].todo # {}
  PROVE  First(r) \in run[r].todo /\ First(r)[1] \in Epochs
<1> DEFINE Es == {d[1] : d \in run[r].todo}
<1>1. run[r].todo \subseteq Todo
  BY NextTyped DEF RunRecord
<1>2. \A d \in run[r].todo : d[1] \in Epochs
  BY <1>1 DEF Todo
<1>3. Es \in SUBSET (0..(MaxTxs + 1)) /\ Es # {} /\ MaxTxs + 1 \in Nat
  BY <1>2, MaxTxsNat DEF Epochs
<1>4. PICK e \in Es : \A f \in Es : e <= f
  BY <1>3, MinExists
<1>5. \E d \in run[r].todo : \A f \in run[r].todo : d[1] <= f[1]
  BY <1>4
<1>6. First(r) \in run[r].todo
  BY <1>5 DEF First
<1> QED
  BY <1>2, <1>6

\* A row is confirmed only for an epoch that the contract has passed.
LEMMA LooksOn ==
  ASSUME IInv, CInv, NEW r \in Runs, Looks(r)
  PROVE  \/ Goto(r, IdleRun) /\ UNCHANGED <<epochs, onRecord>>
         \/ /\ onRecord' \subseteq onRecord
            /\ \E status \in {"confirmed", "failed"} :
                 /\ Resolve(r, First(r), status)
                 /\ status = "confirmed" => First(r)[1] <= chainEpoch
<1> DEFINE d == First(r)
<1>1. d \in run[r].todo /\ d[1] \in Epochs
  BY FirstLoaded DEF Looks, ReconcileByLog, ReconcileUnexecuted, ReconcileLogFails, Reconciling, IInv, Types
<1>2. Consumed(r, d) => d[1] <= chainEpoch
  <2>1. run[r].chain <= chainEpoch /\ run[r].chain \in Nat /\ chainEpoch \in Nat /\ d[1] \in Nat
    BY <1>1, MaxTxsNat DEF CInv, Reach, IInv, Types, TypeOK, RunRecord, Epochs
  <2> HIDE DEF d
  <2> QED
    BY <2>1 DEF Consumed
<1>3. Fate(d) = "HALT" => d[1] <= chainEpoch
  <2> SUFFICES ASSUME Fate(d) = "HALT"
               PROVE  d[1] <= chainEpoch
    OBVIOUS
  <2>1. d[2] # None /\ txs[d[2]].fate = "HALT"
    BY DEF Fate
  <2>2. d[2] \in DOMAIN txs /\ txs[d[2]].epoch = d[1]
    BY <1>1, <2>1 DEF CInv, TodoGood
  <2> QED
    BY <2>1, <2>2 DEF CInv, Reach
<1>4. onRecord' \subseteq onRecord
  BY DEF Looks, ReconcileByLog, ReconcileUnexecuted, ReconcileLogFails, ReconcileByProgress, ReconcileByTimeout,
         ReconcileWaits, GiveUp
<1>5. CASE ReconcileByLog(r)
  BY <1>3, <1>4, <1>5 DEF ReconcileByLog
<1>6. CASE ReconcileUnexecuted(r)
  BY <1>2, <1>4, <1>6 DEF ReconcileUnexecuted, ReconcileByProgress, ReconcileByTimeout, ReconcileWaits
<1>7. CASE ReconcileLogFails(r)
  BY <1>2, <1>4, <1>7 DEF ReconcileLogFails
<1> QED
  BY <1>5, <1>6, <1>7 DEF Looks

LEMMA IdleLoads == IdleRun.at = "idle" /\ IdleRun.chain = 0 /\ IdleRun.todo = {}
BY DEF IdleRun

LEMMA EndFollows ==
  ASSUME IInv, CInv, RowsOnly, RowsGoOn, RecordGoesOn, NEW r \in Runs, Goto(r, IdleRun)
  PROVE  CInv'
<1>1. 0 <= chainEpoch
  BY MaxTxsNat DEF IInv, Types, TypeOK
<1> QED
  BY <1>1, IdleLoads, LetsGoFollows

LEMMA LooksFollow ==
  ASSUME IInv, CInv, NEW r \in Runs, Looks(r)
  PROVE  CInv'
<1>1. RowsOnly /\ run[r].at = "reconcile"
  BY LooksAt
<1>2. CASE Goto(r, IdleRun) /\ UNCHANGED <<epochs, onRecord>>
  BY <1>1, <1>2, RowsLeftGoOn, EndFollows DEF RecordGoesOn
<1>3. ASSUME onRecord' \subseteq onRecord, NEW status \in {"confirmed", "failed"}, NEW d,
             Resolve(r, d, status), status = "confirmed" => d[1] <= chainEpoch
      PROVE  CInv'
  <2> DEFINE next == [run[r] EXCEPT !.todo = run[r].todo \ {d}]
  <2>1. SetStatus(d[1], "submitted", status) /\ Goto(r, next)
    BY <1>3 DEF Resolve
  <2>2. RowsGoOn
    BY <1>3, <2>1, StatusGoesOn DEF IInv, Types
  <2>3. next.at = "reconcile" /\ next.chain = run[r].chain /\ next.todo \subseteq run[r].todo
    BY <1>1, NextTyped DEF IInv, Types, RunRecord
  <2> HIDE DEF next
  <2>4. RecordGoesOn
    BY <1>3 DEF RecordGoesOn
  <2>5. next.chain <= chainEpoch /\ \A f \in next.todo : f[2] # None => f[2] \in DOMAIN txs /\ txs[f[2]].epoch = f[1]
    BY <2>3 DEF CInv, Reach, TodoGood
  <2> QED
    BY <1>1, <2>1, <2>2, <2>3, <2>4, <2>5, LetsGoFollows
<1> QED
  BY <1>2, <1>3, LooksOn

LEMMA LoadFollows ==
  ASSUME IInv, CInv, NEW r \in Runs, LoadSubmitted(r)
  PROVE  CInv'
<1> DEFINE loaded == {<<e, epochs[e].tx>> : e \in WithStatus({"submitted"})}
           next == [run[r] EXCEPT !.at = "reconcile", !.todo = loaded]
<1>1. RowsOnly /\ UNCHANGED <<epochs, onRecord>> /\ Goto(r, next)
  BY DEF LoadSubmitted, RowsOnly, ledgerVars, chainVars
<1>2. \A d \in loaded : d[2] # None => d[2] \in DOMAIN txs /\ txs[d[2]].epoch = d[1]
  BY DEF IInv, RowGood, WithStatus
<1> HIDE DEF loaded
<1>3. next.at = "reconcile" /\ next.chain = run[r].chain /\ next.todo = loaded
  BY NextTyped DEF IInv, Types, RunRecord
<1> HIDE DEF next
<1>4. RowsGoOn /\ RecordGoesOn
  BY <1>1, RowsLeftGoOn DEF RecordGoesOn
<1>5. next.chain <= chainEpoch
  BY <1>3 DEF CInv, Reach
<1> QED
  BY <1>1, <1>2, <1>3, <1>4, <1>5, LetsGoFollows

LEMMA ReadFollows ==
  ASSUME IInv, CInv, NEW r \in Runs, ReadChainEpoch(r)
  PROVE  CInv'
<1> DEFINE next == [IdleRun EXCEPT !.at = "load", !.chain = chainEpoch]
<1>1. RowsOnly /\ UNCHANGED <<epochs, onRecord>> /\ Goto(r, next)
  BY DEF ReadChainEpoch, RowsOnly, ledgerVars, chainVars
<1>2. next.at = "load" /\ next.chain = chainEpoch /\ next.todo = {}
  BY DEF IdleRun
<1> HIDE DEF next
<1>3. RowsGoOn /\ RecordGoesOn
  BY <1>1, RowsLeftGoOn DEF RecordGoesOn
<1>4. next.chain <= chainEpoch
  BY <1>2, MaxTxsNat DEF IInv, Types, TypeOK
<1> QED
  BY <1>1, <1>2, <1>3, <1>4, LetsGoFollows

LEMMA SubmitFollows ==
  ASSUME IInv, CInv, NEW r \in Runs, MarkSubmitted(r)
  PROVE  CInv'
<1> DEFINE e == NextEpoch(r)
           row == [epochs[e] EXCEPT !.status = "submitted", !.tx = run[r].tx]
<1>1. RowsOnly /\ run[r].at = "record" /\ Goto(r, IdleRun) /\ Account(run[r], e)
  BY DEF MarkSubmitted, RowsOnly, ledgerVars, chainVars
<1>2. RecordGoesOn
  BY <1>1 DEF RecordGoesOn, Account
<1>3. RowsGoOn
  <2>1. CASE e \notin WithStatus({"pending"})
    BY <2>1, RowsLeftGoOn DEF MarkSubmitted
  <2>2. CASE e \in WithStatus({"pending"})
    <3>1. epochs \in [Epochs -> EpochRow \cup {None}] /\ e \in Epochs /\ epochs[e] \in EpochRow
          /\ epochs[e] # None /\ epochs[e].status = "pending"
      BY <2>2 DEF IInv, Types, TypeOK, WithStatus
    <3>2. run[r].tx \in TxIndex \cup {None}
      BY DEF IInv, Types, TypeOK, RunRecord
    <3>3. /\ row \in EpochRow /\ row.status = "submitted" /\ row.by = epochs[e].by
          /\ row.from = epochs[e].from /\ row.through = epochs[e].through
      BY <3>1, <3>2 DEF EpochRow
    <3>4. row # None
      BY <3>3, NoRowAssumption DEF NoRowAssumption
    <3>5. epochs' = [epochs EXCEPT ![e] = row]
      BY <2>2, <3>1 DEF MarkSubmitted
    <3> HIDE DEF row, e
    <3>6. epochs'[e] = row /\ \A k \in Epochs \ {e} : epochs'[k] = epochs[k]
      BY <3>1, <3>5
    <3>7. ASSUME NEW k \in Epochs
          PROVE  /\ epochs'[k] # None <=> epochs[k] # None
                 /\ epochs[k] # None =>
                      /\ epochs'[k].from = epochs[k].from /\ epochs'[k].through = epochs[k].through
                      /\ epochs'[k].by = epochs[k].by
                      /\ epochs'[k].status = "pending" => epochs[k].status = "pending"
                      /\ epochs'[k].status # "failed" => epochs[k].status # "failed"
                      /\ epochs'[k].status = "confirmed" => epochs[k].status = "confirmed" \/ k <= chainEpoch
      <4>1. CASE k = e
        BY <3>1, <3>3, <3>4, <3>6, <4>1
      <4>2. CASE k # e
        BY <3>6, <4>2
      <4> QED
        BY <4>1, <4>2
    <3> QED
      BY <3>7 DEF RowsGoOn
  <2> QED
    BY <2>1, <2>2
<1> QED
  BY <1>1, <1>2, <1>3, EndFollows

LEMMA RefusalFollows ==
  ASSUME IInv, CInv, NEW r \in Runs, MarkFailed(r)
  PROVE  CInv'
<1>1. RowsOnly /\ UNCHANGED onRecord /\ Goto(r, IdleRun) /\ SetStatus(NextEpoch(r), "pending", "failed")
  BY DEF MarkFailed, RowsOnly, ledgerVars, chainVars
<1>2. RowsGoOn
  BY <1>1, StatusGoesOn DEF IInv, Types
<1> QED
  BY <1>1, <1>2, EndFollows DEF RecordGoesOn

LEMMA PostFollows ==
  ASSUME IInv, CInv, NEW r \in Runs, Invoke(r) \/ InvokeRejected(r)
  PROVE  CInv'
<1>1. UNCHANGED <<nextId, open, spent, late, epochs, onRecord, chainEpoch>>
  BY DEF Invoke, InvokeRejected, ledgerVars
<1>2. run \in [Runs -> RunRecord] /\ run[r] \in RunRecord
  BY DEF IInv, Types, TypeOK
<1>3. RowsGoOn /\ RecordGoesOn
  BY <1>1, RowsLeftGoOn DEF RecordGoesOn
<1>4. chainEpoch \in Nat /\ run[r].chain \in Nat /\ run[r].chain <= chainEpoch
  BY <1>2, MaxTxsNat DEF IInv, Types, TypeOK, RunRecord, CInv, Reach
<1>5. TxsGoOn /\ Landed' = Landed
  <2>1. CASE UNCHANGED txs
    BY <1>1, <2>1, TxsLeft DEF Landed
  <2>2. CASE Broadcast(r)
    <3>1. /\ DOMAIN txs' = DOMAIN txs \cup {Len(txs) + 1}
          /\ \A u \in DOMAIN txs : txs'[u] = txs[u]
          /\ txs'[Len(txs) + 1] = [epoch |-> NextEpoch(r), batch |-> run[r].batch, fate |-> "pool", by |-> r]
          /\ Landed' = Landed
      BY <2>2, BroadcastTyped DEF IInv
    <3> DEFINE sent == Len(txs) + 1
    <3>2. txs'[sent].epoch <= chainEpoch + 1 /\ txs'[sent].fate # "HALT"
      BY <1>4, <3>1 DEF NextEpoch
    <3>3. DOMAIN txs' = DOMAIN txs \cup {sent}
      BY <3>1
    <3> HIDE DEF sent
    <3>4. \A u \in DOMAIN txs' :
            txs'[u].epoch <= chainEpoch' + 1 /\ (txs'[u].fate = "HALT" => txs'[u].epoch <= chainEpoch')
      BY <1>1, <3>1, <3>2, <3>3 DEF CInv, Reach
    <3> QED
      BY <3>1, <3>4 DEF TxsGoOn
  <2> QED
    BY <2>1, <2>2 DEF Invoke, InvokeRejected
<1>6. PICK next :
        /\ run' = [run EXCEPT ![r] = next]
        /\ next.at \in {"record", "reject"}
        /\ next.chain = run[r].chain /\ next.todo = run[r].todo
        /\ next.from = run[r].from /\ next.through = run[r].through
        /\ next.at = "record" =>
             run[r].at = "post" /\ next.sent \notin DOMAIN txs /\ txs'[next.sent].by = r
  <2>1. CASE Invoke(r)
    <3> DEFINE sent == Len(txs) + 1
    <3>1. PICK hash : Goto(r, [run[r] EXCEPT !.at = "record", !.sent = sent, !.tx = hash])
      BY <2>1 DEF Invoke
    <3> DEFINE next == [run[r] EXCEPT !.at = "record", !.sent = sent, !.tx = hash]
    <3>2. /\ next.at = "record" /\ next.sent = sent /\ next.chain = run[r].chain
          /\ next.from = run[r].from /\ next.through = run[r].through /\ next.todo = run[r].todo
      BY <1>2 DEF RunRecord
    <3>3. Broadcast(r) /\ run[r].at = "post"
      BY <2>1 DEF Invoke, Broadcast
    <3>4. sent \notin DOMAIN txs
      BY DEF IInv, Types, ChainCounts
    <3>5. txs'[sent] = [epoch |-> NextEpoch(r), batch |-> run[r].batch, fate |-> "pool", by |-> r]
      BY <3>3, BroadcastTyped DEF IInv
    <3>6. txs'[sent].by = r
      BY <3>5
    <3>7. run' = [run EXCEPT ![r] = next]
      BY <3>1 DEF Goto
    <3> HIDE DEF next, sent
    <3> QED
      BY <3>2, <3>3, <3>4, <3>6, <3>7
  <2>2. CASE InvokeRejected(r)
    <3> DEFINE next == [run[r] EXCEPT !.at = "reject"]
    <3>1. run' = [run EXCEPT ![r] = next]
      BY <2>2 DEF InvokeRejected, Goto
    <3>2. /\ next.at = "reject" /\ next.chain = run[r].chain
          /\ next.from = run[r].from /\ next.through = run[r].through /\ next.todo = run[r].todo
      BY <1>2 DEF RunRecord
    <3> HIDE DEF next
    <3> QED
      BY <3>1, <3>2
  <2> QED
    BY <2>1, <2>2
<1>7. run[r].at = "post"
  BY DEF Invoke, InvokeRejected, Broadcast
<1>8. run'[r] = next /\ \A q \in Runs : q # r => run'[q] = run[q]
  BY <1>2, <1>6
<1>9. HandsGoOn
  BY <1>6, <1>8 DEF HandsGoOn
<1>10. Reach'
  <2>1. \A q \in Runs : run'[q].chain <= chainEpoch'
    BY <1>1, <1>6, <1>8 DEF CInv, Reach
  <2>2. \A k \in Epochs : k <= chainEpoch' => \E t \in Landed' : txs'[t].epoch = k
    <3>1. \A t \in Landed : txs'[t].epoch = txs[t].epoch
      BY <1>5, LandedRuns DEF TxsGoOn, IInv
    <3> QED
      BY <1>1, <1>5, <3>1 DEF CInv, Reach
  <2> QED
    BY <1>1, <1>3, <1>4, <1>5, <2>1, <2>2, ReachKept
<1>11. TodoGood'
  BY <1>5, <1>6, <1>8, TodoKept
<1>12. HandGood'
  BY <1>3, <1>5, <1>6, <1>7, <1>8, HandsKept
<1>13. BaseGood'
  BY <1>1, <1>3, <1>5, <1>9, BaseKept
<1> QED
  BY <1>10, <1>11, <1>12, <1>13 DEF CInv

\* A window starts where all is settled below: a run that prepares the next epoch
\* has submitted and confirmed rows of passed epochs before it.  One that has come
\* late leaves the settlement of its epoch without a row of its own.
LEMMA PrepareFollows ==
  ASSUME IInv, CInv, NEW r \in Runs, Prepare(r)
  PROVE  CInv'
<1> DEFINE e == NextEpoch(r)
           next == [run[r] EXCEPT !.at = "post", !.batch = Batch,
                                  !.from = PendingRow(r).from, !.through = PendingRow(r).through]
<1>1. RowsOnly /\ UNCHANGED onRecord /\ Goto(r, next)
  BY DEF Prepare, RowsOnly, ledgerVars, chainVars
<1>2. e \in Epochs /\ run[r] \in RunRecord /\ run \in [Runs -> RunRecord] /\ chainEpoch \in Nat /\ e \in Nat
  BY NextTyped, MaxTxsNat DEF IInv, Types, TypeOK, Epochs
<1>3. e \notin WithStatus({"submitted", "confirmed"}) /\ epochs' = [epochs EXCEPT ![e] = PendingRow(r)]
  BY DEF Prepare
<1>4. /\ PendingRow(r) \in EpochRow /\ PendingRow(r).from < PendingRow(r).through
      /\ PendingRow(r).status = "pending" /\ PendingRow(r).by = r /\ PendingRow(r).from = WindowStart
  BY WindowTyped DEF IInv, Prepare, PendingRow
<1>5. /\ next.at = "post" /\ next.chain = run[r].chain /\ next.todo = run[r].todo
      /\ next.from = PendingRow(r).from /\ next.through = PendingRow(r).through
  BY <1>2 DEF RunRecord
<1>6. e = run[r].chain + 1 /\ run[r].chain \in Nat /\ run[r].chain <= chainEpoch
  BY <1>2, MaxTxsNat DEF NextEpoch, RunRecord, CInv, Reach
<1> HIDE DEF next
<1>7. run'[r] = next /\ \A q \in Runs : q # r => run'[q] = run[q]
  BY <1>1, <1>2 DEF Goto
<1>8. epochs'[e] = PendingRow(r) /\ \A k \in Epochs : k # e => epochs'[k] = epochs[k]
  BY <1>2, <1>3 DEF IInv, Types, TypeOK
<1>9. UNCHANGED <<txs, chainEpoch, spent, late, onRecord>>
  BY <1>1 DEF RowsOnly
<1>10. ASSUME NEW q \in Runs, q # r, Mine(q)'
       PROVE  Mine(q) /\ NextEpoch(q) # e /\ epochs'[NextEpoch(q)] = epochs[NextEpoch(q)]
  <2> DEFINE g == run[q].chain + 1
  <2>1. g \in Epochs /\ epochs'[g] # None /\ epochs'[g].status = "pending" /\ epochs'[g].by = q
    BY <1>7, <1>10 DEF Mine, WithStatus, NextEpoch
  <2>2. g # e
    BY <1>4, <1>8, <1>10, <2>1
  <2>3. epochs'[g] = epochs[g]
    BY <1>8, <2>1, <2>2
  <2> QED
    BY <2>1, <2>2, <2>3 DEF Mine, WithStatus, NextEpoch
<1> HIDE DEF e
<1>11. Reach'
  <2>1. \A q \in Runs : run'[q].chain <= chainEpoch'
    BY <1>5, <1>7, <1>9 DEF CInv, Reach
  <2>2. ASSUME NEW k \in Epochs, epochs'[k] # None
        PROVE  /\ k <= chainEpoch + 1 /\ epochs'[k].from <= epochs'[k].through
               /\ epochs'[k].status = "confirmed" => k <= chainEpoch
    <3>1. CASE k = e
      <4>1. PendingRow(r).from \in Nat /\ PendingRow(r).through \in Nat
        BY <1>4, MaxTxsNat DEF EpochRow
      <4> QED
        BY <1>2, <1>4, <1>6, <1>8, <3>1, <4>1
    <3>2. CASE k # e
      BY <1>8, <2>2, <3>2 DEF CInv, Reach
    <3> QED
      BY <3>1, <3>2
  <2>3. /\ \A t \in DOMAIN txs :
             txs[t].epoch <= chainEpoch + 1 /\ (txs[t].fate = "HALT" => txs[t].epoch <= chainEpoch)
        /\ \A k \in Epochs : k <= chainEpoch => \E t \in Landed : txs[t].epoch = k
    BY DEF CInv, Reach
  <2> QED
    BY <1>9, <2>1, <2>2, <2>3 DEF Reach, Landed
<1>12. TodoGood'
  BY <1>5, <1>7, <1>9 DEF CInv, TodoGood
<1>13. HandGood'
  <2>1. ASSUME NEW q \in Runs
        PROVE  /\ run'[q].at \in {"post", "record"} /\ Mine(q)' =>
                    /\ epochs'[run'[q].chain + 1].from = run'[q].from
                    /\ epochs'[run'[q].chain + 1].through = run'[q].through
               /\ run'[q].at = "record" => txs'[run'[q].sent].by = q
    <3>1. CASE q = r
      BY <1>5, <1>6, <1>7, <1>8, <3>1
    <3>2. CASE q # r
      BY <1>7, <1>9, <1>10, <3>2 DEF CInv, HandGood, NextEpoch
    <3> QED
      BY <3>1, <3>2
  <2> QED
    BY <2>1 DEF HandGood, NextEpoch
<1>14. ASSUME Kept', NEW t \in Landed
       PROVE  /\ t \in Owned \/ InHand(t)
              /\ txs[t].epoch # e
  <2>1. t \in Landed' /\ txs[t].fate = "HALT" /\ txs[t].epoch \in Epochs
    BY <1>9, LandedRuns DEF Landed, IInv
  <2>2. CASE t \in Owned'
    <3>1. t \in onRecord /\ epochs'[txs[t].epoch].by = txs[t].by
      BY <1>9, <2>2 DEF Owned
    <3>2. txs[t].epoch \in WithStatus({"submitted", "confirmed"})
      BY <2>1, <3>1 DEF IInv, OnRecordGood, OwnRow
    <3>3. txs[t].epoch # e /\ epochs'[txs[t].epoch] = epochs[txs[t].epoch]
      BY <1>3, <1>8, <2>1, <3>2 DEF e
    <3> QED
      BY <3>1, <3>3 DEF Owned
  <2>3. CASE InHand(t)'
    <3>1. PICK q \in Runs : run'[q].at = "record" /\ run'[q].sent = t /\ Mine(q)'
      BY <2>3 DEF InHand
    <3>2. q # r /\ run'[q] = run[q]
      BY <1>5, <1>7, <3>1
    <3>3. Mine(q) /\ NextEpoch(q) # e
      BY <1>10, <3>1, <3>2
    <3>4. txs[t].epoch = NextEpoch(q)
      BY <3>1, <3>2 DEF IInv, SentGood
    <3> QED
      BY <3>1, <3>2, <3>3, <3>4 DEF InHand
  <2> QED
    BY <1>14, <2>1, <2>2, <2>3 DEF Kept
<1>15. BaseGood'
  <2> SUFFICES ASSUME Kept', NEW k \in Live'
               PROVE  Base(epochs[k].from)'
    BY DEF BaseGood
  <2>1. Kept
    BY <1>14 DEF Kept
  <2>2. e = chainEpoch + 1
    <3> SUFFICES ASSUME e <= chainEpoch
                 PROVE  FALSE
      BY <1>2, <1>6
    <3>1. PICK t \in Landed : txs[t].epoch = e
      BY <1>2 DEF CInv, Reach
    <3> QED
      BY <1>14, <3>1
  <2>3. ASSUME NEW g \in WithStatus({"submitted", "confirmed"})
        PROVE  Base(epochs[g].through)
    <3>1. g \in Epochs /\ epochs[g] # None /\ g # e
      BY <1>3 DEF WithStatus, e
    <3>2. g <= chainEpoch
      BY <1>2, <2>2, <3>1, MaxTxsNat DEF CInv, Reach, Epochs
    <3> QED
      BY <2>1, <3>2, PassedSettled
  <2>4. Base(WindowStart)
    <3>1. \A s \in spent : ~(s.id <= 0)
      BY MaxTxsNat DEF IInv, Types, TypeOK, Spend
    <3>2. Base(0)
      BY <3>1 DEF Base
    <3>3. WindowStart = 0 \/ \E g \in WithStatus({"submitted", "confirmed"}) : WindowStart = epochs[g].through
      BY ThroughTyped DEF WindowStart, IInv, Types
    <3> QED
      BY <2>3, <3>2, <3>3
  <2>5. Base(epochs'[k].from)
    <3>1. k \in Epochs /\ epochs'[k] # None /\ epochs'[k].status \in {"pending", "submitted", "confirmed"}
      BY DEF Live, WithStatus
    <3>2. CASE k = e
      BY <1>4, <1>8, <2>4, <3>2
    <3>3. CASE k # e
      <4>1. k \in Live /\ epochs'[k] = epochs[k]
        BY <1>8, <3>1, <3>3 DEF Live, WithStatus
      <4> QED
        BY <2>1, <4>1 DEF CInv, BaseGood
    <3> QED
      BY <3>2, <3>3
  <2>6. Settled' = Settled
    BY <1>9 DEF Settled, Landed
  <2> QED
    BY <1>9, <2>5, <2>6 DEF Base
<1> QED
  BY <1>11, <1>12, <1>13, <1>15 DEF CInv

LEMMA SettledInductive ==
  ASSUME IInv, CInv, [Next]_vars
  PROVE  CInv'
<1>1. CASE UNCHANGED vars
  BY <1>1 DEF vars, CInv, Reach, TodoGood, HandGood, BaseGood, Kept, Owned, InHand, Mine, NextEpoch, Base, Live,
              Landed, Settled, WithStatus
<1>2. ASSUME NEW r \in Runs, NothingToSettle(r) \/ PrepareRefused(r) \/ Crash(r)
      PROVE  CInv'
  <2>1. RowsOnly /\ UNCHANGED <<epochs, onRecord>> /\ Goto(r, IdleRun)
    BY <1>2 DEF NothingToSettle, PrepareRefused, Crash, RowsOnly, ledgerVars, chainVars
  <2> QED
    BY <2>1, RowsLeftGoOn, EndFollows DEF RecordGoesOn
<1>3. ASSUME NEW r \in Runs, RunStep(r) \/ RunFault(r)
      PROVE  CInv'
  BY <1>2, <1>3, ReadFollows, LoadFollows, LooksFollow, PrepareFollows, PostFollows, SubmitFollows, RefusalFollows
     DEF RunStep, RunFault, Looks
<1> QED
  BY <1>1, <1>3, SpendsFollow, ChainFollows DEF Next

-----------------------------------------------------------------------------
\* The theorems.

\* The state of the settler keeps its type: no order of runs, spends and faults
\* makes a window end before its first spend or an epoch run past the chain.
THEOREM TypeCorrect == Spec => []TypeOK
<1>1. IInv => TypeOK
  BY DEF IInv, Types
<1> QED
  BY <1>1, InitTyped, Inductive, PTL DEF Spec

\* The row of a settlement on record that has landed tells which spends the
\* settlement holds.
THEOREM RowsTellWindows == Spec => []ExactWindows
<1>1. ASSUME IInv, NEW e \in WithStatus({"submitted", "confirmed"}),
             epochs[e].tx # None, epochs[e].tx \in Landed \cap onRecord
      PROVE  LET window == {s \in spent : epochs[e].from < s.id /\ s.id <= epochs[e].through}
             IN  /\ window \ late \subseteq txs[epochs[e].tx].batch
                 /\ txs[epochs[e].tx].batch \subseteq window
  <2>1. txs[epochs[e].tx].epoch = e
    BY <1>1 DEF IInv, RowGood
  <2>2. OwnRow(epochs[e].tx)
    BY <1>1 DEF IInv, OnRecordGood, Landed
  <2>3. Holds(txs[epochs[e].tx].batch, epochs[e].from, epochs[e].through)
    BY <2>1, <2>2 DEF OwnRow
  <2> QED
    BY <2>3 DEF Holds
<1>2. IInv => ExactWindows
  BY <1>1 DEF ExactWindows
<1> QED
  BY <1>2, InitTyped, Inductive, PTL DEF Spec

\* Up to the end of a confirmed window every spend is on the chain, but those that
\* committed late, as long as each settlement that landed is on record in the row
\* of its own run.
THEOREM ConfirmedIsSettled == Spec => []ConfirmedSettled
<1>1. ASSUME IInv, CInv
      PROVE  ConfirmedSettled
  <2> SUFFICES ASSUME Landed \subseteq Owned, NEW e \in WithStatus({"confirmed"})
               PROVE  Upto(spent, epochs[e].through) \ late \subseteq Settled
    BY DEF ConfirmedSettled
  <2>1. Kept
    BY DEF Kept
  <2>2. e \in WithStatus({"submitted", "confirmed"}) /\ e <= chainEpoch
    BY <1>1 DEF WithStatus, CInv, Reach
  <2>3. Base(epochs[e].through)
    BY <1>1, <2>1, <2>2, PassedSettled
  <2> QED
    BY <2>3 DEF Base, Upto
<1>2. IInv /\ CInv => ConfirmedSettled
  BY <1>1
<1>3. IInv /\ CInv /\ [Next]_vars => (IInv /\ CInv)'
  BY Inductive, SettledInductive
<1>4. Init => IInv /\ CInv
  BY InitTyped, InitFollows
<1> QED
  BY <1>2, <1>3, <1>4, PTL DEF Spec

\* A run never prepares a spend that a settlement on record has posted or may
\* still post.
THEOREM NothingPreparedTwice == Spec => NeverPreparedAgain
<1> DEFINE Fresh ==
      \A r \in Runs :
        run[r].at = "reconcile" /\ run'[r].at = "post" =>
          \A t \in onRecord :
            txs[t].fate \in {"pool", "HALT"} => run'[r].batch \cap txs[t].batch = {}
<1>1. ASSUME IInv, [Next]_vars
      PROVE  [Fresh]_vars
  <2> SUFFICES ASSUME NEW r \in Runs, run[r].at = "reconcile", run'[r].at = "post",
                      NEW t \in onRecord, txs[t].fate \in {"pool", "HALT"}
               PROVE  run'[r].batch \cap txs[t].batch = {}
    OBVIOUS
  <2>1. run \in [Runs -> RunRecord] /\ run'[r] # run[r]
    BY <1>1 DEF IInv, Types, TypeOK
  <2>2. Prepare(r)
    <3>1. ASSUME NEW q \in Runs, q # r, RunStep(q) \/ RunFault(q)
          PROVE  run'[r] = run[r]
      BY <2>1, <3>1 DEF RunStep, RunFault, ReadChainEpoch, LoadSubmitted, ReconcileByLog, ReconcileUnexecuted,
           ReconcileByProgress, ReconcileByTimeout, ReconcileWaits, ReconcileLogFails, Resolve,
           NothingToSettle, PrepareRefused, Prepare, Invoke, InvokeRejected, MarkSubmitted, MarkFailed,
           Crash, Goto
    <3>2. UNCHANGED run \/ RunStep(r) \/ RunFault(r)
      BY <1>1, <2>1, <3>1 DEF Next, vars, SpendStep, SpendInsert, SpendCommit, SpendRollback, ChainStep,
           Land, LandFaults, Vanish
    <3>3. CASE Looks(r)
      <4>1. run[r] \in RunRecord
        BY <2>1
      <4>2. run'[r] = IdleRun \/ run'[r] = [run[r] EXCEPT !.todo = @ \ {First(r)}]
        BY <2>1, <3>3, LooksAt DEF Outcome, Goto, Resolve
      <4> QED
        BY <4>1, <4>2, IdleTyped DEF RunRecord
    <3>4. CASE NothingToSettle(r) \/ PrepareRefused(r) \/ Crash(r)
      BY <2>1, <3>4, IdleTyped DEF NothingToSettle, PrepareRefused, Crash, Goto
    <3> QED
      BY <2>1, <3>2, <3>3, <3>4 DEF RunStep, RunFault, Looks, ReadChainEpoch, LoadSubmitted, Invoke, Broadcast,
           InvokeRejected, MarkSubmitted, MarkFailed
  <2>3. run'[r].batch = Batch
    BY <2>1, <2>2 DEF Prepare, Goto, RunRecord
  <2>4. \A s \in Batch : s.id > WindowStart
    BY <1>1, <2>2, WindowTyped DEF IInv, Prepare
  <2>5. OwnRow(t)
    BY <1>1 DEF IInv, OnRecordGood
  <2>6. epochs[txs[t].epoch].through <= WindowStart /\ WindowStart \in 0..MaxId
    BY <1>1, <2>5, ThroughTyped DEF IInv, Types, OwnRow, WindowStart
  <2>7. epochs[txs[t].epoch].through \in 1..MaxId
    BY <1>1, <2>5 DEF IInv, Types, TypeOK, OwnRow, WithStatus, EpochRow
  <2>8. \A s \in txs[t].batch : s \in spent /\ s.id <= epochs[txs[t].epoch].through
    BY <2>5 DEF OwnRow, Holds
  <2>9. \A s \in txs[t].batch : s.id \in 1..MaxId
    BY <1>1, <2>8 DEF IInv, Types, TypeOK, Spend
  <2>10. \A s \in txs[t].batch : ~(s.id > WindowStart)
    BY MaxTxsNat, <2>6, <2>7, <2>8, <2>9
  <2> QED
    BY <2>3, <2>4, <2>10
<1>2. IInv /\ [Next]_vars => [Fresh]_vars
  BY <1>1
<1> QED
  BY <1>2, InitTyped, Inductive, PTL DEF Spec, NeverPreparedAgain
=============================================================================
