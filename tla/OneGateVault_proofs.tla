------------------------ MODULE OneGateVault_proofs ------------------------
(***************************************************************************)
(* Proofs about OneGateVault, for any number of keys, wallets, claim calls *)
(* and polls and for every pool and every bound.                           *)
(***************************************************************************)
EXTENDS OneGateVault, FiniteSums, TLAPS

\* A row is bound as a whole, to a request that has been drawn.
RowGood ==
  \A k \in Keys :
    /\ row[k].wallet = None => row[k].status = "unused" /\ row[k].req = None
    /\ row[k].wallet # None => row[k].req \in ReqId /\ row[k].req < nextReq
    /\ row[k].status # "unused" => row[k].wallet # None

\* A payment pays what the row of its key holds, if it is for the row's request.
TxGood ==
  \A t \in DOMAIN txs :
    /\ txs[t].req < nextReq
    /\ row[txs[t].key].req = txs[t].req =>
         row[txs[t].key].wallet = txs[t].wallet /\ row[txs[t].key].amount = txs[t].amount

\* A call holds what the row holds, if the row still has the call's request.
CallKnows(x) ==
  /\ x.key \in Keys /\ x.req \in ReqId /\ x.req < nextReq /\ x.wallet \in Wallets
  /\ row[x.key].req = x.req => row[x.key].wallet = x.wallet /\ row[x.key].amount = x.amount
  /\ x.at \in {"wait", "mark"} =>
       x.tx \in DOMAIN txs /\ txs[x.tx].key = x.key /\ txs[x.tx].req = x.req
  /\ x.at = "mark" => x.status \in {"submitted", "paid"}
  /\ x.at = "mark" /\ x.status = "paid" => txs[x.tx].fate = "HALT"
CallGood == \A c \in Calls : call[c].at # "idle" => CallKnows(call[c])

PollKnows(x) == x.tx \in DOMAIN txs /\ txs[x.tx].key = x.key /\ txs[x.tx].req = x.req
PollGood == \A p \in Polls : poll[p] # None => PollKnows(poll[p])

\* Payments that have not been given up: TxProxy remembers their request, the
\* row still waits for it, and there is one of them for a key.
Live(t) == t \notin writtenOff /\ txs[t].fate \in {"pool", "HALT"}
LiveGood ==
  /\ \A t \in DOMAIN txs : Live(t) =>
       /\ txs[t].req \in seen
       /\ row[txs[t].key].req = txs[t].req
       /\ row[txs[t].key].status # "failed"
  /\ \A t, u \in DOMAIN txs : Live(t) /\ Live(u) /\ txs[t].key = txs[u].key => t = u

IInv == TypeOK /\ RowGood /\ RowsTruthful /\ TxGood /\ CallGood /\ PollGood /\ LiveGood

\* TypeOK without the calls.
TypeRest ==
  /\ row \in [Keys -> KeyRow]
  /\ remaining \in 0..PoolAmount /\ claimed \in 0..MaxClaims
  /\ nextReq \in 1..(MaxReqs + 1)
  /\ seen \subseteq ReqId
  /\ txs \in Seq(Payment) /\ Len(txs) <= MaxTxs
  /\ writtenOff \subseteq DOMAIN txs
  /\ poll \in [Polls -> PollRecord \cup {None}]
  /\ faults \in 0..MaxFaults

\* What the tables and the chain promise together.
World == RowGood /\ RowsTruthful /\ TxGood /\ LiveGood

\* What calls and polls know of payments and rows stays true in every step.
Keeps ==
  /\ nextReq <= nextReq'
  /\ \A t \in DOMAIN txs :
       /\ t \in DOMAIN txs'
       /\ txs'[t].key = txs[t].key /\ txs'[t].req = txs[t].req
       /\ txs[t].fate = "HALT" => txs'[t].fate = "HALT"
  /\ \A k \in Keys :
       \/ row'[k].req = nextReq
       \/ row'[k].req = row[k].req /\ row'[k].wallet = row[k].wallet /\ row'[k].amount = row[k].amount

-----------------------------------------------------------------------------
LEMMA TxFacts ==
  ASSUME TypeOK
  PROVE  /\ Len(txs) \in Nat /\ DOMAIN txs = 1..Len(txs)
         /\ \A t \in DOMAIN txs :
              /\ t \in TxIndex
              /\ txs[t] \in Payment
              /\ txs[t].key \in Keys /\ txs[t].req \in ReqId /\ txs[t].req # None
<1>1. Len(txs) \in Nat /\ DOMAIN txs = 1..Len(txs) /\ \A t \in DOMAIN txs : txs[t] \in Payment
  BY DEF TypeOK
<1>2. MaxTxs \in Nat /\ MaxReqs \in Nat /\ None \notin Nat
  BY VaultAssumption
<1> QED
  BY <1>1, <1>2 DEF TypeOK, Payment, TxIndex, ReqId

LEMMA RowFacts ==
  ASSUME TypeOK
  PROVE  /\ row \in [Keys -> KeyRow]
         /\ \A k \in Keys :
              /\ row[k].status \in Statuses /\ row[k].wallet \in Wallets \cup {None}
              /\ row[k].amount \in 0..PoolAmount
              /\ row[k].req \in ReqId \cup {None} /\ row[k].tx \in TxIndex \cup {None}
BY DEF TypeOK, KeyRow

LEMMA CallKept ==
  ASSUME TypeOK, TypeOK', Keeps, NEW c \in Calls, CallKnows(call[c]),
         call'[c] \in {call[c], [call[c] EXCEPT !.at = "fail"]}
  PROVE  CallKnows(call[c])'
<1> DEFINE x == call[c]
<1>1. call'[c].key = x.key /\ call'[c].req = x.req /\ call'[c].wallet = x.wallet
      /\ call'[c].amount = x.amount /\ call'[c].tx = x.tx /\ call'[c].status = x.status
      /\ call'[c].at \in {x.at, "fail"}
  BY DEF TypeOK, CallRecord
<1>2. x.req < nextReq' /\ x.req # nextReq
  BY DEF CallKnows, TypeOK, Keeps, ReqId
<1> QED
  BY <1>1, <1>2 DEF CallKnows, Keeps

LEMMA CallsKept ==
  ASSUME TypeOK, TypeOK', Keeps, CallGood,
         \A c \in Calls : call'[c] \in {call[c], [call[c] EXCEPT !.at = "fail"], Idle}
                          /\ (call'[c] = [call[c] EXCEPT !.at = "fail"] => call[c].at # "idle")
  PROVE  CallGood'
<1> SUFFICES ASSUME NEW c \in Calls, (call[c].at # "idle")'
             PROVE  CallKnows(call[c])'
  BY DEF CallGood
<1>1. call'[c] # Idle
  BY DEF Idle
<1>2. call[c].at # "idle"
  BY <1>1
<1> QED
  BY <1>1, <1>2, CallKept DEF CallGood

LEMMA PollsKept ==
  ASSUME Keeps, PollGood, \A p \in Polls : poll'[p] \in {poll[p], None}
  PROVE  PollGood'
BY DEF Keeps, PollGood, PollKnows

\* Steps of calls and polls that touch neither row nor payment.
LEMMA QuietWorld ==
  ASSUME IInv, UNCHANGED <<row, nextReq, txs, writtenOff>>, seen \subseteq seen'
  PROVE  World' /\ Keeps
<1>1. RowGood' /\ TxGood' /\ RowsTruthful'
  BY DEF IInv, RowGood, TxGood, RowsTruthful, Landed
<1>2. LiveGood'
  BY DEF IInv, LiveGood, Live
<1>3. Keeps
  BY DEF IInv, TypeOK, Keeps
<1> QED
  BY <1>1, <1>2, <1>3 DEF World

\* Recording a payment of the row's own request.
LEMMA SettleWorld ==
  ASSUME IInv, NEW k \in Keys, NEW t \in DOMAIN txs, NEW status \in {"submitted", "paid"},
         row[k].req = txs[t].req, txs[t].key = k,
         status = "paid" => txs[t].fate = "HALT",
         Settle(k, status, t), UNCHANGED <<nextReq, seen, txs, writtenOff>>
  PROVE  World' /\ Keeps
<1>1. /\ row'[k].status = status /\ row'[k].tx = t
      /\ \A j \in Keys \ {k} : row'[j] = row[j]
      /\ \A j \in Keys : row'[j].req = row[j].req /\ row'[j].wallet = row[j].wallet
                         /\ row'[j].amount = row[j].amount
  BY RowFacts DEF Settle, IInv, KeyRow
<1>2. row[k].wallet # None
  BY TxFacts DEF IInv, RowGood
<1>3. RowGood'
  BY <1>1, <1>2 DEF IInv, RowGood
<1>4. TxGood'
  BY <1>1, TxFacts DEF IInv, TxGood
<1>5. RowsTruthful'
  BY <1>1 DEF IInv, RowsTruthful, Landed, TxGood
<1>6. LiveGood'
  BY <1>1, TxFacts DEF IInv, LiveGood, Live
<1>7. Keeps
  BY <1>1 DEF Keeps, IInv, TypeOK
<1> QED
  BY <1>3, <1>4, <1>5, <1>6, <1>7 DEF World

\* Giving up the payments of a request, and marking its row failed.
LEMMA WriteOffWorld ==
  ASSUME IInv, NEW k \in Keys, NEW r,
         WriteOff(k, r), UNCHANGED <<nextReq, seen, txs>>
  PROVE  World' /\ Keeps
<1>1. CASE UNCHANGED <<row, writtenOff>>
  BY <1>1, QuietWorld
<1>2. CASE /\ row[k].req = r /\ row[k].status \in Failable
           /\ row' = [row EXCEPT ![k].status = "failed"]
           /\ writtenOff' = writtenOff \cup Viable(r)
  <2>1. /\ row'[k].status = "failed"
        /\ \A j \in Keys \ {k} : row'[j] = row[j]
        /\ \A j \in Keys : row'[j].req = row[j].req /\ row'[j].wallet = row[j].wallet
                           /\ row'[j].amount = row[j].amount
    BY <1>2, RowFacts DEF IInv, KeyRow
  <2>2. row[k].wallet # None
    BY <1>2 DEF IInv, RowGood, Failable
  <2>3. RowGood' /\ TxGood'
    BY <2>1, <2>2, TxFacts DEF IInv, RowGood, TxGood
  <2>4. RowsTruthful'
    BY <2>1 DEF IInv, RowsTruthful, Landed
  <2>5. \A t \in DOMAIN txs : Live(t)' => Live(t) /\ txs[t].key # k
    BY <1>2 DEF Live, Viable, IInv, LiveGood
  <2>6. LiveGood'
    BY <2>1, <2>5, TxFacts DEF IInv, LiveGood
  <2>7. Keeps
    BY <2>1 DEF Keeps, IInv, TypeOK
  <2> QED
    BY <2>3, <2>4, <2>6, <2>7 DEF World
<1> QED
  BY <1>1, <1>2 DEF WriteOff, Matches

\* A key gets a request of its own: it had none, or has given the last one up.
LEMMA NewRequestWorld ==
  ASSUME IInv, NEW k \in Keys, Room, nextReq' = nextReq + 1,
         row[k].wallet = None \/ row[k].status = "failed",
         row' \in [Keys -> KeyRow], \A j \in Keys \ {k} : row'[j] = row[j],
         row'[k].req = nextReq, row'[k].status = "pending", row'[k].wallet # None,
         UNCHANGED <<seen, txs, writtenOff>>
  PROVE  World' /\ Keeps
<1>1. nextReq \in ReqId /\ nextReq \in Nat
  BY VaultAssumption DEF IInv, TypeOK, Room, ReqId
<1>2. RowGood'
  BY <1>1, VaultAssumption DEF IInv, RowGood, ReqId
<1>3. TxGood'
  BY <1>1, TxFacts DEF IInv, TxGood, ReqId
<1>4. RowsTruthful'
  BY DEF IInv, RowsTruthful, Landed
<1>5. \A t \in DOMAIN txs : Live(t)' => Live(t) /\ txs[t].key # k
  BY TxFacts DEF Live, IInv, LiveGood, RowGood
<1>6. LiveGood'
  BY <1>5, TxFacts DEF IInv, LiveGood
<1>7. Keeps
  BY <1>1 DEF Keeps, IInv, TypeOK
<1> QED
  BY <1>2, <1>3, <1>4, <1>6, <1>7 DEF World

\* A payment is broadcast under a request TxProxy has not seen.
LEMMA BroadcastWorld ==
  ASSUME IInv, NEW c \in Calls, Broadcast(c)
  PROVE  World' /\ Keeps /\ txs' \in Seq(Payment) /\ Len(txs') <= MaxTxs
         /\ Len(txs) + 1 \in DOMAIN txs' /\ writtenOff' \subseteq DOMAIN txs'
         /\ txs'[Len(txs) + 1].key = call[c].key /\ txs'[Len(txs) + 1].req = call[c].req
<1> DEFINE new == [key |-> call[c].key, req |-> call[c].req, wallet |-> call[c].wallet,
                   amount |-> call[c].amount, fate |-> "pool"]
<1>0. PICK n : n = Len(txs) + 1
  OBVIOUS
<1>1. /\ CallKnows(call[c]) /\ call[c].amount \in Nat
      /\ call[c].key \in Keys /\ call[c].req \in ReqId /\ call[c].req < nextReq
      /\ call[c].wallet \in Wallets
  BY VaultAssumption DEF IInv, CallGood, Broadcast, CallKnows, TypeOK, CallRecord
<1>2. new \in Payment
  BY <1>1 DEF Payment
<1>3. /\ txs' = Append(txs, new) /\ txs \in Seq(Payment) /\ Len(txs) < MaxTxs
      /\ seen' = seen \cup {call[c].req} /\ call[c].req \notin seen
      /\ UNCHANGED <<row, nextReq>>
      /\ writtenOff' = IF Awaited(c) THEN writtenOff ELSE writtenOff \cup {n}
  BY <1>0 DEF Broadcast, IInv, TypeOK, pool
<1>4. /\ txs' \in Seq(Payment) /\ Len(txs') = n /\ n \in Nat /\ Len(txs) \in Nat
      /\ DOMAIN txs = 1..Len(txs) /\ DOMAIN txs' = 1..n
      /\ txs'[n] = new /\ \A t \in DOMAIN txs : txs'[t] = txs[t]
  BY <1>0, <1>2, <1>3
<1>5. /\ DOMAIN txs' = DOMAIN txs \cup {n} /\ n \notin DOMAIN txs /\ n <= MaxTxs
      /\ writtenOff \subseteq DOMAIN txs
  BY <1>0, <1>3, <1>4, VaultAssumption, SMTT(30) DEF IInv, TypeOK
<1>6. RowGood' /\ TxGood'
  BY <1>1, <1>3, <1>4, <1>5 DEF IInv, RowGood, TxGood, CallKnows
<1>7. RowsTruthful'
  BY <1>3, <1>4, <1>5 DEF IInv, RowsTruthful, Landed
<1>8. LiveGood'
  <2>1. \A t \in DOMAIN txs : Live(t)' => Live(t)
    BY <1>3, <1>4 DEF Live
  <2>2. Live(n)' => row[call[c].key].req = call[c].req /\ row[call[c].key].status = "pending"
    BY <1>3 DEF Live, Awaited
  <2>3. \A t \in DOMAIN txs : Live(t)' /\ Live(n)' => txs[t].key # call[c].key
    BY <1>3, <2>1, <2>2 DEF IInv, LiveGood
  <2>4. \A t \in DOMAIN txs' : Live(t)' =>
          /\ txs'[t].req \in seen'
          /\ row'[txs'[t].key].req = txs'[t].req
          /\ row'[txs'[t].key].status # "failed"
    BY <1>3, <1>4, <1>5, <2>1, <2>2 DEF IInv, LiveGood
  <2>5. \A t, u \in DOMAIN txs' : Live(t)' /\ Live(u)' /\ txs'[t].key = txs'[u].key => t = u
    BY <1>3, <1>4, <1>5, <2>1, <2>3 DEF IInv, LiveGood
  <2> QED
    BY <2>4, <2>5 DEF LiveGood
<1>9. Keeps
  BY <1>3, <1>4, <1>5 DEF Keeps, IInv, TypeOK
<1>10. writtenOff' \subseteq DOMAIN txs'
  BY <1>3, <1>5
<1> QED
  BY <1>0, <1>3, <1>4, <1>5, <1>6, <1>7, <1>8, <1>9, <1>10 DEF World

\* The chain decides on a payment.
LEMMA FateWorld ==
  ASSUME IInv, NEW t \in DOMAIN txs, NEW fate \in {"HALT", "FAULT", "gone"}, SetFate(t, fate)
  PROVE  World' /\ Keeps /\ txs' \in Seq(Payment) /\ Len(txs') = Len(txs)
         /\ DOMAIN txs' = DOMAIN txs
<1>1. /\ txs' = [txs EXCEPT ![t] = [txs[t] EXCEPT !.fate = fate]] /\ txs \in Seq(Payment)
      /\ txs[t].fate = "pool"
      /\ UNCHANGED <<row, nextReq, seen, writtenOff>>
  BY DEF SetFate, pool, IInv, TypeOK
<1>2. [txs[t] EXCEPT !.fate = fate] \in Payment
  BY TxFacts DEF IInv, Payment
<1>3. txs' \in Seq(Payment) /\ Len(txs') = Len(txs) /\ DOMAIN txs' = DOMAIN txs
  BY <1>1, <1>2
<1>4. /\ txs'[t].fate = fate
      /\ \A u \in DOMAIN txs \ {t} : txs'[u] = txs[u]
      /\ \A u \in DOMAIN txs : txs'[u].key = txs[u].key /\ txs'[u].req = txs[u].req
                               /\ txs'[u].wallet = txs[u].wallet /\ txs'[u].amount = txs[u].amount
  BY <1>1, TxFacts DEF IInv, Payment
<1>5. RowGood' /\ TxGood'
  BY <1>1, <1>3, <1>4 DEF IInv, RowGood, TxGood
<1>6. RowsTruthful'
  BY <1>1, <1>3, <1>4 DEF IInv, RowsTruthful, Landed
<1>7. \A u \in DOMAIN txs : Live(u)' => Live(u)
  BY <1>1, <1>4 DEF Live
<1>8. LiveGood'
  BY <1>1, <1>3, <1>4, <1>7 DEF IInv, LiveGood
<1>9. Keeps
  BY <1>1, <1>3, <1>4 DEF Keeps, IInv, TypeOK
<1> QED
  BY <1>3, <1>5, <1>6, <1>8, <1>9 DEF World

\* TxProxy forgets a request.
LEMMA ExpiryWorld ==
  ASSUME IInv, NEW r \in seen, SeenExpires(r)
  PROVE  World' /\ Keeps
<1>1. /\ seen' = seen \ {r} /\ writtenOff' = writtenOff \cup Viable(r)
      /\ UNCHANGED <<row, nextReq, txs>>
  BY DEF SeenExpires, pool
<1>2. RowGood' /\ TxGood' /\ RowsTruthful' /\ Keeps
  BY <1>1 DEF IInv, TypeOK, RowGood, TxGood, RowsTruthful, Landed, Keeps
<1>3. \A t \in DOMAIN txs : Live(t)' => Live(t) /\ txs[t].req # r
  BY <1>1 DEF Live, Viable
<1>4. LiveGood'
  BY <1>1, <1>3 DEF IInv, LiveGood
<1> QED
  BY <1>2, <1>4 DEF World

-----------------------------------------------------------------------------
\* Steps in which a call, if any moves, fails or ends.
LEMMA CallLetsGo ==
  ASSUME IInv, TypeRest', World', Keeps, PollGood',
         \/ call' = call
         \/ \E c \in Calls : Goto(c, Idle) \/ (call[c].at # "idle" /\ Fail(c))
  PROVE  IInv'
<1>1. Idle \in CallRecord
  BY VaultAssumption DEF Idle, CallRecord
<1>2. \A c \in Calls : [call[c] EXCEPT !.at = "fail"] \in CallRecord
  <2> TAKE c \in Calls
  <2>1. call[c] \in CallRecord
    BY DEF IInv, TypeOK
  <2> QED
    BY <2>1 DEF CallRecord
<1>3. call \in [Calls -> CallRecord]
  BY DEF IInv, TypeOK
<1>4. call' \in [Calls -> CallRecord]
  BY <1>1, <1>2, <1>3 DEF Goto, Fail
<1>5. TypeOK /\ TypeOK'
  BY <1>4 DEF IInv, TypeOK, TypeRest
<1>6. \A c \in Calls : [call[c] EXCEPT !.at = "fail"].at = "fail" /\ Idle.at = "idle"
  BY <1>3 DEF CallRecord, Idle
<1>7. \A c \in Calls : /\ call'[c] \in {call[c], [call[c] EXCEPT !.at = "fail"], Idle}
                       /\ call'[c] = [call[c] EXCEPT !.at = "fail"] => call[c].at # "idle"
  BY <1>3, <1>6 DEF Goto, Fail
<1>8. CallGood'
  BY <1>5, <1>7, CallsKept DEF IInv
<1> QED
  BY <1>5, <1>8 DEF IInv, World

\* Steps in which one call goes on with what it knows.
LEMMA CallGoesOn ==
  ASSUME IInv, TypeRest', World', Keeps, UNCHANGED poll,
         NEW c \in Calls, call'[c] \in CallRecord, CallKnows(call[c])',
         call' = [call EXCEPT ![c] = call'[c]]
  PROVE  IInv'
<1>1. call \in [Calls -> CallRecord]
  BY DEF IInv, TypeOK
<1>2. call' \in [Calls -> CallRecord] /\ \A d \in Calls \ {c} : call'[d] = call[d]
  BY <1>1
<1>3. TypeOK /\ TypeOK'
  BY <1>2 DEF IInv, TypeOK, TypeRest
<1>4. ASSUME NEW d \in Calls, call'[d].at # "idle" PROVE CallKnows(call[d])'
  BY <1>2, <1>3, <1>4, CallKept DEF IInv, CallGood
<1>5. PollGood'
  BY PollsKept DEF IInv
<1> QED
  BY <1>3, <1>4, <1>5 DEF IInv, World, CallGood

\* The types of what quiet steps leave alone.
LEMMA QuietType ==
  ASSUME IInv, UNCHANGED <<row, pool, txs, writtenOff>>, seen' \subseteq ReqId,
         poll' \in [Polls -> PollRecord \cup {None}], UNCHANGED faults \/ Fault
  PROVE  TypeRest'
BY VaultAssumption DEF IInv, TypeOK, TypeRest, pool, Fault

LEMMA PollType == ASSUME IInv PROVE poll \in [Polls -> PollRecord \cup {None}] /\ seen \subseteq ReqId
BY DEF IInv, TypeOK

LEMMA CallQuiet ==
  ASSUME IInv, UNCHANGED <<row, pool, txs, writtenOff, poll>>, seen \subseteq seen',
         seen' \subseteq ReqId, UNCHANGED faults \/ Fault,
         NEW c \in Calls, call[c].at # "idle", Fail(c) \/ Goto(c, Idle)
  PROVE  IInv'
<1>1. TypeRest'
  BY QuietType, PollType
<1>2. World' /\ Keeps
  BY QuietWorld DEF pool
<1>3. PollGood'
  BY <1>2, PollsKept DEF IInv
<1>4. \E d \in Calls : Goto(d, Idle) \/ (call[d].at # "idle" /\ Fail(d))
  OBVIOUS
<1> QED
  BY <1>1, <1>2, <1>3, <1>4, CallLetsGo

\* Updates of a row by the outcome of a payment.
LEMMA OutcomeType ==
  ASSUME IInv, UNCHANGED <<pool, seen, txs>>, UNCHANGED faults \/ Fault,
         poll' \in [Polls -> PollRecord \cup {None}],
         \/ UNCHANGED <<row, writtenOff>>
         \/ UNCHANGED writtenOff /\ \E k \in Keys, t \in DOMAIN txs, status \in Statuses : Settle(k, status, t)
         \/ \E k \in Keys, r \in ReqId : WriteOff(k, r)
  PROVE  TypeRest'
<1>1. row' \in [Keys -> KeyRow]
  <2>1. row \in [Keys -> KeyRow]
    BY RowFacts DEF IInv
  <2>2. ASSUME NEW k \in Keys, NEW t \in DOMAIN txs, NEW status \in Statuses, Settle(k, status, t)
        PROVE  row' \in [Keys -> KeyRow]
    <3>1. t \in TxIndex
      BY TxFacts DEF IInv
    <3>2. row' = [row EXCEPT ![k] = [row[k] EXCEPT !.status = status, !.tx = t]]
      BY <2>1, <2>2 DEF Settle
    <3>3. [row[k] EXCEPT !.status = status, !.tx = t] \in KeyRow
      BY <2>1, <3>1 DEF KeyRow
    <3> QED
      BY <2>1, <3>2, <3>3
  <2>3. ASSUME NEW k \in Keys, row' = [row EXCEPT ![k].status = "failed"]
        PROVE  row' \in [Keys -> KeyRow]
    BY <2>1, <2>3 DEF KeyRow, Statuses
  <2> QED
    BY <2>1, <2>2, <2>3 DEF WriteOff
<1>2. writtenOff' \subseteq DOMAIN txs
  BY DEF IInv, TypeOK, WriteOff, Viable
<1> QED
  BY <1>1, <1>2, VaultAssumption DEF IInv, TypeOK, TypeRest, pool, Fault

-----------------------------------------------------------------------------
\* onegate_vault_reserve_claim.

LEMMA StartPayKeeps ==
  ASSUME IInv, TypeRest', World', Keeps, UNCHANGED poll,
         NEW c \in Calls, NEW k \in Keys, row'[k].wallet # None, StartPay(c, k)
  PROVE  IInv'
<1> DEFINE x == [Idle EXCEPT !.at = "pay", !.key = k, !.req = row'[k].req,
                             !.wallet = row'[k].wallet, !.amount = row'[k].amount]
<1>0. /\ x.at = "pay" /\ x.key = k /\ x.req = row'[k].req /\ x.wallet = row'[k].wallet
      /\ x.amount = row'[k].amount
  BY DEF Idle
<1>1. call' = [call EXCEPT ![c] = x]
  BY DEF StartPay, Goto
<1>2. call'[c] = x
  BY <1>1 DEF IInv, TypeOK
<1>3. row'[k] \in KeyRow
  BY DEF TypeRest
<1>4. row'[k].wallet \in Wallets /\ row'[k].req \in ReqId /\ row'[k].req < nextReq'
  BY <1>3 DEF KeyRow, World, RowGood
<1>5. x \in CallRecord
  BY <1>3, <1>4 DEF Idle, CallRecord, KeyRow
<1>6. CallKnows(call[c])'
  BY <1>0, <1>2, <1>4 DEF CallKnows
<1> QED
  BY <1>1, <1>2, <1>5, <1>6, CallGoesOn

LEMMA BindKeeps ==
  ASSUME IInv, NEW c \in Calls, NEW k \in Keys, NEW w \in Wallets, Bind(c, k, w)
  PROVE  IInv'
<1>1. PICK a \in Rewards :
        /\ row' = [row EXCEPT ![k] = [status |-> "pending", wallet |-> w, amount |-> a,
                                      req |-> nextReq, tx |-> None]]
        /\ remaining' = remaining - a
  BY DEF Bind
<1>2. /\ remaining \in Nat /\ PoolAmount \in Nat /\ remaining <= PoolAmount
      /\ remaining >= MinReward
      /\ MinReward \in Nat /\ MaxReward \in Nat /\ MaxClaims \in Nat /\ MaxReqs \in Nat
  BY VaultAssumption DEF IInv, TypeOK, Bind
<1>3. a \in 0..PoolAmount /\ remaining - a \in 0..PoolAmount
  BY <1>2 DEF Rewards
<1>4. nextReq \in ReqId /\ nextReq + 1 \in 1..(MaxReqs + 1)
  BY <1>2 DEF IInv, TypeOK, Bind, Room, ReqId
<1>5. claimed + 1 \in 0..MaxClaims
  BY <1>2 DEF IInv, TypeOK, Bind
<1>6. row' \in [Keys -> KeyRow]
  BY <1>1, <1>3, <1>4, RowFacts DEF IInv, KeyRow, Statuses
<1>7. /\ row'[k].wallet = w /\ row'[k].req = nextReq /\ row'[k].status = "pending"
      /\ w # None
      /\ \A j \in Keys \ {k} : row'[j] = row[j]
  BY <1>1, RowFacts, VaultAssumption DEF IInv
<1>8. TypeRest'
  BY <1>1, <1>3, <1>4, <1>5, <1>6 DEF IInv, TypeOK, TypeRest, Bind, chain
<1>9. World' /\ Keeps
  BY <1>6, <1>7, NewRequestWorld DEF Bind, chain
<1> QED
  BY <1>7, <1>8, <1>9, StartPayKeeps DEF Bind

LEMMA RetryKeeps ==
  ASSUME IInv, NEW c \in Calls, NEW k \in Keys, Retry(c, k)
  PROVE  IInv'
<1>1. /\ row \in [Keys -> KeyRow] /\ row[k] \in KeyRow /\ row[k].status = "failed"
      /\ row[k].wallet # None
  BY RowFacts DEF IInv, RowGood, Retry, Retryable
<1>2. nextReq \in ReqId /\ nextReq + 1 \in 1..(MaxReqs + 1)
  BY VaultAssumption DEF IInv, TypeOK, Retry, Room, ReqId
<1>3. row' = [row EXCEPT ![k] = [row[k] EXCEPT !.status = "pending", !.req = nextReq, !.tx = None]]
  BY <1>1 DEF Retry, Rotate
<1>4. [row[k] EXCEPT !.status = "pending", !.req = nextReq, !.tx = None] \in KeyRow
  BY <1>1, <1>2 DEF KeyRow, Statuses
<1>5. row' \in [Keys -> KeyRow]
  BY <1>1, <1>3, <1>4
<1>6. /\ row'[k].wallet = row[k].wallet /\ row'[k].req = nextReq /\ row'[k].status = "pending"
      /\ \A j \in Keys \ {k} : row'[j] = row[j]
  BY <1>1, <1>3 DEF KeyRow
<1>7. TypeRest'
  BY <1>2, <1>5 DEF IInv, TypeOK, TypeRest, Retry, Rotate, RepayPool, chain
<1>8. World' /\ Keeps
  BY <1>1, <1>5, <1>6, NewRequestWorld DEF Retry, Rotate, chain
<1> QED
  BY <1>1, <1>6, <1>7, <1>8, StartPayKeeps DEF Retry

LEMMA RejoinKeeps ==
  ASSUME IInv, NEW c \in Calls, NEW k \in Keys, Rejoin(c, k)
  PROVE  IInv'
<1>1. TypeRest'
  BY QuietType, PollType DEF Rejoin, chain
<1>2. World' /\ Keeps
  BY QuietWorld DEF Rejoin, chain, pool
<1>3. row'[k].wallet # None
  BY DEF IInv, RowGood, Rejoin
<1> QED
  BY <1>1, <1>2, <1>3, StartPayKeeps DEF Rejoin

-----------------------------------------------------------------------------
\* sendGas and the chain.

LEMMA BroadcastKeeps ==
  ASSUME IInv, NEW c \in Calls, Broadcast(c)
  PROVE  IInv'
<1> DEFINE x == [call[c] EXCEPT !.at = "wait", !.tx = Len(txs) + 1]
<1>1. call' = [call EXCEPT ![c] = x] /\ call[c] \in CallRecord /\ call \in [Calls -> CallRecord]
  BY DEF Broadcast, Goto, IInv, TypeOK
<1>2. Len(txs) + 1 \in TxIndex
  BY TxFacts, VaultAssumption DEF Broadcast, IInv, TypeOK, TxIndex
<1>3. x \in CallRecord
  BY <1>1, <1>2 DEF CallRecord
<1>4. /\ call'[c] = x
      /\ x.at = "wait" /\ x.key = call[c].key /\ x.req = call[c].req /\ x.wallet = call[c].wallet
      /\ x.amount = call[c].amount /\ x.tx = Len(txs) + 1
  BY <1>1 DEF CallRecord
<1>5. CallKnows(call[c]) /\ call[c].req \in ReqId
  BY DEF Broadcast, IInv, CallGood, CallKnows
<1>6. World' /\ Keeps
  BY BroadcastWorld
<1>7. CallKnows(call[c])'
  <2>1. /\ UNCHANGED <<row, nextReq>> /\ call[c].at = "pay"
        /\ Len(txs) + 1 \in DOMAIN txs' /\ txs'[Len(txs) + 1].key = call[c].key
        /\ txs'[Len(txs) + 1].req = call[c].req
    BY <1>5, BroadcastWorld DEF Broadcast, pool
  <2> HIDE DEF x
  <2> QED
    BY <1>4, <1>5, <2>1 DEF CallKnows
<1>8. TypeRest'
  BY <1>5, BroadcastWorld DEF Broadcast, IInv, TypeOK, TypeRest, pool
<1> QED
  BY <1>1, <1>3, <1>4, <1>6, <1>7, <1>8, CallGoesOn DEF Broadcast

LEMMA RefusedKeeps ==
  ASSUME IInv, NEW c \in Calls, Refused(c) \/ ReplyDisproves(c) \/ ReplyLost(c) \/ MarkConflicts(c)
                                \/ SendFails(c) \/ Crash(c)
  PROVE  IInv'
<1>1. UNCHANGED <<row, pool, txs, writtenOff, poll>>
  BY DEF Refused, ReplyDisproves, ReplyLost, MarkConflicts, Marking, SendFails, Crash, chain
<1>2. seen \subseteq seen' /\ seen' \subseteq ReqId
  BY DEF Refused, ReplyDisproves, ReplyLost, MarkConflicts, Marking, SendFails, Crash, chain,
         IInv, TypeOK, CallGood, CallKnows
<1>3. UNCHANGED faults \/ Fault
  BY DEF Refused, ReplyDisproves, ReplyLost, MarkConflicts, Marking, SendFails, Crash
<1>4. call[c].at # "idle" /\ (Fail(c) \/ Goto(c, Idle))
  BY DEF Refused, ReplyDisproves, ReplyLost, MarkConflicts, Marking, SendFails, Crash
<1> QED
  BY <1>1, <1>2, <1>3, <1>4, CallQuiet

LEMMA ReplyKeeps ==
  ASSUME IInv, NEW c \in Calls, ReplyPaid(c) \/ ReplySubmitted(c)
  PROVE  IInv'
<1>1. PICK status \in {"submitted", "paid"} :
        Record(c, status) /\ (status = "paid" => txs[call[c].tx].fate = "HALT")
  BY DEF ReplyPaid, ReplySubmitted, LogConfirms
<1> DEFINE x == [call[c] EXCEPT !.at = "mark", !.status = status]
<1>2. call' = [call EXCEPT ![c] = x] /\ call[c] \in CallRecord /\ call \in [Calls -> CallRecord]
  BY <1>1 DEF Record, Goto, IInv, TypeOK
<1>3. x \in CallRecord
  BY <1>2 DEF CallRecord
<1>4. /\ call'[c] = x
      /\ x.at = "mark" /\ x.key = call[c].key /\ x.req = call[c].req /\ x.wallet = call[c].wallet
      /\ x.amount = call[c].amount /\ x.tx = call[c].tx /\ x.status = status
  BY <1>2 DEF CallRecord
<1>5. CallKnows(call[c]) /\ call[c].at = "wait"
  BY <1>1 DEF Record, IInv, CallGood
<1>6. UNCHANGED <<row, pool, nextReq, txs, seen, writtenOff, poll, faults>>
  BY <1>1 DEF Record, pool, chain
<1>7. CallKnows(call[c])'
  BY <1>1, <1>4, <1>5, <1>6 DEF CallKnows
<1>8. TypeRest'
  BY <1>6, QuietType, PollType
<1>9. World' /\ Keeps
  BY <1>6, QuietWorld
<1> QED
  BY <1>2, <1>3, <1>4, <1>6, <1>7, <1>8, <1>9, CallGoesOn

LEMMA ExpiryKeeps ==
  ASSUME IInv, NEW r \in seen, SeenExpires(r)
  PROVE  IInv'
<1>1. TypeRest'
  BY VaultAssumption DEF SeenExpires, Fault, IInv, TypeOK, TypeRest, Viable, pool
<1>2. PollGood'
  BY ExpiryWorld, PollsKept DEF IInv, SeenExpires
<1> QED
  BY <1>1, <1>2, ExpiryWorld, CallLetsGo DEF SeenExpires

LEMMA ChainKeeps ==
  ASSUME IInv, NEW t \in DOMAIN txs, Land(t) \/ LandFails(t) \/ Vanish(t)
  PROVE  IInv'
<1>1. PICK fate \in {"HALT", "FAULT", "gone"} : SetFate(t, fate)
  BY DEF Land, LandFails, Vanish
<1>2. UNCHANGED faults \/ Fault
  BY DEF Land, LandFails, Vanish
<1>3. /\ World' /\ Keeps
      /\ txs' \in Seq(Payment) /\ Len(txs') = Len(txs) /\ DOMAIN txs' = DOMAIN txs
  BY <1>1, FateWorld
<1>4. TypeRest'
  BY <1>1, <1>2, <1>3, VaultAssumption, SMTT(30) DEF SetFate, Fault, IInv, TypeOK, TypeRest, pool
<1>5. PollGood'
  BY <1>1, <1>3, PollsKept DEF IInv, SetFate
<1> QED
  BY <1>1, <1>3, <1>4, <1>5, CallLetsGo DEF SetFate

-----------------------------------------------------------------------------
\* The updates of a row.

\* What a call records is a payment of the request it matches.
LEMMA MarkSettles ==
  ASSUME IInv, NEW c \in Calls, call[c].at = "mark", RowWaits(c),
         Settle(call[c].key, call[c].status, call[c].tx), UNCHANGED <<nextReq, seen, txs, writtenOff>>
  PROVE  /\ World' /\ Keeps
         /\ \E k \in Keys, t \in DOMAIN txs, status \in Statuses : Settle(k, status, t)
<1>1. CallKnows(call[c])
  BY DEF IInv, CallGood
<1>2. /\ call[c].key \in Keys /\ call[c].tx \in DOMAIN txs /\ call[c].status \in {"submitted", "paid"}
      /\ txs[call[c].tx].key = call[c].key /\ txs[call[c].tx].req = row[call[c].key].req
      /\ call[c].status = "paid" => txs[call[c].tx].fate = "HALT"
  BY <1>1 DEF CallKnows, RowWaits, Matches
<1> QED
  BY <1>2, SettleWorld DEF Statuses

LEMMA MarkKeeps ==
  ASSUME IInv, NEW c \in Calls, Mark(c) \/ MarkErrs(c)
  PROVE  IInv'
<1>1. /\ call[c].at = "mark" /\ UNCHANGED <<pool, seen, txs, nextReq, writtenOff, poll>>
      /\ UNCHANGED faults \/ Fault
      /\ Goto(c, Idle) \/ Fail(c)
  BY DEF Mark, MarkErrs, Marking, chain, pool
<1>2. \/ UNCHANGED row
      \/ RowWaits(c) /\ Settle(call[c].key, call[c].status, call[c].tx)
  BY DEF Mark, MarkErrs
<1>3. World' /\ Keeps
  BY <1>1, <1>2, QuietWorld, MarkSettles
<1>4. TypeRest'
  BY <1>1, <1>2, PollType, MarkSettles, OutcomeType
<1>5. PollGood'
  BY <1>1, <1>3, PollsKept DEF IInv
<1>6. \E d \in Calls : Goto(d, Idle) \/ (call[d].at # "idle" /\ Fail(d))
  BY <1>1
<1> QED
  BY <1>3, <1>4, <1>5, <1>6, CallLetsGo

LEMMA MarkFailedKeeps ==
  ASSUME IInv, NEW c \in Calls, MarkFailed(c)
  PROVE  IInv'
<1>1. call[c].key \in Keys /\ call[c].req \in ReqId
  BY DEF MarkFailed, IInv, CallGood, CallKnows
<1>2. /\ WriteOff(call[c].key, call[c].req) /\ Goto(c, Idle)
      /\ UNCHANGED <<pool, seen, txs, nextReq, poll, faults>>
  BY DEF MarkFailed, chain, pool
<1>3. World' /\ Keeps
  BY <1>1, <1>2, WriteOffWorld
<1>4. TypeRest'
  BY <1>1, <1>2, PollType, OutcomeType
<1>5. PollGood'
  BY <1>2, <1>3, PollsKept DEF IInv
<1> QED
  BY <1>2, <1>3, <1>4, <1>5, CallLetsGo

LEMMA PollReadsKeeps ==
  ASSUME IInv, NEW p \in Polls, NEW k \in Keys, PollReads(p, k)
  PROVE  IInv'
<1> DEFINE x == [key |-> k, req |-> row[k].req, tx |-> row[k].tx]
<1>1. /\ poll' = [poll EXCEPT ![p] = x]
      /\ UNCHANGED <<row, pool, nextReq, txs, seen, writtenOff, call, faults>>
  BY DEF PollReads, chain, pool
<1>2. /\ row[k].tx \in DOMAIN txs /\ row[k].tx \in TxIndex /\ row[k].req \in ReqId
      /\ txs[row[k].tx].key = k /\ txs[row[k].tx].req = row[k].req
  BY TxFacts DEF PollReads, IInv, RowsTruthful
<1>3. x \in PollRecord
  BY <1>2 DEF PollRecord
<1>4. poll' \in [Polls -> PollRecord \cup {None}]
  BY <1>1, <1>3, PollType
<1>5. TypeRest'
  BY <1>1, <1>4, QuietType, PollType
<1>6. World' /\ Keeps
  BY <1>1, QuietWorld
<1>7. PollGood'
  BY <1>1, <1>2, PollType DEF IInv, PollGood, PollKnows
<1> QED
  BY <1>1, <1>5, <1>6, <1>7, CallLetsGo

LEMMA PollEndsKeeps ==
  ASSUME IInv, NEW p \in Polls, PollConfirms(p) \/ PollDisproves(p) \/ PollLearnsNothing(p)
  PROVE  IInv'
<1>1. /\ poll' = [poll EXCEPT ![p] = None] /\ poll[p] # None
      /\ UNCHANGED <<pool, nextReq, txs, seen, call>>
      /\ UNCHANGED faults \/ Fault
  BY DEF PollConfirms, PollDisproves, PollLearnsNothing, PollEnds, chain, pool
<1>2. /\ PollKnows(poll[p]) /\ poll[p].key \in Keys /\ poll[p].req \in ReqId
      /\ poll' \in [Polls -> PollRecord \cup {None}]
      /\ \A q \in Polls : poll'[q] \in {poll[q], None}
  BY <1>1, PollType DEF IInv, PollGood, PollRecord
<1>3. CASE UNCHANGED <<row, writtenOff>>
  BY <1>1, <1>2, <1>3, QuietWorld, OutcomeType, PollsKept, CallLetsGo DEF IInv
<1>4. CASE /\ Settle(poll[p].key, "paid", poll[p].tx) /\ UNCHANGED writtenOff
           /\ Matches(poll[p].key, poll[p].req, Payable) /\ LogConfirms(poll[p].tx)
  <2>1. /\ poll[p].tx \in DOMAIN txs /\ txs[poll[p].tx].key = poll[p].key
        /\ txs[poll[p].tx].req = row[poll[p].key].req /\ txs[poll[p].tx].fate = "HALT"
    BY <1>2, <1>4 DEF PollKnows, Matches, LogConfirms
  <2>2. World' /\ Keeps
    BY <1>1, <1>2, <1>4, <2>1, SettleWorld
  <2>3. \E k \in Keys, t \in DOMAIN txs, status \in Statuses : Settle(k, status, t)
    BY <1>2, <1>4, <2>1 DEF Statuses
  <2>4. TypeRest'
    BY <1>1, <1>2, <1>4, <2>3, OutcomeType
  <2> QED
    BY <1>1, <1>2, <2>2, <2>4, PollsKept, CallLetsGo DEF IInv
<1>5. CASE WriteOff(poll[p].key, poll[p].req)
  <2>1. World' /\ Keeps
    BY <1>1, <1>2, <1>5, WriteOffWorld
  <2>2. TypeRest'
    BY <1>1, <1>2, <1>5, OutcomeType
  <2> QED
    BY <1>1, <1>2, <2>1, <2>2, PollsKept, CallLetsGo DEF IInv
<1> QED
  BY <1>3, <1>4, <1>5 DEF PollConfirms, PollDisproves, PollLearnsNothing

-----------------------------------------------------------------------------
LEMMA InitIInv == Init => IInv
<1> SUFFICES ASSUME Init PROVE IInv
  OBVIOUS
<1>1. TypeOK
  BY VaultAssumption DEF Init, TypeOK, Unused, KeyRow, Statuses, Idle, CallRecord
<1>2. RowGood /\ RowsTruthful /\ TxGood /\ CallGood /\ PollGood /\ LiveGood
  BY DEF Init, Unused, Idle, RowGood, RowsTruthful, TxGood, CallGood, PollGood, LiveGood
<1> QED
  BY <1>1, <1>2 DEF IInv

LEMMA NextIInv == IInv /\ [Next]_vars => IInv'
<1> SUFFICES ASSUME IInv, [Next]_vars PROVE IInv'
  OBVIOUS
<1>1. ASSUME NEW c \in Calls, NEW k \in Keys, Again(c, k) PROVE IInv'
  BY <1>1, RetryKeeps, RejoinKeeps DEF Again
<1>2. ASSUME NEW c \in Calls, NEW k \in Keys, NEW w \in Wallets, Bind(c, k, w) PROVE IInv'
  BY <1>2, BindKeeps
<1>3. ASSUME NEW c \in Calls, CallStep(c) \/ CallFault(c) PROVE IInv'
  BY <1>3, BroadcastKeeps, RefusedKeeps, ReplyKeeps, MarkKeeps, MarkFailedKeeps
     DEF CallStep, CallFault
<1>4. ASSUME NEW p \in Polls, PollStep(p) PROVE IInv'
  BY <1>4, PollEndsKeeps DEF PollStep
<1>5. ASSUME NEW p \in Polls, NEW k \in Keys, PollReads(p, k) PROVE IInv'
  BY <1>5, PollReadsKeeps
<1>6. CASE ChainStep
  BY <1>6, ChainKeeps DEF ChainStep
<1>7. ASSUME NEW r \in seen, SeenExpires(r) PROVE IInv'
  BY <1>7, ExpiryKeeps
<1>8. CASE UNCHANGED vars
  <2>1. World' /\ Keeps
    BY <1>8, QuietWorld DEF vars
  <2>2. TypeRest' /\ PollGood'
    BY <1>8 DEF vars, IInv, TypeOK, TypeRest, PollGood, PollKnows
  <2> QED
    BY <1>8, <2>1, <2>2, CallLetsGo DEF vars
<1> QED
  BY <1>1, <1>2, <1>3, <1>4, <1>5, <1>6, <1>7, <1>8 DEF Next

LEMMA Inductive == Spec => []IInv
BY InitIInv, NextIInv, PTL DEF Spec

\* The tables, the calls and the polls only hold values of their types: the
\* pool and the counts stay within their limits, whatever is drawn from them.
THEOREM TypeCorrect == Spec => []TypeOK
<1>1. IInv => TypeOK
  BY DEF IInv
<1> QED
  BY <1>1, Inductive, PTL

\* A row that says submitted or paid names the payment it says: no late call
\* or poll of onegate-vault.ts records the outcome of an older request.
THEOREM RowsTellTheTruth == Spec => []RowsTruthful
<1>1. IInv => RowsTruthful
  BY DEF IInv
<1> QED
  BY <1>1, Inductive, PTL

\* A key is only paid twice after a payment was given up while it could land:
\* rotating the request id of a failed claim is safe by itself.
THEOREM NothingPaidTwice == Spec => []NoSecondPayment
<1>1. IInv => NoSecondPayment
  BY DEF IInv, LiveGood, Live, NoSecondPayment, LandedFor, Landed
<1> QED
  BY <1>1, Inductive, PTL

\* The updates that match request id and status never take a paid claim back,
\* and neither a retry nor another wallet gets it.
THEOREM PaidStaysPaid == Spec => PaidIsFinal
<1> DEFINE Stays(k) == row[k].status = "paid" =>
                         /\ row'[k].status = "paid"
                         /\ row'[k].req = row[k].req /\ row'[k].wallet = row[k].wallet
<1>1. ASSUME IInv, [Next]_vars PROVE \A k \in Keys : Stays(k)
  <2>1. row \in [Keys -> KeyRow]
    BY <1>1, RowFacts DEF IInv
  <2>2. CASE UNCHANGED row
    BY <2>2
  <2>3. ASSUME NEW c \in Calls, NEW j \in Keys, NEW w \in Wallets, Bind(c, j, w)
        PROVE  \A k \in Keys : Stays(k)
    BY <1>1, <2>1, <2>3 DEF Bind, IInv, RowGood
  <2>4. ASSUME NEW c \in Calls, NEW j \in Keys, Retry(c, j) PROVE \A k \in Keys : Stays(k)
    BY <2>1, <2>4 DEF Retry, Retryable, Rotate
  <2>5. ASSUME NEW j, NEW r, WriteOff(j, r) PROVE \A k \in Keys : Stays(k)
    BY <2>1, <2>5 DEF WriteOff, Matches, Failable, KeyRow
  <2>6. ASSUME NEW j, NEW t, NEW status, Settle(j, status, t),
               row[j].status \in Recordable(status), status \in {"submitted", "paid"}
        PROVE  \A k \in Keys : Stays(k)
    BY <2>1, <2>6 DEF Settle, Recordable, Payable, KeyRow
  <2>7. ASSUME NEW c \in Calls, Mark(c) \/ MarkErrs(c) PROVE \A k \in Keys : Stays(k)
    <3>1. call[c].status \in {"submitted", "paid"}
      BY <1>1, <2>7 DEF Mark, MarkErrs, Marking, IInv, CallGood, CallKnows
    <3> QED
      BY <2>2, <2>6, <2>7, <3>1 DEF Mark, MarkErrs, RowWaits, Matches
  <2>8. ASSUME NEW p \in Polls, PollConfirms(p) PROVE \A k \in Keys : Stays(k)
    BY <2>2, <2>6, <2>8 DEF PollConfirms, Matches, Recordable
  <2> HIDE DEF Stays
  <2>9. ASSUME NEW c \in Calls, CallStep(c) \/ CallFault(c) PROVE \A k \in Keys : Stays(k)
    BY <2>2, <2>5, <2>7, <2>9
       DEF CallStep, CallFault, Broadcast, Refused, ReplyPaid, ReplySubmitted, Record, ReplyDisproves,
           MarkConflicts, MarkFailed, SendFails, ReplyLost, Crash
  <2>10. ASSUME NEW p \in Polls, PollStep(p) PROVE \A k \in Keys : Stays(k)
    BY <2>2, <2>5, <2>8, <2>10 DEF PollStep, PollDisproves, PollLearnsNothing
  <2>11. CASE ChainStep \/ (\E r \in seen : SeenExpires(r)) \/ UNCHANGED vars
    BY <2>2, <2>11 DEF ChainStep, Land, LandFails, Vanish, SetFate, SeenExpires, vars
  <2>12. ASSUME NEW c \in Calls, NEW j \in Keys, Rejoin(c, j) PROVE \A k \in Keys : Stays(k)
    BY <2>2, <2>12 DEF Rejoin
  <2>13. ASSUME NEW p \in Polls, NEW j \in Keys, PollReads(p, j) PROVE \A k \in Keys : Stays(k)
    BY <2>2, <2>13 DEF PollReads
  <2> QED
    BY <1>1, <2>3, <2>4, <2>9, <2>10, <2>11, <2>12, <2>13 DEF Next, Again
<1>2. IInv /\ [Next]_vars => [\A k \in Keys : Stays(k)]_vars
  BY <1>1
<1> QED
  BY <1>2, Inductive, PTL DEF Spec, PaidIsFinal

-----------------------------------------------------------------------------
\* The pool.

Reward == [k \in Keys |-> row[k].amount]

PoolInv == IsFiniteSet(Bound) /\ PoolConserved

\* Steps that bind no key leave what the pool has lost as it is.
LEMMA BoundAsBefore ==
  ASSUME PoolInv, UNCHANGED <<remaining, claimed>>,
         \A k \in Keys : row'[k].wallet = row[k].wallet /\ row'[k].amount = row[k].amount
  PROVE  PoolInv'
<1>1. Bound' = Bound
  BY DEF Bound
<1>2. Reward' = Reward
  BY DEF Reward
<1> QED
  BY <1>1, <1>2 DEF PoolInv, PoolConserved, Reward

LEMMA BindPool ==
  ASSUME TypeOK, PoolInv, NEW c \in Calls, NEW k \in Keys, NEW w \in Wallets, Bind(c, k, w)
  PROVE  PoolInv'
<1>1. PICK a \in Rewards :
        /\ row' = [row EXCEPT ![k] = [status |-> "pending", wallet |-> w, amount |-> a,
                                      req |-> nextReq, tx |-> None]]
        /\ remaining' = remaining - a
        /\ claimed' = claimed + 1 /\ row[k].wallet = None
  BY DEF Bind
<1>2. /\ row \in [Keys -> KeyRow] /\ remaining \in Int /\ claimed \in Int /\ a \in Int
      /\ w # None
  BY VaultAssumption DEF TypeOK, Rewards
<1>3. /\ row'[k].wallet = w /\ row'[k].amount = a
      /\ \A j \in Keys \ {k} : row'[j] = row[j]
  BY <1>1, <1>2
<1>4. k \notin Bound /\ Bound' = Bound \cup {k}
  BY <1>1, <1>2, <1>3 DEF Bound
<1>5. IsFiniteSet(Bound') /\ Cardinality(Bound') = Cardinality(Bound) + 1
  BY <1>4, FS_AddElement DEF PoolInv
<1>6. \A j \in Keys : Reward'[j] \in Int
  BY <1>2, <1>3, RowFacts DEF Reward
<1>7. SumFunctionOnSet(Reward', Bound') = a + SumFunctionOnSet(Reward', Bound)
  <2>1. Reward'[k] = a /\ \A j \in Bound \cup {k} : Reward'[j] \in Int
    BY <1>3, <1>6 DEF Reward, Bound
  <2> QED
    BY <1>4, <2>1, SumAdd DEF PoolInv
<1>8. SumFunctionOnSet(Reward', Bound) = SumFunctionOnSet(Reward, Bound)
  <2>1. \A j \in Bound : Reward'[j] = Reward[j]
    BY <1>3, <1>4 DEF Reward, Bound
  <2> QED
    BY <2>1, SumSame DEF PoolInv
<1>9. SumFunctionOnSet(Reward, Bound) \in Int
  <2>1. \A j \in Bound : Reward[j] \in Int
    BY RowFacts DEF Reward, Bound
  <2> QED
    BY <2>1, SumInt DEF PoolInv
<1>10. PoolConserved'
  BY <1>1, <1>2, <1>5, <1>7, <1>8, <1>9 DEF PoolInv, PoolConserved, Reward
<1> QED
  BY <1>5, <1>10 DEF PoolInv

\* The pool and the keys account for each other: no retry, late update or failure
\* takes a reward from the pool again or gives one back to it.
THEOREM PoolIsConserved == Spec => []PoolConserved
<1>1. Init => PoolInv
  <2> SUFFICES ASSUME Init PROVE PoolInv
    OBVIOUS
  <2>1. Bound = {}
    BY DEF Init, Bound, Unused
  <2> QED
    BY <2>1, SumEmpty, FS_EmptySet, VaultAssumption DEF Init, PoolInv, PoolConserved
<1>2. IInv /\ PoolInv /\ [Next]_vars => PoolInv'
  <2> SUFFICES ASSUME IInv, PoolInv, [Next]_vars PROVE PoolInv'
    OBVIOUS
  <2> DEFINE Same == /\ UNCHANGED <<remaining, claimed>>
                     /\ \A k \in Keys : row'[k].wallet = row[k].wallet /\ row'[k].amount = row[k].amount
  <2>1. row \in [Keys -> KeyRow]
    BY RowFacts DEF IInv
  <2>2. UNCHANGED <<row, pool>> => Same
    BY DEF pool
  <2>3. ASSUME NEW c \in Calls, NEW k \in Keys, Retry(c, k) PROVE Same
    BY <2>1, <2>3 DEF Retry, Rotate, RepayPool, KeyRow
  <2>4. ASSUME NEW k, NEW r, WriteOff(k, r), UNCHANGED pool PROVE Same
    BY <2>1, <2>4 DEF WriteOff, KeyRow, pool
  <2>5. ASSUME NEW k, NEW t, NEW status, Settle(k, status, t), UNCHANGED pool PROVE Same
    BY <2>1, <2>5 DEF Settle, KeyRow, pool
  <2> HIDE DEF Same
  <2>6. ASSUME NEW c \in Calls, CallStep(c) \/ CallFault(c) PROVE Same
    BY <2>2, <2>4, <2>5, <2>6
       DEF CallStep, CallFault, Broadcast, Refused, ReplyPaid, ReplySubmitted, Record, ReplyDisproves,
           Mark, MarkErrs, Marking, MarkConflicts, MarkFailed, SendFails, ReplyLost, Crash
  <2>7. ASSUME NEW p \in Polls, PollStep(p) PROVE Same
    BY <2>2, <2>4, <2>5, <2>7 DEF PollStep, PollConfirms, PollDisproves, PollEnds, PollLearnsNothing
  <2>8. ChainStep \/ (\E r \in seen : SeenExpires(r)) \/ UNCHANGED vars => Same
    BY <2>2 DEF ChainStep, Land, LandFails, Vanish, SetFate, SeenExpires, vars, pool
  <2>9. ASSUME NEW c \in Calls, NEW k \in Keys, Rejoin(c, k) PROVE Same
    BY <2>2, <2>9 DEF Rejoin
  <2>10. ASSUME NEW p \in Polls, NEW k \in Keys, PollReads(p, k) PROVE Same
    BY <2>2, <2>10 DEF PollReads
  <2>11. CASE Same
    BY <2>11, BoundAsBefore DEF Same
  <2> QED
    BY <2>3, <2>6, <2>7, <2>8, <2>9, <2>10, <2>11, BindPool DEF Next, Again, IInv
<1>3. PoolInv => PoolConserved
  BY DEF PoolInv
<1> QED
  BY <1>1, <1>2, <1>3, Inductive, PTL DEF Spec
=============================================================================
