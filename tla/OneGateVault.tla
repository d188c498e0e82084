---------------------------- MODULE OneGateVault ----------------------------
(***************************************************************************)
(* OneGate Vault: a claim key from a QR code is bound once to a wallet and *)
(* a random reward from its campaign's pool, and the reward is paid in GAS *)
(* through TxProxy.  Claim calls and status polls run concurrently, in     *)
(* serverless functions that may die between any two of their calls.       *)
(*                                                                         *)
(* One campaign and one network: claim keys of others share nothing.  A    *)
(* call that is answered before it writes anything (wrong wallet, pool     *)
(* empty, campaign closed, payment already recorded) changes no state and  *)
(* is left out.  Each claim draws its request id from the clock: here the  *)
(* next number.  A campaign that is paused or has expired binds no key any *)
(* more, which is a behaviour of the model as well: Bind is not fair.      *)
(***************************************************************************)
EXTENDS Integers, Sequences, FiniteSetsExt

CONSTANTS
  Keys,        \* claim keys of the campaign
  Wallets,
  PoolAmount,  \* remaining_amount_fixed8 at the start
  MinReward, MaxReward,
  MaxClaims,
  Calls,       \* claim calls in progress
  Polls,       \* status calls in progress
  MaxReqs,     \* bound on request ids
  MaxTxs,      \* bound on payments
  MaxFaults,   \* bound on faults
  None

ASSUME VaultAssumption ==
  /\ {PoolAmount, MinReward, MaxReward, MaxClaims, MaxReqs, MaxTxs, MaxFaults} \subseteq Nat
  /\ 0 < MinReward /\ MinReward <= MaxReward
  /\ None \notin Nat /\ None \notin Wallets /\ None \notin Keys

VARIABLES
  row,         \* onegate_vault_claim_keys
  remaining,   \* remaining_amount_fixed8 of the campaign
  claimed,     \* claimed_count of the campaign
  nextReq,     \* next request id
  seen,        \* request ids TxProxy refuses as replays
  txs,         \* payments broadcast so far
  writtenOff,  \* history: payments the vault has given up though they may land
  call,        \* claim call -> where it is
  poll,        \* status call -> what it has read
  faults

pool == <<remaining, claimed, nextReq>>
chain == <<seen, txs>>
vars == <<row, remaining, claimed, nextReq, seen, txs, writtenOff, call, poll, faults>>

ReqId == 1..MaxReqs
TxIndex == 1..MaxTxs
Statuses == {"unused", "pending", "submitted", "paid", "failed"}

\* tx: the payment recorded (tx_hash), as its index in txs.
KeyRow == [status : Statuses, wallet : Wallets \cup {None}, amount : 0..PoolAmount,
           req : ReqId \cup {None}, tx : TxIndex \cup {None}]

\* fate: in the mempool; executed, HALT with the transfer made or FAULT for any
\* other end; or vanished from the mempool for good.
Payment == [key : Keys, req : ReqId, wallet : Wallets, amount : Nat,
            fate : {"pool", "HALT", "FAULT", "gone"}]

\* key, req, wallet, amount: what the claim has reserved; status: what it is
\* about to record; tx: the payment it has sent.
Idle == [at |-> "idle", key |-> None, req |-> None, wallet |-> None, amount |-> 0,
         status |-> None, tx |-> None]
CallRecord == [at : {"idle", "pay", "wait", "mark", "fail"}, key : Keys \cup {None},
               req : ReqId \cup {None}, wallet : Wallets \cup {None}, amount : 0..PoolAmount,
               status : {"submitted", "paid", None}, tx : TxIndex \cup {None}]
PollRecord == [key : Keys, req : ReqId, tx : TxIndex]

TypeOK ==
  /\ row \in [Keys -> KeyRow]
  /\ remaining \in 0..PoolAmount /\ claimed \in 0..MaxClaims
  /\ nextReq \in 1..(MaxReqs + 1)
  /\ seen \subseteq ReqId
  /\ txs \in Seq(Payment) /\ Len(txs) <= MaxTxs
  /\ writtenOff \subseteq DOMAIN txs
  /\ call \in [Calls -> CallRecord]
  /\ poll \in [Polls -> PollRecord \cup {None}]
  /\ faults \in 0..MaxFaults

Unused == [status |-> "unused", wallet |-> None, amount |-> 0, req |-> None, tx |-> None]

Init ==
  /\ row = [k \in Keys |-> Unused]
  /\ remaining = PoolAmount /\ claimed = 0
  /\ nextReq = 1
  /\ seen = {} /\ txs = <<>> /\ writtenOff = {}
  /\ call = [c \in Calls |-> Idle]
  /\ poll = [p \in Polls |-> None]
  /\ faults = 0

Goto(c, next) == call' = [call EXCEPT ![c] = next]
Fail(c) == Goto(c, [call[c] EXCEPT !.at = "fail"])
Fault == faults < MaxFaults /\ faults' = faults + 1
Room == nextReq <= MaxReqs

\* The payments of a request that have landed or may still land.
Viable(r) == {t \in DOMAIN txs : txs[t].req = r /\ txs[t].fate \in {"pool", "HALT"}}

-----------------------------------------------------------------------------
\* onegate_vault_reserve_claim, under the locks of the key and the campaign.

\* The call goes on with the row it is given.
StartPay(c, k) ==
  Goto(c, [Idle EXCEPT !.at = "pay", !.key = k, !.req = row'[k].req,
                       !.wallet = row'[k].wallet, !.amount = row'[k].amount])

\* mutant: the reward is not capped by what remains
RewardsUncapped == MinReward..MaxReward
Rewards == MinReward..(IF MaxReward <= remaining THEN MaxReward ELSE remaining)

Bind(c, k, w) ==
  /\ call[c].at = "idle"
  /\ Room
  /\ row[k].wallet = None
  /\ claimed < MaxClaims /\ remaining >= MinReward
  /\ \E a \in Rewards :
       /\ row' = [row EXCEPT ![k] = [status |-> "pending", wallet |-> w, amount |-> a,
                                     req |-> nextReq, tx |-> None]]
       /\ remaining' = remaining - a
  /\ claimed' = claimed + 1
  /\ nextReq' = nextReq + 1
  /\ StartPay(c, k)
  /\ UNCHANGED <<chain, writtenOff, poll, faults>>

\* mutant: any unfinished claim is retried under a new request id
RetryableUnfinished(k) == row[k].status \in {"pending", "failed"}
Retryable(k) == row[k].status = "failed"

\* mutant: the request id of the failed payment is kept
RotateKept(k) == UNCHANGED nextReq /\ row' = [row EXCEPT ![k].status = "pending", ![k].tx = None]
\* The wallet and its reward stay: only the request id is new.
Rotate(k) ==
  /\ nextReq' = nextReq + 1
  /\ row' = [row EXCEPT ![k].status = "pending", ![k].req = nextReq, ![k].tx = None]

\* mutant: a retry takes its reward from the pool again
RepayPoolAgain(k) == remaining >= row[k].amount /\ remaining' = remaining - row[k].amount
RepayPool(k) == UNCHANGED remaining

\* The same wallet claims again after its payment has failed.
Retry(c, k) ==
  /\ call[c].at = "idle"
  /\ Room
  /\ Retryable(k)
  /\ Rotate(k)
  /\ RepayPool(k)
  /\ StartPay(c, k)
  /\ UNCHANGED <<claimed, chain, writtenOff, poll, faults>>

\* The same wallet claims again while the claim is pending: it is handed the
\* request id of the call before it.
Rejoin(c, k) ==
  /\ call[c].at = "idle"
  /\ row[k].status = "pending"
  /\ UNCHANGED row
  /\ StartPay(c, k)
  /\ UNCHANGED <<pool, chain, writtenOff, poll, faults>>

-----------------------------------------------------------------------------
\* sendGas: TxProxy, the mempool and the chain.

\* A payment that the row of its key does not wait for is written off at once.
Awaited(c) == row[call[c].key].req = call[c].req /\ row[call[c].key].status = "pending"

Broadcast(c) ==
  /\ call[c].at = "pay"
  /\ call[c].req \notin seen
  /\ Len(txs) < MaxTxs
  /\ seen' = seen \cup {call[c].req}
  /\ txs' = Append(txs, [key |-> call[c].key, req |-> call[c].req,
                         wallet |-> call[c].wallet, amount |-> call[c].amount,
                         fate |-> "pool"])
  /\ writtenOff' = IF Awaited(c) THEN writtenOff ELSE writtenOff \cup {Len(txs) + 1}
  /\ Goto(c, [call[c] EXCEPT !.at = "wait", !.tx = Len(txs) + 1])
  /\ UNCHANGED <<row, pool, poll, faults>>

\* TxProxy takes the request for a replay.
Refused(c) ==
  /\ call[c].at = "pay"
  /\ call[c].req \in seen
  /\ Fail(c)
  /\ UNCHANGED <<row, pool, chain, writtenOff, poll, faults>>

\* TxProxy cannot be reached, or fails before it broadcasts.
SendFails(c) ==
  /\ call[c].at = "pay"
  /\ Fault
  /\ seen' \in {seen, seen \cup {call[c].req}}
  /\ Fail(c)
  /\ UNCHANGED <<row, pool, txs, writtenOff, poll>>

\* The window of the replay protection has passed.
SeenExpires(r) ==
  /\ r \in seen
  /\ Fault
  /\ seen' = seen \ {r}
  /\ writtenOff' = writtenOff \cup Viable(r)
  /\ UNCHANGED <<row, pool, txs, call, poll>>

SetFate(t, fate) ==
  /\ txs[t].fate = "pool"
  /\ txs' = [txs EXCEPT ![t].fate = fate]
  /\ UNCHANGED <<row, pool, seen, writtenOff, call, poll>>

Land(t) == SetFate(t, "HALT") /\ UNCHANGED faults
LandFails(t) == SetFate(t, "FAULT") /\ Fault
Vanish(t) == SetFate(t, "gone") /\ Fault

Record(c, status) ==
  /\ call[c].at = "wait"
  /\ Goto(c, [call[c] EXCEPT !.at = "mark", !.status = status])
  /\ UNCHANGED <<row, pool, chain, writtenOff, poll, faults>>

\* mutant: a reply with a log is paid, whatever the log says
LogConfirmsAny(t) == txs[t].fate \in {"HALT", "FAULT"}
\* validateOneGateVaultPayoutAppLog
LogConfirms(t) == txs[t].fate = "HALT"

\* The reply holds the application log, or only the transaction hash.
ReplyPaid(c) == Record(c, "paid") /\ LogConfirms(call[c].tx)
ReplySubmitted(c) == Record(c, "submitted")

ReplyDisproves(c) ==
  /\ call[c].at = "wait"
  /\ txs[call[c].tx].fate = "FAULT"
  /\ Fail(c)
  /\ UNCHANGED <<row, pool, chain, writtenOff, poll, faults>>

ReplyLost(c) ==
  /\ call[c].at = "wait"
  /\ Fault
  /\ Fail(c)
  /\ UNCHANGED <<row, pool, chain, writtenOff, poll>>

-----------------------------------------------------------------------------
\* markSubmitted, markPaid, markFailed: updates where request_id and status
\* match.

Matches(k, r, S) == row[k].req = r /\ row[k].status \in S

Payable == {"pending", "submitted", "paid", "failed"}
\* mutant: a paid claim may be marked failed
FailableAny == {"pending", "submitted", "paid", "failed"}
Failable == {"pending", "submitted", "failed"}

Recordable(status) == IF status = "paid" THEN Payable ELSE Payable \ {"paid"}

Settle(k, status, t) == row' = [row EXCEPT ![k].status = status, ![k].tx = t]

WriteOff(k, r) ==
  IF Matches(k, r, Failable)
  THEN /\ row' = [row EXCEPT ![k].status = "failed"]
       /\ writtenOff' = writtenOff \cup Viable(r)
  ELSE UNCHANGED <<row, writtenOff>>

Marking(c) == call[c].at = "mark" /\ UNCHANGED <<pool, chain, writtenOff, poll>>
RowWaits(c) == Matches(call[c].key, call[c].req, Recordable(call[c].status))

Mark(c) ==
  /\ Marking(c)
  /\ RowWaits(c)
  /\ Settle(call[c].key, call[c].status, call[c].tx)
  /\ Goto(c, Idle)
  /\ UNCHANGED faults

\* CLAIM_STATE_CONFLICT is thrown inside the try: the payment counts as failed.
MarkConflicts(c) ==
  /\ Marking(c)
  /\ ~RowWaits(c)
  /\ Fail(c)
  /\ UNCHANGED <<row, faults>>

\* So does a database error, of an update that may have been made.
MarkErrs(c) ==
  /\ Marking(c)
  /\ Fault
  /\ \/ UNCHANGED row
     \/ RowWaits(c) /\ Settle(call[c].key, call[c].status, call[c].tx)
  /\ Fail(c)

\* Errors of markFailed are swallowed, see Crash.
MarkFailed(c) ==
  /\ call[c].at = "fail"
  /\ WriteOff(call[c].key, call[c].req)
  /\ Goto(c, Idle)
  /\ UNCHANGED <<pool, chain, poll, faults>>

Crash(c) ==
  /\ call[c].at # "idle"
  /\ Fault
  /\ Goto(c, Idle)
  /\ UNCHANGED <<row, pool, chain, writtenOff, poll>>

-----------------------------------------------------------------------------
\* The status handler.

PollReads(p, k) ==
  /\ poll[p] = None
  /\ row[k].status \in {"submitted", "paid"}
  /\ poll' = [poll EXCEPT ![p] = [key |-> k, req |-> row[k].req, tx |-> row[k].tx]]
  /\ UNCHANGED <<row, pool, chain, writtenOff, call, faults>>

PollEnds(p) == poll' = [poll EXCEPT ![p] = None] /\ UNCHANGED <<pool, chain, call, faults>>

PollConfirms(p) ==
  /\ poll[p] # None
  /\ LogConfirms(poll[p].tx)
  /\ IF Matches(poll[p].key, poll[p].req, Payable)
     THEN Settle(poll[p].key, "paid", poll[p].tx)
     ELSE UNCHANGED row
  /\ UNCHANGED writtenOff
  /\ PollEnds(p)

PollDisproves(p) ==
  /\ poll[p] # None
  /\ txs[poll[p].tx].fate = "FAULT"
  /\ WriteOff(poll[p].key, poll[p].req)
  /\ PollEnds(p)

\* The transaction is not in a block, or the RPC node does not answer.
PollLearnsNothing(p) ==
  /\ poll[p] # None
  /\ IF txs[poll[p].tx].fate \in {"pool", "gone"} THEN UNCHANGED faults ELSE Fault
  /\ poll' = [poll EXCEPT ![p] = None]
  /\ UNCHANGED <<row, pool, chain, writtenOff, call>>

-----------------------------------------------------------------------------
Again(c, k) == Retry(c, k) \/ Rejoin(c, k)

CallStep(c) ==
  \/ Broadcast(c) \/ Refused(c)
  \/ ReplyPaid(c) \/ ReplySubmitted(c) \/ ReplyDisproves(c)
  \/ Mark(c) \/ MarkConflicts(c) \/ MarkFailed(c)

CallFault(c) == SendFails(c) \/ ReplyLost(c) \/ MarkErrs(c) \/ Crash(c)

PollStep(p) == PollConfirms(p) \/ PollDisproves(p) \/ PollLearnsNothing(p)

ChainStep == \E t \in DOMAIN txs : Land(t) \/ LandFails(t) \/ Vanish(t)

Next ==
  \/ \E c \in Calls, k \in Keys : Again(c, k) \/ \E w \in Wallets : Bind(c, k, w)
  \/ \E c \in Calls : CallStep(c) \/ CallFault(c)
  \/ \E p \in Polls : PollStep(p) \/ \E k \in Keys : PollReads(p, k)
  \/ ChainStep
  \/ \E r \in seen : SeenExpires(r)

Spec == Init /\ [][Next]_vars

\* A call that does not die goes on, a payment in the mempool is executed, and
\* the owner of a key that is not paid claims again and looks at its status.
FairSpec ==
  /\ Spec
  /\ WF_vars(\E c \in Calls : CallStep(c))
  /\ WF_vars(\E p \in Polls : PollStep(p))
  /\ SF_vars(\E c \in Calls, k \in Keys : Again(c, k))
  /\ \A k \in Keys : SF_vars(\E p \in Polls : PollReads(p, k))
  /\ WF_vars(\E t \in DOMAIN txs : Land(t))

-----------------------------------------------------------------------------
\* Correctness.

Bound == {k \in Keys : row[k].wallet # None}
Landed == {t \in DOMAIN txs : txs[t].fate = "HALT"}
LandedFor(k) == {t \in Landed : txs[t].key = k}

\* What the pool has lost is what keys are bound to, however often claims fail
\* and are retried: a retry takes nothing from the pool again.
PoolConserved ==
  /\ remaining + SumFunctionOnSet([k \in Keys |-> row[k].amount], Bound) = PoolAmount
  /\ claimed = Cardinality(Bound)

\* A row that says paid names a payment of its reward to its wallet that has
\* landed, and one that says submitted a payment of its current request: no
\* call or poll that is late records the outcome of an older request.
RowsTruthful ==
  \A k \in Keys :
    row[k].status \in {"submitted", "paid"} =>
      LET t == row[k].tx
      IN  /\ t \in DOMAIN txs
          /\ txs[t].key = k /\ txs[t].req = row[k].req
          /\ txs[t].wallet = row[k].wallet /\ txs[t].amount = row[k].amount
          /\ row[k].status = "paid" => t \in Landed

\* A paid claim stays paid, to one wallet and under one request, against
\* calls and polls that come late with failures.
PaidIsFinal ==
  [][\A k \in Keys :
       row[k].status = "paid" =>
         /\ row'[k].status = "paid"
         /\ row'[k].req = row[k].req /\ row'[k].wallet = row[k].wallet]_vars

\* Two payments for one key only happen after one of them was given up while
\* it could still land: a retry by itself never pays again.
NoSecondPayment ==
  \A k \in Keys : \A t, u \in LandedFor(k) \ writtenOff : t = u

\* A retry or a payment that only the bounds of the model hold up.
OutOfBounds ==
  \/ ~Room /\ \E k \in Keys : Retryable(k)
  \/ Len(txs) = MaxTxs /\ \E c \in Calls : call[c].at = "pay" /\ call[c].req \notin seen

\* The owner of a bound key is paid in the end, whatever fails and whether or
\* not the campaign binds other keys meanwhile; except that a claim whose payment
\* vanished stays submitted, and unless the bounds are used up.
EventuallyPaid ==
  \A k \in Keys :
    k \in Bound ~>
      \/ row[k].status = "paid"
      \/ row[k].status = "submitted" /\ txs[row[k].tx].fate = "gone"
      \/ OutOfBounds

\* "single-use key semantics" and "Re-clicking the same key with the same
\* wallet is idempotent" (docs/ONEGATE_VAULT_RUNBOOK.md:74, 79): a key is paid
\* at most once.  It does not hold: a second click is refused by TxProxy as a
\* replay, which marks the claim of the first failed and free for a retry.
PaidOnce == \A k \in Keys : Cardinality(LandedFor(k)) <= 1
=============================================================================
