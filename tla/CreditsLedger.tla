--------------------------- MODULE CreditsLedger ---------------------------
(***************************************************************************)
(* The credits ledger of migration 078: credit_balances, the append-only   *)
(* credit_events log with its BIGSERIAL id and its two unique indexes, and *)
(* the transactions credits_spend, credits_credit_purchase and             *)
(* credits_apply_exit that database sessions run concurrently under READ   *)
(* COMMITTED.  One network; a session is one connection of the edge        *)
(* functions credits-ledger (spends) or credits-indexer (notes).           *)
(*                                                                         *)
(* A transaction that writes holds the lock of its wallet's balance row    *)
(* until it ends, and its event is in the log only once it commits.  Its   *)
(* id is drawn while the lock is held and is lost when it rolls back.      *)
(***************************************************************************)
EXTENDS CreditsTypes, Integers, FiniteSets

CONSTANTS
  Sessions,   \* database sessions
  MaxSpend,   \* CREDITS_MAX_SPEND_PER_CALL
  MaxId,      \* bound: no transaction begins that could draw a larger id
  None        \* no request, no staged event

ASSUME MaxSpendAssumption == MaxSpend \in Nat
ASSUME MaxIdAssumption == MaxId \in Nat

Request == [wallet : Wallets, key : Keys, amount : Amounts \ {0}]
Event == [id : Nat, wallet : Wallets, type : {"spend", "purchase", "exit"},
          ref : Keys \cup Notes, amount : Int, after : Nat]
BalanceRow == [balance : Nat, purchased : Nat, spent : Nat, exited : Nat]

ASSUME NoneAssumption == None \notin Request /\ None \notin Event

VARIABLES
  row,      \* credit_balances, all zero for a wallet that has no row
  known,    \* wallets that have a row
  events,   \* credit_events, the committed rows
  nextId,   \* next value of credit_events_id_seq
  req,      \* session -> the spend that waits for its balance row, or None
  staged,   \* session -> the event its open transaction has written, or None
  answer    \* session -> what its last call returned

vars == <<row, known, events, nextId, req, staged, answer>>

Outcomes == {"none", "invalid", "spent", "deduped", "insufficient", "applied", "error"}
Answer == [outcome : Outcomes, wallet : Wallets \cup {None},
           ref : Keys \cup Notes \cup {None}, id : Nat]

TypeOK ==
  /\ row \in [Wallets -> BalanceRow]
  /\ known \subseteq Wallets
  /\ events \subseteq Event
  /\ nextId \in Nat
  /\ req \in [Sessions -> Request \cup {None}]
  /\ staged \in [Sessions -> Event \cup {None}]
  /\ answer \in [Sessions -> Answer]

Answered(o, w, r, i) == [outcome |-> o, wallet |-> w, ref |-> r, id |-> i]
Nothing(o) == Answered(o, None, None, 0)

ZeroRow == [balance |-> 0, purchased |-> 0, spent |-> 0, exited |-> 0]

Init ==
  /\ row = [w \in Wallets |-> ZeroRow]
  /\ known = {}
  /\ events = {}
  /\ nextId = 1
  /\ req = [s \in Sessions |-> None]
  /\ staged = [s \in Sessions |-> None]
  /\ answer = [s \in Sessions |-> Nothing("none")]

-----------------------------------------------------------------------------
\* Locks, indexes and the sequence.

Idle(s) == req[s] = None /\ staged[s] = None

LockedIgnored(w) == FALSE  \* mutant: FOR UPDATE forgotten
Locked(w) == \E s \in Sessions : staged[s] # None /\ staged[s].wallet = w

\* idx_credit_events_spend_idempotency
SpendEvents(w, k) == {e \in events : e.type = "spend" /\ e.wallet = w /\ e.ref = k}
NoteEventsNoAnchor(n) == {}  \* mutant: no unique index on the chain anchor
\* idx_credit_events_chain_anchor
NoteEvents(n) == {e \in events : e.type # "spend" /\ e.ref = n}

Room == nextId + Cardinality({s \in Sessions : ~Idle(s)}) <= MaxId

-----------------------------------------------------------------------------
\* credits_spend, called by credits-ledger.

SpendInvalid(s) ==
  /\ Idle(s)
  /\ \E a \in Amounts : a \notin 1..MaxSpend
  /\ answer' = [answer EXCEPT ![s] = Nothing("invalid")]
  /\ UNCHANGED <<row, known, events, nextId, req, staged>>

\* The first SELECT finds the key: no lock is taken.
SpendDeduped(s, w, k) ==
  /\ Idle(s)
  /\ \E e \in SpendEvents(w, k) :
       answer' = [answer EXCEPT ![s] = Answered("deduped", w, k, e.id)]
  /\ UNCHANGED <<row, known, events, nextId, req, staged>>

\* The first SELECT misses: from here on the spend waits for FOR UPDATE.
SpendBegin(s, w, k, a) ==
  /\ Idle(s)
  /\ Room
  /\ a \in 1..MaxSpend
  /\ SpendEvents(w, k) = {}
  /\ req' = [req EXCEPT ![s] = [wallet |-> w, key |-> k, amount |-> a]]
  /\ answer' = [answer EXCEPT ![s] = Nothing("none")]
  /\ UNCHANGED <<row, known, events, nextId, staged>>

\* mutant: IF NOT FOUND forgotten
CannotPayNoRow(s) ==
  req[s].wallet \in known /\ ~Locked(req[s].wallet) /\ row[req[s].wallet].balance < req[s].amount
\* No row, or the row is ours and holds too little.  A row that another
\* transaction is inserting is not visible yet: it does not make us wait.
CannotPay(s) ==
  \/ req[s].wallet \notin known
  \/ ~Locked(req[s].wallet) /\ row[req[s].wallet].balance < req[s].amount

CanPay(s) ==
  /\ req[s].wallet \in known
  /\ ~Locked(req[s].wallet)
  /\ row[req[s].wallet].balance >= req[s].amount

SpendRejected(s) ==
  /\ req[s] # None
  /\ CannotPay(s)
  /\ req' = [req EXCEPT ![s] = None]
  /\ answer' = [answer EXCEPT ![s] =
                  Answered("insufficient", req[s].wallet, req[s].key, 0)]
  /\ UNCHANGED <<row, known, events, nextId, staged>>

\* The insert violates the unique index: the inner block is rolled back, the
\* id it drew is lost and the event of the winner is returned.
SpendCollides(s) ==
  /\ req[s] # None
  /\ CanPay(s)
  /\ \E e \in SpendEvents(req[s].wallet, req[s].key) :
       answer' = [answer EXCEPT ![s] =
                    Answered("deduped", req[s].wallet, req[s].key, e.id)]
  /\ req' = [req EXCEPT ![s] = None]
  /\ nextId' = nextId + 1
  /\ UNCHANGED <<row, known, events, staged>>

SpendEvent(r) ==
  [id |-> nextId, wallet |-> r.wallet, type |-> "spend", ref |-> r.key,
   amount |-> 0 - r.amount, after |-> row[r.wallet].balance - r.amount]

\* mutant: no unique index on the idempotency key
SpendWritesNoIndex(s) ==
  /\ req[s] # None
  /\ CanPay(s)
  /\ staged' = [staged EXCEPT ![s] = SpendEvent(req[s])]
  /\ req' = [req EXCEPT ![s] = None]
  /\ nextId' = nextId + 1
  /\ UNCHANGED <<row, known, events, answer>>

SpendWrites(s) ==
  /\ req[s] # None
  /\ CanPay(s)
  /\ SpendEvents(req[s].wallet, req[s].key) = {}
  /\ staged' = [staged EXCEPT ![s] = SpendEvent(req[s])]
  /\ req' = [req EXCEPT ![s] = None]
  /\ nextId' = nextId + 1
  /\ UNCHANGED <<row, known, events, answer>>

-----------------------------------------------------------------------------
\* credits_credit_purchase and credits_apply_exit, called by credits-indexer.

ExitDebitUnclamped(balance, credits) == credits  \* mutant: no LEAST
ExitDebit(balance, credits) == IF balance <= credits THEN balance ELSE credits

NoteAmount(n) ==
  LET note == NoteOf[n]
  IN  IF note.kind = "purchase" THEN note.credits
      ELSE 0 - ExitDebit(row[note.wallet].balance, note.credits)

NoteEvent(n) ==
  [id |-> nextId, wallet |-> NoteOf[n].wallet, type |-> NoteOf[n].kind, ref |-> n,
   amount |-> NoteAmount(n), after |-> row[NoteOf[n].wallet].balance + NoteAmount(n)]

NoteWrites(s, n) ==
  /\ Idle(s)
  /\ Room
  /\ ~Locked(NoteOf[n].wallet)
  /\ NoteEvents(n) = {}
  /\ staged' = [staged EXCEPT ![s] = NoteEvent(n)]
  /\ nextId' = nextId + 1
  /\ answer' = [answer EXCEPT ![s] = Nothing("none")]
  /\ UNCHANGED <<row, known, events, req>>

\* The notification is in the log already: the block is rolled back.  No id is
\* returned.
NoteDeduped(s, n) ==
  /\ Idle(s)
  /\ Room
  /\ ~Locked(NoteOf[n].wallet)
  /\ NoteEvents(n) # {}
  /\ answer' = [answer EXCEPT ![s] = Answered("deduped", NoteOf[n].wallet, n, 0)]
  /\ nextId' = nextId + 1
  /\ UNCHANGED <<row, known, events, req, staged>>

-----------------------------------------------------------------------------
\* The end of a transaction.

\* mutant: total_exited adds up chain_credits
RowAfterGrossExit(r, e) ==
  [balance   |-> e.after,
   purchased |-> IF e.type = "purchase" THEN r.purchased + e.amount ELSE r.purchased,
   spent     |-> IF e.type = "spend" THEN r.spent - e.amount ELSE r.spent,
   exited    |-> IF e.type = "exit" THEN r.exited + NoteOf[e.ref].credits ELSE r.exited]

RowAfter(r, e) ==
  [balance   |-> e.after,
   purchased |-> IF e.type = "purchase" THEN r.purchased + e.amount ELSE r.purchased,
   spent     |-> IF e.type = "spend" THEN r.spent - e.amount ELSE r.spent,
   exited    |-> IF e.type = "exit" THEN r.exited - e.amount ELSE r.exited]

CommitAnswer(e) ==
  Answered(IF e.type = "spend" THEN "spent" ELSE "applied", e.wallet, e.ref, e.id)

\* The caller may miss the reply of a transaction that has committed.
Commit(s) ==
  /\ staged[s] # None
  /\ LET e == staged[s]
     IN  /\ row' = [row EXCEPT ![e.wallet] = RowAfter(@, e)]
         /\ known' = known \cup {e.wallet}
         /\ events' = events \cup {e}
         /\ \/ answer' = [answer EXCEPT ![s] = CommitAnswer(e)]
            \/ answer' = [answer EXCEPT ![s] = Nothing("error")]
  /\ staged' = [staged EXCEPT ![s] = None]
  /\ UNCHANGED <<nextId, req>>

\* mutant: the reply is sent before the commit
AbortAnswersEarly(s) ==
  /\ ~Idle(s)
  /\ req' = [req EXCEPT ![s] = None]
  /\ staged' = [staged EXCEPT ![s] = None]
  /\ answer' = [answer EXCEPT ![s] = IF staged[s] # None THEN CommitAnswer(staged[s])
                                                         ELSE Nothing("error")]
  /\ UNCHANGED <<row, known, events, nextId>>

\* A failed connection, a statement timeout or a crash of the database before
\* the commit: nothing of the transaction remains but the id it drew.
Abort(s) ==
  /\ ~Idle(s)
  /\ req' = [req EXCEPT ![s] = None]
  /\ staged' = [staged EXCEPT ![s] = None]
  /\ answer' = [answer EXCEPT ![s] = Nothing("error")]
  /\ UNCHANGED <<row, known, events, nextId>>

-----------------------------------------------------------------------------
Locking(s) == SpendRejected(s) \/ SpendCollides(s) \/ SpendWrites(s)

Next ==
  \E s \in Sessions :
    \/ SpendInvalid(s)
    \/ \E w \in Wallets, k \in Keys : SpendDeduped(s, w, k)
    \/ \E w \in Wallets, k \in Keys, a \in Amounts : SpendBegin(s, w, k, a)
    \/ SpendRejected(s)
    \/ SpendCollides(s)
    \/ SpendWrites(s)
    \/ \E n \in Notes : NoteWrites(s, n)
    \/ \E n \in Notes : NoteDeduped(s, n)
    \/ Commit(s)
    \/ Abort(s)

Spec == Init /\ [][Next]_vars

\* A statement that runs ends, and PostgreSQL grants a row lock in the order
\* of its queue: a waiting session is not passed over for ever.
Fairness ==
  \A s \in Sessions :
    /\ WF_vars(staged[s] # None /\ (Commit(s) \/ Abort(s)))
    /\ SF_vars(Locking(s))

FairSpec == Spec /\ Fairness
-----------------------------------------------------------------------------
\* Correctness.

Log(w) == {e \in events : e.wallet = w}
Before(e) == {d \in Log(e.wallet) : d.id < e.id}
IsLast(e, S) == e \in S /\ \A d \in S : d.id <= e.id

\* "Balances can be rebuilt by folding the log": in the order of their ids
\* the events of a wallet chain, each balance_after being the previous one
\* plus the event's amount, and the last one is the balance.  A lost update,
\* or ids that do not follow the order of a wallet's commits, break it.
LedgerChain ==
  \A w \in Wallets :
    /\ Log(w) = {} => row[w].balance = 0
    /\ \A e \in Log(w) :
         /\ IsLast(e, Log(w)) => row[w].balance = e.after
         /\ Before(e) = {} => e.after = e.amount
         /\ \A d \in Before(e) : IsLast(d, Before(e)) => e.after = d.after + e.amount

\* However often a spend is retried and whatever replies are lost, one key of
\* a wallet is debited at most once; and one notification of the contract is
\* in the log at most once, in however many sessions indexer runs replay it.
LoggedOnce ==
  \A d, e \in events :
    /\ d.id = e.id => d = e
    /\ d.ref = e.ref /\ d.wallet = e.wallet /\ (d.type = "spend" <=> e.type = "spend")
         => d = e

\* What a call reports as done is in the log, with the id it reports: no
\* answer is given for a write that can still be rolled back.
AnswersBacked ==
  \A s \in Sessions :
    answer[s].outcome \in {"spent", "deduped", "applied"} =>
      \E e \in events : /\ e.id = answer[s].id \/ (answer[s].id = 0 /\ e.type # "spend")
                        /\ e.wallet = answer[s].wallet
                        /\ e.ref = answer[s].ref

\* The totals account for the balance: the exits a wallet has been debited,
\* not those the chain has paid, are what total_exited adds up.
TotalsAccount ==
  \A w \in Wallets :
    row[w].balance + row[w].spent + row[w].exited = row[w].purchased

\* Every spend that got past the first SELECT is answered, however many
\* sessions queue for the same balance row.
SpendsAnswered == \A s \in Sessions : (req[s] # None \/ staged[s] # None) ~> Idle(s)

\* The transactions implement the atomic book: each takes effect at its commit.
Book == INSTANCE CreditsBook WITH
  bal     <- [w \in Wallets |-> row[w].balance],
  debited <- {<<e.wallet, e.ref>> : e \in {d \in events : d.type = "spend"}},
  posted  <- {e.ref : e \in {d \in events : d.type # "spend"}}

ImplementsBook == Book!BookSpec

\* "retries return the original outcome" (docs/MINIAPP_CREDITS_LEDGER.md:132
\* and the comment above credits_spend): insufficient_credits is not answered
\* for a key whose debit is in the log.  It does not hold: credits_spend
\* compares the balance before the unique index is asked.
RetryGetsOriginalOutcome ==
  [][\A s \in Sessions :
       answer'[s] # answer[s] /\ answer'[s].outcome = "insufficient"
         => SpendEvents(answer'[s].wallet, answer'[s].ref) = {}]_vars
=============================================================================
