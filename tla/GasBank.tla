------------------------------ MODULE GasBank ------------------------------
(***************************************************************************)
(* GasBank: prepaid accounts that services charge for their work.          *)
(*                                                                         *)
(* Each of the SQL functions locks the row of the account first, so that   *)
(* each is one action, of an account that the lock makes independent of    *)
(* the others.  The services that call them are not in this repository and *)
(* may call in any order; amounts are taken to be positive, which the      *)
(* functions do not check.  A refused call changes nothing.                *)
(***************************************************************************)
EXTENDS Integers, Sequences, FiniteSetsExt

CONSTANTS
  Owners, Sums,
  Refs, NoRef,   \* reference_id; NoRef: NULL
  TxHashes,      \* tx_hash of a deposit request
  NoTx,
  MaxEntries     \* bound on the transaction rows of an account

ASSUME BankAssumption ==
  /\ Sums \subseteq Nat \ {0}
  /\ NoRef \notin Refs /\ NoTx \notin TxHashes

VARIABLES
  bank,       \* gasbank_accounts
  entries,    \* gasbank_transactions, by account
  deposits,   \* deposit_requests
  committed   \* history: what reservations have taken from an account

bankVars == <<bank, entries, deposits, committed>>

NoAccount == [balance |-> 0, reserved |-> 0, open |-> FALSE]
Account == [balance : Int, reserved : Int, open : BOOLEAN]
Entry == [type : {"deposit", "service_fee"}, amount : Int, after : Int, ref : Refs \cup {NoRef}]
Deposit == [owner : Owners, tx : TxHashes \cup {NoTx}, amount : Sums]

BankTypeOK ==
  /\ bank \in [Owners -> Account]
  /\ entries \in [Owners -> Seq(Entry)]
  /\ deposits \subseteq Deposit
  /\ committed \in [Owners -> Nat]

BankInit ==
  /\ bank = [u \in Owners |-> NoAccount]
  /\ entries = [u \in Owners |-> <<>>]
  /\ deposits = {}
  /\ committed = [u \in Owners |-> 0]

Open(u) == bank' = [bank EXCEPT ![u].open = TRUE]

\* gasbank-account makes the account when it is first asked for.
OpenAccount(u) ==
  /\ ~bank[u].open
  /\ Open(u)
  /\ UNCHANGED <<entries, deposits, committed>>

\* gasbank-deposit: one request for a transaction, but any number without one.
RequestDeposit(u, tx, a) ==
  /\ tx = NoTx \/ \A d \in deposits : d.tx # tx
  /\ Open(u)
  /\ deposits' = deposits \cup {[owner |-> u, tx |-> tx, amount |-> a]}
  /\ UNCHANGED <<entries, committed>>

Post(u, type, amount, ref) ==
  /\ Len(entries[u]) < MaxEntries
  /\ bank' = [bank EXCEPT ![u].balance = @ + amount]
  /\ entries' = [entries EXCEPT ![u] = Append(@, [type |-> type, amount |-> amount, ref |-> ref,
                                                  after |-> bank[u].balance + amount])]
  /\ UNCHANGED <<deposits, committed>>

\* mutant: what is reserved may be spent
AvailableAll(u) == bank[u].balance
Available(u) == bank[u].balance - bank[u].reserved

\* gasbank_atomic_deduct
Deduct(u, a, ref) ==
  /\ bank[u].open /\ Available(u) >= a
  /\ Post(u, "service_fee", -a, ref)

\* mutant: a reference that has been credited is credited again
CreditedNever(u, a, ref) == FALSE
\* NULL equals nothing: a credit without a reference is always new.
Credited(u, a, ref) ==
  /\ ref # NoRef
  /\ \E i \in DOMAIN entries[u] :
       /\ entries[u][i].type = "deposit"
       /\ entries[u][i].ref = ref /\ entries[u][i].amount = a

\* gasbank_atomic_credit
Credit(u, a, ref) ==
  /\ bank[u].open /\ ~Credited(u, a, ref)
  /\ Post(u, "deposit", a, ref)

\* gasbank_atomic_reserve
Reserve(u, a) ==
  /\ bank[u].open /\ Available(u) >= a
  /\ bank' = [bank EXCEPT ![u].reserved = @ + a]
  /\ UNCHANGED <<entries, deposits, committed>>

\* mutant: a commit only releases
AfterReleaseFree(account, a, commit) == [account EXCEPT !.reserved = @ - a]
AfterRelease(account, a, commit) ==
  [account EXCEPT !.reserved = @ - a, !.balance = IF commit THEN @ - a ELSE @]

\* gasbank_atomic_release: a commit is not entered in the transactions.
Release(u, a, commit) ==
  /\ bank[u].open /\ bank[u].reserved >= a
  /\ bank' = [bank EXCEPT ![u] = AfterRelease(@, a, commit)]
  /\ committed' = [committed EXCEPT ![u] = IF commit THEN @ + a ELSE @]
  /\ UNCHANGED <<entries, deposits>>

BankNext ==
  \E u \in Owners :
    \/ OpenAccount(u)
    \/ \E a \in Sums :
         \/ \E tx \in TxHashes \cup {NoTx} : RequestDeposit(u, tx, a)
         \/ \E ref \in Refs \cup {NoRef} : Deduct(u, a, ref) \/ Credit(u, a, ref)
         \/ Reserve(u, a)
         \/ \E commit \in BOOLEAN : Release(u, a, commit)

BankSpec == BankInit /\ [][BankNext]_bankVars

-----------------------------------------------------------------------------
\* Correctness.

\* What is reserved is always there: no order of fees, reservations, releases
\* and commits, each of which checks its own part of the account only, takes an
\* account below what it has promised or below zero.
BankSolvent ==
  \A u \in Owners : 0 <= bank[u].reserved /\ bank[u].reserved <= bank[u].balance

Posted(rows) == SumFunctionOnSet([i \in DOMAIN rows |-> rows[i].amount], DOMAIN rows)

\* A balance is the sum of the account's transactions less the commits, which
\* leave none; so the balance_after of a row and the balance before the next row
\* differ by just what has been committed between them.
EntriesExplainBalance ==
  \A u \in Owners : bank[u].balance = Posted(entries[u]) - committed[u]

\* A deposit that is credited again under its reference counts once, whatever
\* happened to the account between the two credits.
CreditedOnce ==
  \A u \in Owners : \A i, j \in DOMAIN entries[u] :
    /\ entries[u][i].type = "deposit" /\ entries[u][j].type = "deposit"
    /\ entries[u][i].ref = entries[u][j].ref /\ entries[u][i].ref # NoRef
    /\ entries[u][i].amount = entries[u][j].amount
    => i = j
=============================================================================
