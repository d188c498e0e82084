--------------------------- MODULE CreditsSystem ---------------------------
(***************************************************************************)
(* The credits of wallets in the two places that keep them, the balances   *)
(* of the MiniAppCredits contract and those of the database, and the three *)
(* functions between them, each step as what its own module shows of it:   *)
(* the ledger debits and posts as CreditsBook does, the indexer posts the  *)
(* notifications of the contract in their order and once, and the settler  *)
(* has one settlement on its way that holds every spend once.  Without     *)
(* faults: this is about the order in which the parts work, which nothing  *)
(* in the code restricts.  The contract is external.                       *)
(***************************************************************************)
EXTENDS Integers, Sequences

CONSTANTS
  Holders,    \* wallets
  Prices,     \* credits bought or spent at once
  MaxFeed, MaxSpends \* bounds: notifications, spends of a wallet

ASSUME SystemAssumption ==
  /\ Prices \subseteq Nat \ {0}
  /\ {MaxFeed, MaxSpends} \subseteq Nat

VARIABLES
  onChain,    \* balances of the contract
  inDb,       \* credit_balances.balance
  feed,       \* notifications of the contract
  scanned,    \* those the indexer has posted
  unsettled,  \* sum of the spends above the last window, by wallet
  batch,      \* deltas of the settlement on its way, 0 for none
  spends,     \* number of spends of a wallet
  rebought    \* history: wallets that bought while what they took out was open

systemVars == <<onChain, inDb, feed, scanned, unsettled, batch, spends, rebought>>

FeedNote == [kind : {"purchase", "exit"}, wallet : Holders, credits : Nat \ {0}]

SystemTypeOK ==
  /\ onChain \in [Holders -> Nat] /\ inDb \in [Holders -> Nat]
  /\ feed \in Seq(FeedNote) /\ Len(feed) <= MaxFeed
  /\ scanned \in 0..Len(feed)
  /\ unsettled \in [Holders -> Nat] /\ batch \in [Holders -> Nat]
  /\ spends \in [Holders -> 0..MaxSpends]
  /\ rebought \subseteq Holders

Nothing == [w \in Holders |-> 0]

SystemInit ==
  /\ onChain = Nothing /\ inDb = Nothing
  /\ feed = <<>> /\ scanned = 0
  /\ unsettled = Nothing /\ batch = Nothing
  /\ spends = Nothing
  /\ rebought = {}

-----------------------------------------------------------------------------
\* The contract.

Emits(kind, w, credits) ==
  /\ Len(feed) < MaxFeed
  /\ feed' = Append(feed, [kind |-> kind, wallet |-> w, credits |-> credits])

Unscanned(w, kind) ==
  \E i \in (scanned + 1)..Len(feed) : feed[i].wallet = w /\ feed[i].kind = kind
Owed(w) == unsettled[w] + batch[w]

\* rebought: the wallet's last exit is not in the database yet, or it has been
\* paid for credits that had been spent.
Buy(w, a) ==
  /\ Emits("purchase", w, a)
  /\ onChain' = [onChain EXCEPT ![w] = @ + a]
  /\ rebought' = IF Unscanned(w, "exit") \/ onChain[w] < Owed(w) THEN rebought \cup {w} ELSE rebought
  /\ UNCHANGED <<inDb, scanned, unsettled, batch, spends>>

\* exit burns the balance as it was last settled.
ExitAll(w) ==
  /\ onChain[w] > 0
  /\ Emits("exit", w, onChain[w])
  /\ onChain' = [onChain EXCEPT ![w] = 0]
  /\ UNCHANGED <<inDb, scanned, unsettled, batch, spends, rebought>>

Clamped(a, b) == IF b <= a THEN b ELSE a

\* postSettlement debits each user, but never below zero.
LandSettlement ==
  /\ batch # Nothing
  /\ onChain' = [w \in Holders |-> onChain[w] - Clamped(onChain[w], batch[w])]
  /\ batch' = Nothing
  /\ UNCHANGED <<inDb, feed, scanned, unsettled, spends, rebought>>

-----------------------------------------------------------------------------
\* The functions.

\* credits_spend
SpendCredits(w, a) ==
  /\ a <= inDb[w]
  /\ spends[w] < MaxSpends /\ spends' = [spends EXCEPT ![w] = @ + 1]
  /\ inDb' = [inDb EXCEPT ![w] = @ - a]
  /\ unsettled' = [unsettled EXCEPT ![w] = @ + a]
  /\ UNCHANGED <<onChain, feed, scanned, batch, rebought>>

\* mutant: an exit takes from the database what has been spent as well
ExitDebitAll(w, credits) == credits
ExitDebit(w, credits) == Clamped(inDb[w], credits)

\* The next notification: credits_credit_purchase or credits_apply_exit.
IndexNote ==
  /\ scanned < Len(feed)
  /\ LET note == feed[scanned + 1]
     IN  inDb' = [inDb EXCEPT ![note.wallet] =
                    IF note.kind = "purchase" THEN @ + note.credits
                    ELSE @ - ExitDebit(note.wallet, note.credits)]
  /\ scanned' = scanned + 1
  /\ UNCHANGED <<onChain, feed, unsettled, batch, spends, rebought>>

\* A run of the settler posts all that is above the last window, once the
\* settlement before it is confirmed.
PostSettlement ==
  /\ batch = Nothing /\ unsettled # Nothing
  /\ batch' = unsettled
  /\ unsettled' = Nothing
  /\ UNCHANGED <<onChain, inDb, feed, scanned, spends, rebought>>

SystemNext ==
  \/ \E w \in Holders, a \in Prices : Buy(w, a) \/ SpendCredits(w, a)
  \/ \E w \in Holders : ExitAll(w)
  \/ LandSettlement \/ IndexNote \/ PostSettlement

SystemSpec == SystemInit /\ [][SystemNext]_systemVars

-----------------------------------------------------------------------------
\* Correctness.

AtRest(w) == scanned = Len(feed) /\ Owed(w) = 0

\* "the contract clamps them at the (now zero) balance, so the books converge"
\* (docs/MINIAPP_CREDITS_LEDGER.md:45-52): when all is indexed and settled, the
\* database and the contract agree, although each has clamped debits of its own
\* in an order of its own; unless the wallet has bought in between.
BooksConverge == \A w \in Holders \ rebought : AtRest(w) => inDb[w] = onChain[w]

\* Even then the database never falls behind: no order of buying, spending,
\* exits, indexing and settling costs a wallet credits that it has paid for.
NoCreditLost == \A w \in Holders : AtRest(w) => inDb[w] >= onChain[w]
=============================================================================
