---------------------------- MODULE CreditsBook ----------------------------
(***************************************************************************)
(* What the credits ledger promises, with every operation atomic: a book   *)
(* of balances in which a spend is debited once per idempotency key and a  *)
(* notification of the MiniAppCredits contract is posted once.             *)
(* CreditsLedger, the SQL transactions of migration 078, implements it.    *)
(***************************************************************************)
EXTENDS CreditsTypes

VARIABLES
  bal,       \* credit_balances.balance of each wallet
  debited,   \* <<wallet, key>> of the spends in the log
  posted     \* notes in the log

bookVars == <<bal, debited, posted>>

Smaller(a, b) == IF a <= b THEN a ELSE b

BookTypeOK ==
  /\ bal \in [Wallets -> Nat]
  /\ debited \subseteq Wallets \X Keys
  /\ posted \subseteq Notes

BookInit ==
  /\ bal = [w \in Wallets |-> 0]
  /\ debited = {}
  /\ posted = {}

Debit(w, k, a) ==
  /\ a \in 1..bal[w]
  /\ <<w, k>> \notin debited
  /\ bal' = [bal EXCEPT ![w] = @ - a]
  /\ debited' = debited \cup {<<w, k>>}
  /\ UNCHANGED posted

\* A purchase adds the credits minted on chain; an exit takes away what the
\* chain burned, but never more than the wallet still has here.
BalanceAfterNote(n) ==
  LET note == NoteOf[n]
      old  == bal[note.wallet]
  IN  IF note.kind = "purchase" THEN old + note.credits
                                ELSE old - Smaller(old, note.credits)

Post(n) ==
  /\ n \notin posted
  /\ bal' = [bal EXCEPT ![NoteOf[n].wallet] = BalanceAfterNote(n)]
  /\ posted' = posted \cup {n}
  /\ UNCHANGED debited

BookNext ==
  \/ \E w \in Wallets, k \in Keys, a \in Amounts : Debit(w, k, a)
  \/ \E n \in Notes : Post(n)

BookSpec == BookInit /\ [][BookNext]_bookVars
=============================================================================
