---------------------------- MODULE CreditsTypes ----------------------------
(***************************************************************************)
(* The constants the credits modules share.  Network is left out: every    *)
(* table, index and query of migration 078 is keyed by it, so one network  *)
(* says all there is.                                                      *)
(***************************************************************************)
EXTENDS Naturals

CONSTANTS
  Wallets,   \* wallet addresses
  Keys,      \* idempotency keys of spends
  Amounts,   \* amounts a spend may ask for
  Notes,     \* on-chain notifications, one per (tx_hash, event_index)
  NoteOf     \* note -> [kind, wallet, credits], what the notification says

\* extractCreditsChainEvents drops notifications of any other name, and those
\* with credits <= 0.
NoteRecord == [kind : {"purchase", "exit"}, wallet : Wallets, credits : Nat \ {0}]

ASSUME NotesAssumption == NoteOf \in [Notes -> NoteRecord]
ASSUME AmountsAssumption == Amounts \subseteq Nat
=============================================================================
