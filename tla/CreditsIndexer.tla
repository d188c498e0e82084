--------------------------- MODULE CreditsIndexer ---------------------------
(***************************************************************************)
(* credits-indexer: cron runs that scan the blocks of the chain and post   *)
(* the notifications of the MiniAppCredits contract to the ledger, with a  *)
(* progress cursor in credit_indexer_state.  Runs may overlap, every RPC   *)
(* and database call of a run may fail, and a call may take effect though  *)
(* its reply is lost.                                                      *)
(*                                                                         *)
(* The ledger is the atomic CreditsBook, which CreditsLedger implements;   *)
(* posting a notification twice is a no-op of the book.  Spends are left   *)
(* out: no guard of the indexer reads a balance.                           *)
(***************************************************************************)
EXTENDS CreditsBook, Integers, Sequences, FiniteSetsExt

CONSTANTS
  MaxHeight,   \* bound on the chain
  Blocks,      \* height -> the notes of the block, in order of its transactions
  StartBlock,  \* CREDITS_INDEXER_START_BLOCK, or None
  MaxBlocks,   \* blocks per run
  Runs,        \* indexer runs that may overlap
  MaxFaults,   \* bound on failed calls and crashes
  None

Heights == 1..MaxHeight

ASSUME HeightAssumption == MaxHeight \in Nat /\ MaxBlocks \in Nat \ {0} /\ MaxFaults \in Nat
ASSUME BlocksAssumption ==
  /\ Blocks \in [Heights -> Seq(Notes)]
  /\ \A g, h \in Heights : \A i \in DOMAIN Blocks[g], j \in DOMAIN Blocks[h] :
       Blocks[g][i] = Blocks[h][j] => g = h /\ i = j
ASSUME StartAssumption == StartBlock \in Nat \cup {None} /\ None \notin Int

Earlier(g, i, h, j) == g < h \/ (g = h /\ i < j)

\* The notes of the chain before note j of block h.
Before(h, j) ==
  {n \in Notes : \E g \in Heights : \E i \in DOMAIN Blocks[g] :
                   Earlier(g, i, h, j) /\ n = Blocks[g][i]}

CreditsIn(P, w, kind) ==
  SumFunctionOnSet([n \in Notes |-> NoteOf[n].credits],
                   {n \in P : NoteOf[n].wallet = w /\ NoteOf[n].kind = kind})

\* The contract burns no more with an exit than the wallet has bought there and
\* not burned before.
ASSUME ExitsAssumption ==
  \A h \in Heights : \A i \in DOMAIN Blocks[h] :
    LET note == NoteOf[Blocks[h][i]]
    IN  note.kind = "exit" =>
          note.credits + CreditsIn(Before(h, i), note.wallet, "exit")
            <= CreditsIn(Before(h, i), note.wallet, "purchase")

VARIABLES
  head,     \* newest persisted block
  cursor,   \* last_processed_block, or None before the first run
  start,    \* history: the cursor the first run has set, or None
  run,      \* run -> where it is
  faults    \* calls that have failed so far

vars == <<bal, debited, posted, head, cursor, start, run, faults>>

\* at: the call the run makes next; to: chain head it read, later the last
\* block to scan; height, done: the block it scans, notes of it applied.
IdleRun == [at |-> "idle", last |-> 0, to |-> 0, height |-> 1, done |-> 0]

RunRecord == [at : {"idle", "load", "boot", "scan", "save"}, last : Nat,
              to : 0..MaxHeight, height : Nat, done : Nat]

TypeOK ==
  /\ BookTypeOK
  /\ head \in 0..MaxHeight
  /\ cursor \in Nat \cup {None}
  /\ start \in Nat \cup {None}
  /\ run \in [Runs -> RunRecord]
  /\ faults \in 0..MaxFaults

Init ==
  /\ BookInit
  /\ head = 0
  /\ cursor = None
  /\ start = None
  /\ run = [r \in Runs |-> IdleRun]
  /\ faults = 0

-----------------------------------------------------------------------------
Goto(r, next) == run' = [run EXCEPT ![r] = next]

AtBlock(at, last, to, h) ==
  [at |-> at, last |-> last, to |-> to, height |-> h, done |-> 0]

Fault == faults < MaxFaults /\ faults' = faults + 1

\* credits_credit_purchase or credits_apply_exit on the ledger.
CreditApplyNoDedupe(n) ==  \* mutant
  /\ bal' = [bal EXCEPT ![NoteOf[n].wallet] = BalanceAfterNote(n)]
  /\ posted' = posted \cup {n}
  /\ UNCHANGED debited
CreditApply(n) ==
  \/ n \in posted /\ UNCHANGED bookVars
  \/ Post(n)

ToBlockUnclamped(last, h) == last + MaxBlocks  \* mutant: no min with the head
ToBlockShort(last, h) == Smaller(last + MaxBlocks, h - 1)  \* mutant: one short
ToBlock(last, h) == Smaller(last + MaxBlocks, h)

\* The run scans last+1 .. ToBlock, or ends because it is up to date.
Scan(r, last) ==
  LET to == ToBlock(last, run[r].to)
  IN  Goto(r, IF last + 1 > to THEN IdleRun
              ELSE AtBlock("scan", last, to, last + 1))

\* A block is persisted.
Grow ==
  /\ head < MaxHeight
  /\ head' = head + 1
  /\ UNCHANGED <<bookVars, cursor, start, run, faults>>

\* getblockcount; an empty chain is an error.
Start(r) ==
  /\ run[r].at = "idle"
  /\ head > 0
  /\ Goto(r, [IdleRun EXCEPT !.at = "load", !.to = head])
  /\ UNCHANGED <<bookVars, head, cursor, start, faults>>

LoadState(r) ==
  /\ run[r].at = "load"
  /\ IF cursor # None THEN Scan(r, cursor)
                      ELSE Goto(r, [run[r] EXCEPT !.at = "boot"])
  /\ UNCHANGED <<bookVars, head, cursor, start, faults>>

FirstBlock(r) == IF StartBlock # None THEN StartBlock ELSE run[r].to

InitializeState(r) ==
  /\ cursor' = FirstBlock(r)
  /\ start' = IF start = None THEN FirstBlock(r) ELSE start

\* The upsert of the first cursor, which overwrites one that another run has
\* written since this run looked.
Bootstrap(r) ==
  /\ run[r].at = "boot"
  /\ InitializeState(r)
  /\ Scan(r, FirstBlock(r))
  /\ UNCHANGED <<bookVars, head, faults>>

BootstrapReplyLost(r) ==
  /\ run[r].at = "boot"
  /\ Fault
  /\ InitializeState(r)
  /\ Goto(r, IdleRun)
  /\ UNCHANGED <<bookVars, head>>

Scanning(r) == run[r].at = "scan" /\ run[r].done < Len(Blocks[run[r].height])

NextNote(r) == Blocks[run[r].height][run[r].done + 1]

ApplyNote(r) ==
  /\ Scanning(r)
  /\ CreditApply(NextNote(r))
  /\ Goto(r, [run[r] EXCEPT !.done = @ + 1])
  /\ UNCHANGED <<head, cursor, start, faults>>

NextBlock(q) ==
  AtBlock(IF q.height = q.to THEN "save" ELSE "scan", q.last, q.to, q.height + 1)

\* The block is complete (lastComplete = height).
BlockComplete(r) ==
  /\ run[r].at = "scan"
  /\ run[r].done = Len(Blocks[run[r].height])
  /\ Goto(r, NextBlock(run[r]))
  /\ UNCHANGED <<bookVars, head, cursor, start, faults>>

\* break scan: the blocks before this one are complete.
Break(r) == Goto(r, [run[r] EXCEPT !.at = "save"])

\* mutant: the failing block is skipped
ScanFailsSkips(r) ==
  /\ run[r].at = "scan"
  /\ Fault
  /\ Goto(r, NextBlock(run[r]))
  /\ UNCHANGED <<bookVars, head, cursor, start>>

\* getblock, getapplicationlog or the ledger fails, and nothing is posted.
ScanFails(r) ==
  /\ run[r].at = "scan"
  /\ Fault
  /\ Break(r)
  /\ UNCHANGED <<bookVars, head, cursor, start>>

\* The ledger commits but the run sees an error.
ApplyReplyLost(r) ==
  /\ Scanning(r)
  /\ Fault
  /\ CreditApply(NextNote(r))
  /\ Break(r)
  /\ UNCHANGED <<head, cursor, start>>

LastComplete(r) == run[r].height - 1

\* mutant: the cursor is set to the block the run was to reach
SaveCursorTarget(r) ==
  /\ run[r].at = "save"
  /\ cursor' = run[r].to
  /\ Goto(r, IdleRun)
  /\ UNCHANGED <<bookVars, head, start, faults>>

\* Unconditional when a block was completed: a run that was overtaken writes
\* an older block over the cursor, which only means a rescan.
SaveCursor(r) ==
  /\ run[r].at = "save"
  /\ cursor' = IF LastComplete(r) > run[r].last THEN LastComplete(r) ELSE cursor
  /\ Goto(r, IdleRun)
  /\ UNCHANGED <<bookVars, head, start, faults>>

\* The run crashes, or a call outside the scan fails, without effect.
Crash(r) ==
  /\ run[r].at # "idle"
  /\ Fault
  /\ Goto(r, IdleRun)
  /\ UNCHANGED <<bookVars, head, cursor, start>>

RunStep(r) ==
  \/ Start(r)
  \/ LoadState(r)
  \/ Bootstrap(r)
  \/ ApplyNote(r)
  \/ BlockComplete(r)
  \/ SaveCursor(r)

RunFault(r) ==
  \/ BootstrapReplyLost(r)
  \/ ScanFails(r)
  \/ ApplyReplyLost(r)
  \/ Crash(r)

Next == Grow \/ \E r \in Runs : RunStep(r) \/ RunFault(r)

Spec == Init /\ [][Next]_vars

\* Cron starts runs again and again, and a run that neither fails nor crashes
\* goes on.  Nothing is assumed of the chain or of the faults but that the
\* faults end.
FairSpec == Spec /\ \A r \in Runs : WF_vars(RunStep(r))

-----------------------------------------------------------------------------
\* Correctness.

BlockNotes(g) == {Blocks[g][i] : i \in DOMAIN Blocks[g]}

\* Blocks whose notifications the indexer answers for: those after the
\* cursor its first run has set.
Owed(g) == start # None /\ start < g

\* The cursor never covers a notification that is not in the ledger: no
\* failure, crash or overlap of runs makes a purchase fall behind the cursor
\* and be lost for good.
CursorSound ==
  cursor # None =>
    \A g \in Heights : Owed(g) /\ g <= cursor => BlockNotes(g) \subseteq posted

\* Notifications reach the ledger in chain order, across overlapping runs and
\* rescans.  The clamp of an exit makes the order matter: an exit posted
\* before the purchase it followed would burn nothing.
InOrder ==
  \A g, h \in Heights :
    \A i \in DOMAIN Blocks[g], j \in DOMAIN Blocks[h] :
      Owed(g) /\ Earlier(g, i, h, j) /\ Blocks[h][j] \in posted => Blocks[g][i] \in posted

PostedCredits(w, kind) == CreditsIn(posted, w, kind)

\* Without spends the ledger mirrors the contract exactly: a balance is what
\* the posted purchases minted less what the posted exits burned, so that no
\* exit was ever clamped and no note counted twice ("Rescanning any block
\* range is a no-op").  It is said of a StartBlock before the first note.
MirrorsChain ==
  StartBlock # None /\ (\A g \in Heights : g <= StartBlock => BlockNotes(g) = {}) =>
    \A w \in Wallets :
      bal[w] + PostedCredits(w, "exit") = PostedCredits(w, "purchase")

\* Every notification of the chain is in the ledger in the end.
EventuallyPosted ==
  \A g \in Heights :
    (g <= head) ~> (BlockNotes(g) \subseteq posted \/ (start # None /\ g <= start))
=============================================================================
