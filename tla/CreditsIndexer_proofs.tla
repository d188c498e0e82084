----------------------- MODULE CreditsIndexer_proofs -----------------------
(***************************************************************************)
(* Proofs about CreditsIndexer, for every chain, every number of           *)
(* overlapping runs and every bound, given CREDITS_INDEXER_START_BLOCK.    *)
(***************************************************************************)
EXTENDS CreditsIndexer, FiniteSums, TLAPS

\* The blocks after the start block, up to height h, are in P.
PostedIn(h, P) == \A g \in Heights : StartBlock < g /\ g <= h => BlockNotes(g) \subseteq P

\* With a start block configured every first run sets the same cursor.
StartFixed ==
  /\ start \in {None, StartBlock}
  /\ cursor # None => start # None
  /\ start = None => posted = {}

\* A run only works after the cursor it loaded, block by block and note by
\* note, so that all it has passed is posted.
RunSound ==
  \A r \in Runs :
    /\ run[r].at \in {"scan", "save"} => start # None /\ PostedIn(run[r].height - 1, posted)
    /\ run[r].at = "scan" =>
         /\ run[r].height \in Heights
         /\ run[r].height <= run[r].to
         /\ run[r].done \in 0..Len(Blocks[run[r].height])
         /\ StartBlock < run[r].height =>
              \A i \in 1..run[r].done : Blocks[run[r].height][i] \in posted

Sound == StartFixed /\ RunSound /\ CursorSound /\ InOrder

\* What of RunSound holds without a start block: a run stays in its window and
\* in its block.
InBlock(q) ==
  q.at = "scan" => /\ q.height \in Heights
                   /\ q.height <= q.to
                   /\ q.done \in 0..Len(Blocks[q.height])

RunInBlock == \A r \in Runs : InBlock(run[r])

-----------------------------------------------------------------------------
LEMMA BlockNoteType ==
  ASSUME NEW g \in Heights
  PROVE  /\ Blocks[g] \in Seq(Notes)
         /\ DOMAIN Blocks[g] = 1..Len(Blocks[g])
         /\ Len(Blocks[g]) \in Nat
         /\ \A i \in 1..Len(Blocks[g]) : Blocks[g][i] \in Notes
BY BlocksAssumption

LEMMA NoteWalletType ==
  ASSUME NEW n \in Notes
  PROVE  /\ NoteOf[n].wallet \in Wallets
         /\ NoteOf[n].credits \in Nat
         /\ NoteOf[n].kind \in {"purchase", "exit"}
BY NotesAssumption DEF NoteRecord

\* What applying a note does to the book.
LEMMA ApplyFacts ==
  ASSUME BookTypeOK, NEW n \in Notes, CreditApply(n)
  PROVE  posted' = posted \cup {n} /\ BookTypeOK'
<1>1. CASE n \in posted /\ UNCHANGED bookVars
  BY <1>1 DEF bookVars, BookTypeOK
<1>2. CASE Post(n)
  <2>1. BalanceAfterNote(n) \in Nat
    BY NoteWalletType DEF BalanceAfterNote, Smaller, BookTypeOK
  <2> QED
    BY <1>2, <2>1, NoteWalletType DEF Post, BookTypeOK
<1> QED
  BY <1>1, <1>2 DEF CreditApply

LEMMA NextNoteType ==
  ASSUME RunInBlock, NEW r \in Runs, Scanning(r)
  PROVE  /\ run[r].height \in Heights
         /\ run[r].done + 1 \in DOMAIN Blocks[run[r].height]
         /\ NextNote(r) \in Notes
<1>1. run[r].height \in Heights /\ run[r].done \in 0..Len(Blocks[run[r].height])
  BY DEF RunInBlock, InBlock, Scanning
<1>2. run[r].done + 1 \in 1..Len(Blocks[run[r].height])
  BY <1>1, BlockNoteType DEF Scanning
<1> QED
  BY <1>1, <1>2, BlockNoteType DEF NextNote

\* Where a run goes once it knows its cursor.
LEMMA ScanFacts ==
  ASSUME TypeOK, NEW r \in Runs, NEW last \in Nat, Scan(r, last)
  PROVE  \/ run' = [run EXCEPT ![r] = IdleRun]
         \/ \E to \in 0..MaxHeight :
              /\ last + 1 <= to
              /\ run' = [run EXCEPT ![r] = AtBlock("scan", last, to, last + 1)]
<1> DEFINE to == ToBlock(last, run[r].to)
<1>1. to \in 0..MaxHeight
  <2>1. run[r].to \in 0..MaxHeight
    BY DEF TypeOK, RunRecord
  <2> QED
    BY <2>1, HeightAssumption DEF ToBlock, Smaller
<1>2. CASE last + 1 > to
  BY <1>2 DEF Scan, Goto
<1>3. CASE ~(last + 1 > to)
  <2>1. last + 1 <= to
    BY <1>1, <1>3
  <2> QED
    BY <1>1, <1>3, <2>1 DEF Scan, Goto
<1> QED
  BY <1>2, <1>3

LEMMA IdleRunType == IdleRun \in RunRecord
BY HeightAssumption DEF IdleRun, RunRecord

LEMMA SoundInBlock == RunSound => RunInBlock
BY DEF RunSound, RunInBlock, InBlock

LEMMA TypeOKStep ==
  ASSUME TypeOK, RunInBlock, [Next]_vars
  PROVE  TypeOK'
<1> USE DEF TypeOK
<1>1. CASE UNCHANGED vars
  BY <1>1 DEF vars, BookTypeOK
<1>2. CASE Grow
  BY <1>2, HeightAssumption DEF Grow, bookVars, BookTypeOK
<1>3. ASSUME NEW r \in Runs, Start(r) PROVE TypeOK'
  <2>1. [IdleRun EXCEPT !.at = "load", !.to = head] \in RunRecord
    BY HeightAssumption DEF IdleRun, RunRecord
  <2> QED
    BY <1>3, <2>1 DEF Start, Goto, bookVars, BookTypeOK
<1>4. ASSUME NEW r \in Runs, NEW last \in Nat, Scan(r, last) PROVE run' \in [Runs -> RunRecord]
  BY <1>4, ScanFacts, IdleRunType DEF RunRecord, AtBlock
<1>5. \A r \in Runs : FirstBlock(r) \in Nat
  BY StartAssumption, HeightAssumption DEF FirstBlock, RunRecord
<1>6. ASSUME NEW r \in Runs, LoadState(r) PROVE TypeOK'
  <2>1. CASE cursor # None
    <3>1. cursor \in Nat /\ Scan(r, cursor)
      BY <1>6, <2>1 DEF LoadState
    <3> QED
      BY <1>4, <1>6, <3>1 DEF LoadState, bookVars, BookTypeOK
  <2>2. CASE cursor = None
    <3>1. [run[r] EXCEPT !.at = "boot"] \in RunRecord
      BY DEF RunRecord
    <3> QED
      BY <1>6, <2>2, <3>1 DEF LoadState, Goto, bookVars, BookTypeOK
  <2> QED
    BY <2>1, <2>2
<1>7. ASSUME NEW r \in Runs, Bootstrap(r) PROVE TypeOK'
  BY <1>4, <1>5, <1>7 DEF Bootstrap, InitializeState, bookVars, BookTypeOK
<1>8. ASSUME NEW r \in Runs, BootstrapReplyLost(r) PROVE TypeOK'
  BY <1>5, <1>8, IdleRunType, HeightAssumption
     DEF BootstrapReplyLost, InitializeState, Goto, Fault, bookVars, BookTypeOK
<1>9. ASSUME NEW r \in Runs, Scanning(r), CreditApply(NextNote(r)) PROVE BookTypeOK'
  BY <1>9, NextNoteType, ApplyFacts
<1>10. ASSUME NEW r \in Runs, ApplyNote(r) PROVE TypeOK'
  <2>1. [run[r] EXCEPT !.done = @ + 1] \in RunRecord
    BY DEF RunRecord
  <2> QED
    BY <1>9, <1>10, <2>1 DEF ApplyNote, Goto
<1>11. ASSUME NEW r \in Runs, ApplyReplyLost(r) PROVE TypeOK'
  <2>1. [run[r] EXCEPT !.at = "save"] \in RunRecord
    BY DEF RunRecord
  <2> QED
    BY <1>9, <1>11, <2>1, HeightAssumption DEF ApplyReplyLost, Break, Goto, Fault
<1>12. ASSUME NEW r \in Runs, ScanFails(r) PROVE TypeOK'
  <2>1. [run[r] EXCEPT !.at = "save"] \in RunRecord
    BY DEF RunRecord
  <2> QED
    BY <1>12, <2>1, HeightAssumption DEF ScanFails, Break, Goto, Fault, bookVars, BookTypeOK
<1>13. ASSUME NEW r \in Runs, BlockComplete(r) PROVE TypeOK'
  <2>1. NextBlock(run[r]) \in RunRecord
    BY DEF NextBlock, AtBlock, RunRecord
  <2> QED
    BY <1>13, <2>1 DEF BlockComplete, Goto, bookVars, BookTypeOK
<1>14. ASSUME NEW r \in Runs, SaveCursor(r) PROVE TypeOK'
  <2>1. LastComplete(r) > run[r].last => LastComplete(r) \in Nat
    BY DEF LastComplete, RunRecord
  <2> QED
    BY <1>14, <2>1, IdleRunType DEF SaveCursor, Goto, bookVars, BookTypeOK
<1>15. ASSUME NEW r \in Runs, Crash(r) PROVE TypeOK'
  BY <1>15, IdleRunType, HeightAssumption DEF Crash, Goto, Fault, bookVars, BookTypeOK
<1> QED
  BY <1>1, <1>2, <1>3, <1>6, <1>7, <1>8, <1>10, <1>11, <1>12, <1>13, <1>14, <1>15
     DEF Next, RunStep, RunFault

-----------------------------------------------------------------------------
\* A step of run r leaves the others in their blocks.

LEMMA OthersInBlock ==
  ASSUME TypeOK, RunInBlock, NEW r \in Runs, NEW q, InBlock(q),
         run' = [run EXCEPT ![r] = q]
  PROVE  RunInBlock'
<1>1. \A s \in Runs : run'[s] = IF s = r THEN q ELSE run[s]
  BY DEF TypeOK
<1> QED
  BY <1>1 DEF RunInBlock, InBlock

LEMMA ScanInBlock ==
  ASSUME TypeOK, RunInBlock, NEW r \in Runs, NEW last \in Nat, Scan(r, last)
  PROVE  RunInBlock'
<1>1. InBlock(IdleRun)
  BY DEF InBlock, IdleRun
<1>2. ASSUME NEW to \in 0..MaxHeight, last + 1 <= to
      PROVE  InBlock(AtBlock("scan", last, to, last + 1))
  <2>1. last + 1 \in Heights
    BY <1>2, HeightAssumption DEF Heights
  <2> QED
    BY <1>2, <2>1, BlockNoteType DEF InBlock, AtBlock
<1> QED
  BY <1>1, <1>2, ScanFacts, OthersInBlock

LEMMA RunInBlockStep ==
  ASSUME TypeOK, RunInBlock, [Next]_vars
  PROVE  RunInBlock'
<1>1. CASE UNCHANGED run
  BY <1>1 DEF RunInBlock, InBlock
<1>2. InBlock(IdleRun)
  BY DEF InBlock, IdleRun
<1>3. ASSUME NEW r \in Runs, run' = [run EXCEPT ![r] = IdleRun] PROVE RunInBlock'
  BY <1>2, <1>3, OthersInBlock
<1>4. ASSUME NEW r \in Runs, Start(r) PROVE RunInBlock'
  <2>1. InBlock([IdleRun EXCEPT !.at = "load", !.to = head])
    BY DEF InBlock, IdleRun
  <2> QED
    BY <1>4, <2>1, OthersInBlock DEF Start, Goto
<1>5. ASSUME NEW r \in Runs, LoadState(r) PROVE RunInBlock'
  <2>1. CASE cursor # None
    BY <1>5, <2>1, ScanInBlock DEF LoadState, TypeOK
  <2>2. CASE cursor = None
    <3>1. InBlock([run[r] EXCEPT !.at = "boot"])
      BY DEF InBlock, TypeOK, RunRecord
    <3> QED
      BY <1>5, <2>2, <3>1, OthersInBlock DEF LoadState, Goto
  <2> QED
    BY <2>1, <2>2
<1>6. ASSUME NEW r \in Runs, Bootstrap(r) PROVE RunInBlock'
  <2>1. FirstBlock(r) \in Nat
    BY StartAssumption, HeightAssumption DEF FirstBlock, TypeOK, RunRecord
  <2> QED
    BY <1>6, <2>1, ScanInBlock DEF Bootstrap
<1>7. ASSUME NEW r \in Runs, ApplyNote(r) PROVE RunInBlock'
  <2>1. /\ run[r].height \in Heights /\ run[r].height <= run[r].to
        /\ run[r].done + 1 \in 0..Len(Blocks[run[r].height])
    BY <1>7, NextNoteType, BlockNoteType DEF ApplyNote, RunInBlock, InBlock, Scanning
  <2>2. InBlock([run[r] EXCEPT !.done = @ + 1])
    BY <2>1 DEF InBlock, TypeOK, RunRecord
  <2> QED
    BY <1>7, <2>2, OthersInBlock DEF ApplyNote, Goto
<1>8. ASSUME NEW r \in Runs, Break(r) PROVE RunInBlock'
  <2>1. InBlock([run[r] EXCEPT !.at = "save"])
    BY DEF InBlock, TypeOK, RunRecord
  <2> QED
    BY <1>8, <2>1, OthersInBlock DEF Break, Goto
<1>9. ASSUME NEW r \in Runs, BlockComplete(r) PROVE RunInBlock'
  <2>1. /\ run[r].height \in Heights /\ run[r].height <= run[r].to
        /\ run[r].to \in 0..MaxHeight
    BY <1>9 DEF BlockComplete, RunInBlock, InBlock, TypeOK, RunRecord
  <2>2. CASE run[r].height = run[r].to
    BY <1>9, <2>2, OthersInBlock DEF BlockComplete, Goto, NextBlock, AtBlock, InBlock
  <2>3. CASE run[r].height # run[r].to
    <3>1. run[r].height + 1 \in Heights /\ run[r].height + 1 <= run[r].to
      BY <2>1, <2>3, HeightAssumption DEF Heights
    <3>2. InBlock(NextBlock(run[r]))
      BY <2>3, <3>1, BlockNoteType DEF NextBlock, AtBlock, InBlock
    <3> QED
      BY <1>9, <3>2, OthersInBlock DEF BlockComplete, Goto
  <2> QED
    BY <2>2, <2>3
<1> QED
  BY <1>1, <1>3, <1>4, <1>5, <1>6, <1>7, <1>8, <1>9
     DEF Next, RunStep, RunFault, Grow, BootstrapReplyLost, ScanFails, ApplyReplyLost,
         SaveCursor, Crash, Goto, vars

-----------------------------------------------------------------------------
\* A step of run r leaves the others sound as long as the book only grows.

LEMMA OthersSound ==
  ASSUME TypeOK, RunSound, NEW r \in Runs, NEW q, run' = [run EXCEPT ![r] = q],
         posted \subseteq posted', start # None => start' # None,
         q.at \in {"scan", "save"} => start' # None /\ PostedIn(q.height - 1, posted'),
         q.at = "scan" =>
           /\ q.height \in Heights
           /\ q.height <= q.to
           /\ q.done \in 0..Len(Blocks[q.height])
           /\ StartBlock < q.height => \A i \in 1..q.done : Blocks[q.height][i] \in posted'
  PROVE  RunSound'
<1>1. \A s \in Runs : run'[s] = IF s = r THEN q ELSE run[s]
  BY DEF TypeOK
<1>2. \A h : PostedIn(h, posted) => PostedIn(h, posted')
  BY DEF PostedIn
<1> QED
  BY <1>1, <1>2 DEF RunSound

\* Posting the next note of a run keeps the ledger in chain order.
LEMMA ApplyInOrder ==
  ASSUME TypeOK, Sound, NEW r \in Runs, Scanning(r), CreditApply(NextNote(r)),
         UNCHANGED <<cursor, start>>
  PROVE  /\ posted' = posted \cup {NextNote(r)}
         /\ CursorSound' /\ InOrder' /\ StartFixed'
<1> DEFINE h == run[r].height
           i == run[r].done + 1
<1>1. /\ h \in Heights /\ i \in DOMAIN Blocks[h] /\ NextNote(r) \in Notes
      /\ NextNote(r) = Blocks[h][i]
  BY NextNoteType, SoundInBlock DEF Sound, NextNote
<1>2. posted' = posted \cup {Blocks[h][i]}
  BY <1>1, ApplyFacts DEF TypeOK
<1>3. CursorSound' /\ StartFixed'
  <2>1. start # None
    BY DEF Scanning, Sound, RunSound
  <2> QED
    BY <1>2, <2>1 DEF Sound, CursorSound, StartFixed, Owed
<1>4. InOrder'
  <2>1. PICK n \in Notes : n = Blocks[h][i]
    BY <1>1
  <2>2. PICK hh \in Heights : hh = h
    BY <1>1
  <2>3. PICK ii \in DOMAIN Blocks[hh] : ii = i
    BY <1>1, <2>2
  <2>4. /\ n = Blocks[hh][ii] /\ posted' = posted \cup {n}
    BY <1>2, <2>1, <2>2, <2>3
  <2>5. /\ start = StartBlock /\ StartBlock \in Nat
        /\ PostedIn(hh - 1, posted)
        /\ StartBlock < hh => \A j \in 1..(ii - 1) : Blocks[hh][j] \in posted
    <3>1. run[r].at = "scan" /\ run[r].done \in Nat
      BY DEF Scanning, TypeOK, RunRecord
    <3>2. start # None /\ start \in Nat
      BY <3>1 DEF Sound, RunSound, TypeOK
    <3> QED
      BY <2>2, <2>3, <3>1, <3>2 DEF Sound, RunSound, StartFixed
  <2> SUFFICES ASSUME NEW f \in Heights, NEW g \in Heights,
                      NEW k \in DOMAIN Blocks[f], NEW j \in DOMAIN Blocks[g],
                      Owed(f), Earlier(f, k, g, j), Blocks[g][j] \in posted'
               PROVE  Blocks[f][k] \in posted'
    BY DEF InOrder, Owed
  <2>6. CASE Blocks[g][j] \in posted
    BY <2>4, <2>6 DEF Sound, InOrder
  <2>7. CASE Blocks[g][j] = n
    <3>1. g = hh /\ j = ii
      BY <2>4, <2>7, BlocksAssumption
    <3>2. CASE f < hh
      <4>1. f <= hh - 1 /\ StartBlock < f
        BY <2>5, <3>2 DEF Owed, Heights
      <4> QED
        BY <2>4, <2>5, <4>1 DEF PostedIn, BlockNotes
    <3>3. CASE f = hh /\ k < ii
      <4>1. k \in 1..(ii - 1)
        BY <3>3, <2>3, BlockNoteType
      <4> QED
        BY <2>4, <2>5, <3>3, <4>1 DEF Owed
    <3> QED
      BY <3>1, <3>2, <3>3 DEF Earlier
  <2> QED
    BY <2>4, <2>6, <2>7
<1> QED
  BY <1>1, <1>2, <1>3, <1>4

\* A run starts to scan at a cursor below which everything is posted.
LEMMA ScanSound ==
  ASSUME TypeOK, RunSound, NEW r \in Runs, NEW last \in Nat, Scan(r, last),
         UNCHANGED posted, start' # None, PostedIn(last, posted)
  PROVE  RunSound'
<1>1. CASE run' = [run EXCEPT ![r] = IdleRun]
  BY <1>1, OthersSound DEF IdleRun
<1>2. ASSUME NEW to \in 0..MaxHeight, last + 1 <= to,
             run' = [run EXCEPT ![r] = AtBlock("scan", last, to, last + 1)]
      PROVE  RunSound'
  <2>1. last + 1 \in Heights
    BY <1>2, HeightAssumption DEF Heights
  <2>2. 0 \in 0..Len(Blocks[last + 1]) /\ (last + 1) - 1 = last
    BY <2>1, BlockNoteType
  <2>3. PICK q : q = AtBlock("scan", last, to, last + 1)
    OBVIOUS
  <2>4. /\ q.at = "scan" /\ q.height = last + 1 /\ q.height <= q.to /\ q.done = 0
        /\ q.height - 1 = last /\ q.height \in Heights
        /\ q.done \in 0..Len(Blocks[q.height])
        /\ \A i \in 1..q.done : Blocks[q.height][i] \in posted'
    BY <1>2, <2>1, <2>2, <2>3 DEF AtBlock
  <2> QED
    BY <1>2, <2>3, <2>4, OthersSound
<1> QED
  BY <1>1, <1>2, ScanFacts

\* A step that leaves the book, the cursor and the start alone.
LEMMA StillSound ==
  ASSUME Sound, UNCHANGED <<posted, cursor, start>>
  PROVE  StartFixed' /\ CursorSound' /\ InOrder'
BY DEF Sound, StartFixed, CursorSound, InOrder, Owed

LEMMA SoundStep ==
  ASSUME TypeOK, Sound, [Next]_vars, StartBlock # None
  PROVE  Sound'
<1>1. CASE UNCHANGED vars
  BY <1>1, StillSound DEF vars, Sound, RunSound
<1>2. CASE Grow
  BY <1>2, StillSound DEF Grow, bookVars, Sound, RunSound
<1>3. ASSUME NEW r \in Runs, Start(r) PROVE Sound'
  <2>1. [IdleRun EXCEPT !.at = "load", !.to = head].at = "load"
    BY DEF IdleRun
  <2> QED
    BY <1>3, <2>1, StillSound, OthersSound DEF Start, Goto, bookVars, Sound
<1>4. ASSUME NEW r \in Runs, LoadState(r) PROVE Sound'
  <2>1. CASE cursor # None
    <3>1. cursor \in Nat /\ start = StartBlock /\ start # None
      BY <2>1 DEF TypeOK, Sound, StartFixed
    <3>2. PostedIn(cursor, posted)
      BY <2>1, <3>1 DEF Sound, CursorSound, PostedIn, Owed
    <3> QED
      BY <1>4, <2>1, <3>1, <3>2, ScanSound, StillSound DEF LoadState, bookVars, Sound
  <2>2. CASE cursor = None
    <3>1. [run[r] EXCEPT !.at = "boot"].at = "boot"
      BY DEF TypeOK, RunRecord
    <3> QED
      BY <1>4, <2>2, <3>1, StillSound, OthersSound DEF LoadState, Goto, bookVars, Sound
  <2> QED
    BY <2>1, <2>2
<1>5. ASSUME NEW r \in Runs, InitializeState(r), UNCHANGED posted
      PROVE  /\ StartFixed' /\ CursorSound' /\ InOrder'
             /\ start' = StartBlock /\ FirstBlock(r) = StartBlock
             /\ PostedIn(StartBlock, posted)
  <2>1. StartBlock \in Nat /\ FirstBlock(r) = StartBlock
    BY StartAssumption DEF FirstBlock
  <2>2. start' = StartBlock /\ cursor' = StartBlock
    BY <1>5, <2>1 DEF InitializeState, Sound, StartFixed
  <2>3. PostedIn(StartBlock, posted)
    BY <2>1 DEF PostedIn, Heights
  <2>4. CursorSound'
    BY <2>1, <2>2 DEF CursorSound, Owed, Heights
  <2>5. InOrder'
    <3>1. CASE start = None
      <4>1. posted' = {}
        BY <1>5, <3>1 DEF Sound, StartFixed
      <4> QED
        BY <4>1 DEF InOrder
    <3>2. CASE start # None
      BY <1>5, <2>2, <3>2 DEF Sound, StartFixed, InOrder, Owed
    <3> QED
      BY <3>1, <3>2
  <2> QED
    BY <2>1, <2>2, <2>3, <2>4, <2>5 DEF StartFixed
<1>6. ASSUME NEW r \in Runs, Bootstrap(r) PROVE Sound'
  <2>1. StartBlock \in Nat /\ UNCHANGED posted
    BY <1>6, StartAssumption DEF Bootstrap, bookVars
  <2> QED
    BY <1>5, <1>6, <2>1, ScanSound DEF Bootstrap, Sound
<1>7. ASSUME NEW r \in Runs, BootstrapReplyLost(r) PROVE Sound'
  <2>1. IdleRun.at = "idle"
    BY DEF IdleRun
  <2> QED
    BY <1>5, <1>7, <2>1, OthersSound, StartAssumption DEF BootstrapReplyLost, Goto, bookVars, Sound
<1>8. ASSUME NEW r \in Runs, Scanning(r), CreditApply(NextNote(r)),
             UNCHANGED <<cursor, start>>
      PROVE  /\ posted' = posted \cup {NextNote(r)}
             /\ StartFixed' /\ CursorSound' /\ InOrder'
  BY <1>8, ApplyInOrder
<1>9. ASSUME NEW r \in Runs, ApplyNote(r) PROVE Sound'
  <2>1. Scanning(r) /\ CreditApply(NextNote(r)) /\ UNCHANGED <<cursor, start>>
    BY <1>9 DEF ApplyNote
  <2>2. PICK q : q = [run[r] EXCEPT !.done = @ + 1]
    OBVIOUS
  <2>3. run[r] \in RunRecord
    BY DEF TypeOK
  <2>4. /\ q.at = "scan" /\ q.height = run[r].height /\ q.to = run[r].to
        /\ q.done = run[r].done + 1
        /\ run' = [run EXCEPT ![r] = q]
    BY <1>9, <2>1, <2>2, <2>3 DEF ApplyNote, Goto, Scanning, RunRecord
  <2>5. /\ q.height \in Heights /\ q.done \in 1..Len(Blocks[q.height])
        /\ q.height <= q.to /\ start # None
        /\ PostedIn(q.height - 1, posted)
        /\ StartBlock < q.height => \A i \in 1..run[r].done : Blocks[q.height][i] \in posted
    BY <2>1, <2>4, NextNoteType, BlockNoteType, SoundInBlock DEF Sound, RunSound, Scanning
  <2>6. posted' = posted \cup {Blocks[q.height][q.done]}
    BY <1>8, <2>1, <2>4 DEF NextNote
  <2>7. PostedIn(q.height - 1, posted')
    BY <2>5, <2>6 DEF PostedIn
  <2>8. StartBlock < q.height => \A i \in 1..q.done : Blocks[q.height][i] \in posted'
    <3>1. run[r].done \in Nat
      BY <2>3 DEF RunRecord
    <3>2. \A i \in 1..q.done : i = q.done \/ i \in 1..run[r].done
      BY <2>4, <3>1
    <3> QED
      BY <2>5, <2>6, <3>2
  <2>9. q.done \in 0..Len(Blocks[q.height])
    BY <2>5, BlockNoteType
  <2> QED
    BY <1>8, <2>1, <2>4, <2>5, <2>6, <2>7, <2>8, <2>9, OthersSound DEF Sound
<1>10. ASSUME NEW r \in Runs, run[r].at = "scan", Break(r), posted \subseteq posted',
              UNCHANGED start
       PROVE  RunSound'
  <2>1. PICK q : q = [run[r] EXCEPT !.at = "save"]
    OBVIOUS
  <2>2. q.at = "save" /\ q.height = run[r].height
    BY <2>1 DEF TypeOK, RunRecord
  <2>3. run' = [run EXCEPT ![r] = q]
    BY <1>10, <2>1 DEF Break, Goto
  <2>4. start # None /\ PostedIn(q.height - 1, posted')
    BY <1>10, <2>2 DEF Sound, RunSound, PostedIn
  <2> QED
    BY <1>10, <2>2, <2>3, <2>4, OthersSound DEF Sound
<1>11. ASSUME NEW r \in Runs, ApplyReplyLost(r) PROVE Sound'
  BY <1>8, <1>10, <1>11 DEF ApplyReplyLost, Scanning, Sound
<1>12. ASSUME NEW r \in Runs, ScanFails(r) PROVE Sound'
  BY <1>10, <1>12, StillSound DEF ScanFails, bookVars, Sound
<1>13. ASSUME NEW r \in Runs, BlockComplete(r) PROVE Sound'
  <2>1. run[r] \in RunRecord
    BY DEF TypeOK
  <2>2. PICK q : q = NextBlock(run[r])
    OBVIOUS
  <2>3. /\ run' = [run EXCEPT ![r] = q]
        /\ q.height = run[r].height + 1 /\ q.to = run[r].to /\ q.done = 0
        /\ q.at = "scan" => run[r].height # run[r].to
        /\ q.height - 1 = run[r].height
    BY <1>13, <2>1, <2>2 DEF BlockComplete, Goto, NextBlock, AtBlock, RunRecord
  <2>4. /\ run[r].height \in Heights /\ run[r].height <= run[r].to /\ start # None
        /\ PostedIn(run[r].height - 1, posted)
        /\ StartBlock < run[r].height => BlockNotes(run[r].height) \subseteq posted
    BY <1>13, BlockNoteType DEF BlockComplete, Sound, RunSound, BlockNotes
  <2>5. PostedIn(run[r].height, posted)
    BY <2>4 DEF PostedIn, Heights
  <2>6. q.at = "scan" => /\ q.height \in Heights /\ q.height <= q.to
                         /\ q.done \in 0..Len(Blocks[q.height])
    <3>1. run[r].to \in 0..MaxHeight /\ run[r].height \in Nat
      BY <2>1 DEF RunRecord
    <3>2. q.at = "scan" => q.height \in Heights /\ q.height <= q.to
      BY <2>3, <2>4, <3>1, HeightAssumption DEF Heights
    <3> QED
      BY <2>3, <3>2, BlockNoteType
  <2>7. UNCHANGED <<posted, cursor, start>>
    BY <1>13 DEF BlockComplete, bookVars
  <2>8. StartBlock < q.height => \A i \in 1..q.done : Blocks[q.height][i] \in posted'
    BY <2>3
  <2> QED
    BY <2>3, <2>4, <2>5, <2>6, <2>7, <2>8, OthersSound, StillSound DEF Sound
<1>14. ASSUME NEW r \in Runs, SaveCursor(r) PROVE Sound'
  <2>1. /\ run[r].at = "save" /\ start # None /\ PostedIn(LastComplete(r), posted)
        /\ cursor' \in {cursor, LastComplete(r)}
        /\ UNCHANGED <<posted, start>>
        /\ run' = [run EXCEPT ![r] = IdleRun]
    BY <1>14 DEF SaveCursor, Sound, RunSound, LastComplete, Goto, bookVars
  <2>2. start = StartBlock
    BY <2>1 DEF Sound, StartFixed
  <2>3. CursorSound'
    BY <2>1, <2>2 DEF Sound, CursorSound, PostedIn, Owed
  <2>4. InOrder' /\ StartFixed'
    BY <2>1 DEF Sound, InOrder, StartFixed, Owed
  <2>5. IdleRun.at = "idle"
    BY DEF IdleRun
  <2> QED
    BY <2>1, <2>3, <2>4, <2>5, OthersSound DEF Sound
<1>15. ASSUME NEW r \in Runs, Crash(r) PROVE Sound'
  <2>1. IdleRun.at = "idle"
    BY DEF IdleRun
  <2> QED
    BY <1>15, <2>1, StillSound, OthersSound DEF Crash, Goto, bookVars, Sound
<1> QED
  BY <1>1, <1>2, <1>3, <1>4, <1>6, <1>7, <1>9, <1>11, <1>12, <1>13, <1>14, <1>15
     DEF Next, RunStep, RunFault

LEMMA InitSound == Init => TypeOK /\ Sound
<1> SUFFICES ASSUME Init PROVE TypeOK /\ Sound
  OBVIOUS
<1>1. TypeOK
  BY IdleRunType, HeightAssumption DEF Init, BookInit, TypeOK, BookTypeOK
<1>2. Sound
  BY DEF Init, BookInit, IdleRun, Sound, StartFixed, RunSound, CursorSound, InOrder, Owed
<1> QED
  BY <1>1, <1>2

-----------------------------------------------------------------------------
\* With a start block configured, whatever runs overlap and whatever calls
\* fail, no notification after it falls behind the cursor unposted, and
\* notifications are posted in chain order.
THEOREM NothingSkipped ==
  ASSUME StartBlock # None
  PROVE  Spec => [](TypeOK /\ CursorSound /\ InOrder)
<1>1. Init => TypeOK /\ Sound
  BY InitSound
<1>2. TypeOK /\ Sound /\ [Next]_vars => (TypeOK /\ Sound)'
  BY TypeOKStep, SoundStep, SoundInBlock DEF Sound
<1>3. TypeOK /\ Sound => TypeOK /\ CursorSound /\ InOrder
  BY DEF Sound
<1> QED
  BY <1>1, <1>2, <1>3, PTL DEF Spec

\* The ledger receives the notifications after the start block in the order of
\* the chain: an exit is never posted before the purchase it followed, though
\* runs overlap, break off and scan a block again.
THEOREM NotesInOrder ==
  ASSUME StartBlock # None
  PROVE  Spec => []InOrder
<1>1. TypeOK /\ CursorSound /\ InOrder => InOrder
  OBVIOUS
<1> QED
  BY <1>1, NothingSkipped, PTL

\* With or without a start block, no overlap of runs and no failed call takes
\* a run out of the chain it has seen or past the notes of its block.
THEOREM TypeCorrect == Spec => []TypeOK
<1>1. Init => TypeOK /\ RunInBlock
  BY InitSound, SoundInBlock DEF Sound
<1>2. TypeOK /\ RunInBlock /\ [Next]_vars => (TypeOK /\ RunInBlock)'
  BY TypeOKStep, RunInBlockStep
<1> QED
  BY <1>1, <1>2, PTL DEF Spec

-----------------------------------------------------------------------------
\* The ledger mirrors the contract.

\* One more note counts with its wallet and kind.
LEMMA CreditsMore ==
  ASSUME NEW P \in SUBSET Notes, IsFiniteSet(P), NEW n \in Notes, n \notin P, NEW w, NEW kind
  PROVE  /\ CreditsIn(P, w, kind) \in Nat
         /\ CreditsIn(P \cup {n}, w, kind)
              = IF NoteOf[n].wallet = w /\ NoteOf[n].kind = kind
                THEN CreditsIn(P, w, kind) + NoteOf[n].credits ELSE CreditsIn(P, w, kind)
<1> DEFINE f == [m \in Notes |-> NoteOf[m].credits]
           S(Q) == {m \in Q : NoteOf[m].wallet = w /\ NoteOf[m].kind = kind}
<1>1. \A m \in Notes : f[m] \in Nat /\ f[m] = NoteOf[m].credits
  BY NoteWalletType
<1>2. IsFiniteSet(S(P)) /\ S(P) \subseteq Notes /\ n \notin S(P)
  BY FS_Subset
<1>3. CreditsIn(P, w, kind) = SumFunctionOnSet(f, S(P))
      /\ CreditsIn(P \cup {n}, w, kind) = SumFunctionOnSet(f, S(P \cup {n}))
  BY DEF CreditsIn
<1>4. S(P \cup {n}) = IF NoteOf[n].wallet = w /\ NoteOf[n].kind = kind THEN S(P) \cup {n} ELSE S(P)
  OBVIOUS
<1> HIDE DEF f, S
<1>5. SumFunctionOnSet(f, S(P)) \in Nat
  BY <1>1, <1>2, SumNat
<1>6. SumFunctionOnSet(f, S(P) \cup {n}) = f[n] + SumFunctionOnSet(f, S(P))
  <2>1. \A m \in S(P) \cup {n} : f[m] \in Int
    BY <1>1, <1>2
  <2> QED
    BY <1>2, <2>1, SumAdd
<1> QED
  BY <1>1, <1>3, <1>4, <1>5, <1>6

\* With nothing to post before the start block, the posted notes are notes of the
\* blocks, and explain the balances.
Mirrored ==
  /\ IsFiniteSet(posted)
  /\ \A n \in posted : \E g \in Heights : n \in BlockNotes(g)
  /\ \A w \in Wallets : bal[w] + PostedCredits(w, "exit") = PostedCredits(w, "purchase")

NothingBefore == \A g \in Heights : g <= StartBlock => BlockNotes(g) = {}

\* A note that is posted for the first time finds those before it in the ledger,
\* and no other: its exit burns what the chain burned.
LEMMA PostedAreBefore ==
  ASSUME TypeOK, Sound, Mirrored, StartBlock # None, NothingBefore,
         NEW r \in Runs, Scanning(r), NextNote(r) \notin posted
  PROVE  posted = Before(run[r].height, run[r].done + 1)
<1>1. PICK h \in Heights : h = run[r].height
  BY NextNoteType, SoundInBlock DEF Sound
<1>2. PICK i \in DOMAIN Blocks[h] : i = run[r].done + 1
  BY <1>1, NextNoteType, SoundInBlock DEF Sound
<1>3. NextNote(r) = Blocks[h][i] /\ i \in 1..Len(Blocks[h])
  BY <1>1, <1>2, BlockNoteType DEF NextNote
<1>4. \A g \in Heights : BlockNotes(g) # {} => StartBlock < g
  BY StartAssumption, HeightAssumption DEF NothingBefore, Heights
<1>5. /\ start = StartBlock /\ PostedIn(h - 1, posted)
      /\ StartBlock < h /\ \A j \in 1..(i - 1) : Blocks[h][j] \in posted
  <2>1. run[r].at = "scan" /\ run[r].done \in Nat
    BY DEF Scanning, TypeOK, RunRecord
  <2>2. start # None
    BY <2>1 DEF Sound, RunSound
  <2>3. StartBlock < h
    BY <1>3, <1>4 DEF BlockNotes
  <2> QED
    BY <1>1, <1>2, <2>1, <2>2, <2>3 DEF Sound, RunSound, StartFixed
<1>6. ASSUME NEW n \in Before(h, i) PROVE n \in posted
  <2>1. PICK g \in Heights : \E j \in DOMAIN Blocks[g] : Earlier(g, j, h, i) /\ n = Blocks[g][j]
    BY <1>6 DEF Before
  <2>2. PICK j \in DOMAIN Blocks[g] : Earlier(g, j, h, i) /\ n = Blocks[g][j]
    BY <2>1
  <2>3. n \in BlockNotes(g) /\ StartBlock < g
    BY <1>4, <2>2 DEF BlockNotes
  <2>4. CASE g < h
    <3>1. g <= h - 1
      BY <2>4 DEF Heights
    <3> QED
      BY <1>5, <2>3, <3>1 DEF PostedIn
  <2>5. CASE g = h /\ j < i
    <3>1. j \in 1..(i - 1)
      BY <1>3, <2>5, BlockNoteType
    <3> QED
      BY <1>5, <2>2, <2>5, <3>1
  <2> QED
    BY <2>2, <2>4, <2>5 DEF Earlier
<1>7. ASSUME NEW n \in posted PROVE n \in Before(h, i)
  <2>1. PICK g \in Heights : \E j \in DOMAIN Blocks[g] : n = Blocks[g][j]
    BY <1>7 DEF Mirrored, BlockNotes
  <2>2. PICK j \in DOMAIN Blocks[g] : n = Blocks[g][j]
    BY <2>1
  <2>3. ~ Earlier(h, i, g, j)
    BY <1>3, <1>5, <1>7, <2>2 DEF Sound, InOrder, Owed
  <2>4. g # h \/ j # i
    BY <1>3, <1>7, <2>2
  <2>5. Earlier(g, j, h, i)
    <3>1. j \in Nat /\ i \in Nat /\ g \in Nat /\ h \in Nat
      BY BlockNoteType DEF Heights
    <3> QED
      BY <2>3, <2>4, <3>1 DEF Earlier
  <2>6. n \in Notes
    BY <1>7 DEF TypeOK, BookTypeOK
  <2> QED
    BY <2>2, <2>5, <2>6 DEF Before
<1>8. posted = Before(h, i)
  BY <1>6, <1>7
<1> QED
  BY <1>1, <1>2, <1>8

LEMMA ApplyMirrored ==
  ASSUME TypeOK, Sound, Mirrored, StartBlock # None, NothingBefore,
         NEW r \in Runs, Scanning(r), CreditApply(NextNote(r))
  PROVE  Mirrored'
<1>1. CASE UNCHANGED bookVars
  BY <1>1 DEF Mirrored, bookVars, PostedCredits
<1>2. CASE Post(NextNote(r))
  <2>1. PICK h \in Heights : h = run[r].height
    BY NextNoteType, SoundInBlock DEF Sound
  <2>2. PICK i \in DOMAIN Blocks[h] : i = run[r].done + 1
    BY <2>1, NextNoteType, SoundInBlock DEF Sound
  <2>3. PICK n \in Notes : n = NextNote(r) /\ n = Blocks[h][i]
    BY <2>1, <2>2, NextNoteType, SoundInBlock DEF Sound, NextNote
  <2>4. /\ n \notin posted /\ posted' = posted \cup {n}
        /\ bal' = [bal EXCEPT ![NoteOf[n].wallet] = BalanceAfterNote(n)]
    BY <1>2, <2>3 DEF Post
  <2>5. posted = Before(h, i)
    BY <2>1, <2>2, <2>3, <2>4, PostedAreBefore
  <2>6. posted \in SUBSET Notes /\ IsFiniteSet(posted) /\ bal \in [Wallets -> Nat]
    BY DEF TypeOK, BookTypeOK, Mirrored
  <2>7. /\ NoteOf[n].wallet \in Wallets /\ NoteOf[n].credits \in Nat
        /\ NoteOf[n].kind \in {"purchase", "exit"}
    BY NoteWalletType
  <2>8. NoteOf[n].kind = "exit" =>
          NoteOf[n].credits + CreditsIn(posted, NoteOf[n].wallet, "exit")
            <= CreditsIn(posted, NoteOf[n].wallet, "purchase")
    BY <2>3, <2>5, ExitsAssumption
  <2>9. ASSUME NEW w \in Wallets
        PROVE  bal'[w] + CreditsIn(posted', w, "exit") = CreditsIn(posted', w, "purchase")
    <3> DEFINE in == CreditsIn(posted, w, "purchase")
               out == CreditsIn(posted, w, "exit")
    <3>1. /\ in \in Nat /\ out \in Nat
          /\ CreditsIn(posted', w, "purchase")
               = IF NoteOf[n].wallet = w /\ NoteOf[n].kind = "purchase" THEN in + NoteOf[n].credits ELSE in
          /\ CreditsIn(posted', w, "exit")
               = IF NoteOf[n].wallet = w /\ NoteOf[n].kind = "exit" THEN out + NoteOf[n].credits ELSE out
      BY <2>4, <2>6, CreditsMore
    <3>2. bal[w] \in Nat /\ bal[w] + out = in
      BY <2>6 DEF Mirrored, PostedCredits
    <3>3. NoteOf[n].wallet = w /\ NoteOf[n].kind = "exit" => NoteOf[n].credits <= bal[w]
      <4>1. NoteOf[n].wallet = w /\ NoteOf[n].kind = "exit" => NoteOf[n].credits + out <= in
        BY <2>8
      <4> HIDE DEF in, out
      <4> QED
        BY <2>7, <3>1, <3>2, <4>1
    <3>4. bal'[w] = IF NoteOf[n].wallet # w THEN bal[w]
                    ELSE IF NoteOf[n].kind = "purchase" THEN bal[w] + NoteOf[n].credits
                    ELSE bal[w] - NoteOf[n].credits
      BY <2>4, <2>6, <2>7, <3>3 DEF BalanceAfterNote, Smaller
    <3> HIDE DEF in, out
    <3> QED
      BY <2>7, <3>1, <3>2, <3>3, <3>4
  <2>10. IsFiniteSet(posted')
    BY <2>4, <2>6, FS_AddElement
  <2>11. \A m \in posted' : \E g \in Heights : m \in BlockNotes(g)
    BY <2>3, <2>4 DEF Mirrored, BlockNotes
  <2> QED
    BY <2>9, <2>10, <2>11 DEF Mirrored, PostedCredits
<1> QED
  BY <1>1, <1>2 DEF CreditApply

\* Without spends the ledger mirrors the contract, whatever runs overlap, fail and
\* scan again: no exit is clamped and no note counts twice.
THEOREM LedgerMirrorsChain == Spec => []MirrorsChain
<1>1. CASE StartBlock # None /\ NothingBefore
  <2>1. Init => TypeOK /\ Sound
    BY InitSound
  <2>2. TypeOK /\ Sound /\ [Next]_vars => (TypeOK /\ Sound)'
    BY <1>1, TypeOKStep, SoundStep, SoundInBlock DEF Sound
  <2>3. Init => Mirrored
    <3> SUFFICES ASSUME Init PROVE Mirrored
      OBVIOUS
    <3>1. posted = {} /\ \A w \in Wallets : bal[w] = 0
      BY DEF Init, BookInit
    <3>2. \A w \in Wallets : PostedCredits(w, "exit") = 0 /\ PostedCredits(w, "purchase") = 0
      <4>1. \A w : \A kind : {n \in {} : NoteOf[n].wallet = w /\ NoteOf[n].kind = kind} = {}
        OBVIOUS
      <4> QED
        BY <3>1, <4>1, SumEmpty DEF PostedCredits, CreditsIn
    <3> QED
      BY <3>1, <3>2, FS_EmptySet DEF Mirrored
  <2>4. TypeOK /\ Sound /\ Mirrored /\ [Next]_vars => Mirrored'
    <3> SUFFICES ASSUME TypeOK, Sound, Mirrored, [Next]_vars PROVE Mirrored'
      OBVIOUS
    <3>1. ASSUME UNCHANGED <<bal, posted>> PROVE Mirrored'
      BY <3>1 DEF Mirrored, PostedCredits
    <3>2. ASSUME NEW r \in Runs, ApplyNote(r) \/ ApplyReplyLost(r) PROVE Mirrored'
      BY <1>1, <3>2, ApplyMirrored DEF ApplyNote, ApplyReplyLost
    <3> QED
      BY <3>1, <3>2 DEF Next, RunStep, RunFault, Grow, Start, LoadState, Bootstrap, BootstrapReplyLost,
         BlockComplete, ScanFails, SaveCursor, Crash, vars, bookVars
  <2>5. Mirrored => MirrorsChain
    BY DEF Mirrored, MirrorsChain
  <2> QED
    BY <2>1, <2>2, <2>3, <2>4, <2>5, PTL DEF Spec
<1>2. CASE ~(StartBlock # None /\ NothingBefore)
  <2>1. MirrorsChain
    BY <1>2 DEF MirrorsChain, NothingBefore
  <2> QED
    BY <2>1, PTL
<1> QED
  BY <1>1, <1>2
=============================================================================
