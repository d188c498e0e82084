------------------------ MODULE CreditsLedger_proofs ------------------------
(***************************************************************************)
(* Proofs about CreditsLedger, for every set of wallets, keys, notes and   *)
(* sessions and every bound.                                               *)
(***************************************************************************)
EXTENDS CreditsLedger, TLAPS

\* The lock of a balance row has one holder.
SoleHolder ==
  \A s, t \in Sessions :
    staged[s] # None /\ staged[t] # None /\ staged[s].wallet = staged[t].wallet => s = t

\* Ids are drawn once, and in a wallet's log they follow its commits because
\* the id is drawn while the row is locked.
IdsFresh ==
  /\ \A e \in events : e.id < nextId
  /\ \A s \in Sessions : staged[s] # None =>
       /\ staged[s].id < nextId
       /\ \A e \in events : /\ e.id # staged[s].id
                            /\ e.wallet = staged[s].wallet => e.id < staged[s].id
  /\ \A s, t \in Sessions :
       staged[s] # None /\ staged[t] # None /\ staged[s].id = staged[t].id => s = t

\* What an event says of its request or its notification.
GoodEvent(e) ==
  /\ e.type = "spend" => e.ref \in Keys /\ 0 - e.amount \in Amounts \ {0}
  /\ e.type = "purchase" => e.amount > 0
  /\ e.type = "exit" => e.amount <= 0
  /\ e.type # "spend" => /\ e.ref \in Notes
                         /\ e.wallet = NoteOf[e.ref].wallet
                         /\ e.type = NoteOf[e.ref].kind

\* A staged event can be committed as it stands: nothing has moved the
\* balance it was computed from, and its key or anchor is still unused.
StagedGood ==
  \A s \in Sessions : staged[s] # None =>
    /\ GoodEvent(staged[s])
    /\ staged[s].after = row[staged[s].wallet].balance + staged[s].amount
    /\ staged[s].type = "spend" => SpendEvents(staged[s].wallet, staged[s].ref) = {}
    /\ staged[s].type # "spend" => NoteEvents(staged[s].ref) = {}

EventsGood == \A e \in events : GoodEvent(e)

StagedNote ==
  \A s \in Sessions : staged[s] # None /\ staged[s].type = "exit" =>
    0 - staged[s].amount = Book!Smaller(row[staged[s].wallet].balance,
                                        NoteOf[staged[s].ref].credits)

StagedPurchase ==
  \A s \in Sessions : staged[s] # None /\ staged[s].type = "purchase" =>
    staged[s].amount = NoteOf[staged[s].ref].credits

\* A session waits for a row or holds one, never both.
OnePhase == \A s \in Sessions : req[s] = None \/ staged[s] = None

\* The invariant without the answers, which no guard reads.
CoreInv ==
  /\ SoleHolder
  /\ IdsFresh
  /\ StagedGood
  /\ EventsGood
  /\ StagedNote
  /\ StagedPurchase
  /\ LedgerChain
  /\ LoggedOnce
  /\ TotalsAccount

IInv ==
  /\ TypeOK
  /\ OnePhase
  /\ CoreInv
  /\ AnswersBacked

LEMMA InitIInv == Init => IInv
<1> SUFFICES ASSUME Init PROVE IInv
  OBVIOUS
<1> USE DEF Init
<1>1. TypeOK
  BY MaxIdAssumption DEF TypeOK, ZeroRow, BalanceRow, Nothing, Answered, Answer, Outcomes
<1>2. /\ SoleHolder /\ IdsFresh /\ StagedGood /\ EventsGood /\ StagedNote /\ StagedPurchase
      /\ OnePhase
  BY DEF OnePhase, SoleHolder, IdsFresh, StagedGood, EventsGood, StagedNote, StagedPurchase
<1>3. LedgerChain
  BY DEF LedgerChain, Log, ZeroRow
<1>4. LoggedOnce /\ TotalsAccount /\ AnswersBacked
  BY DEF LoggedOnce, TotalsAccount, AnswersBacked, ZeroRow, Nothing, Answered
<1> QED
  BY <1>1, <1>2, <1>3, <1>4 DEF IInv, CoreInv

-----------------------------------------------------------------------------
\* What the steps do to the state.

LEMMA SpendEventType ==
  ASSUME TypeOK, NEW r \in Request, row[r.wallet].balance >= r.amount
  PROVE  /\ SpendEvent(r) \in Event
         /\ GoodEvent(SpendEvent(r))
<1>1. /\ r.wallet \in Wallets /\ r.key \in Keys /\ r.amount \in Amounts \ {0} /\ r.amount \in Nat
      /\ row[r.wallet].balance \in Nat
  BY AmountsAssumption DEF TypeOK, Request, BalanceRow
<1>2. SpendEvent(r) \in Event
  BY <1>1 DEF SpendEvent, Event, TypeOK
<1> QED
  BY <1>1, <1>2 DEF SpendEvent, GoodEvent

LEMMA NoteEventType ==
  ASSUME TypeOK, NEW n \in Notes
  PROVE  /\ NoteEvent(n) \in Event
         /\ GoodEvent(NoteEvent(n))
<1>1. /\ NoteOf[n].kind \in {"purchase", "exit"} /\ NoteOf[n].wallet \in Wallets
      /\ NoteOf[n].credits \in Nat \ {0}
  BY NotesAssumption DEF NoteRecord
<1>2. row[NoteOf[n].wallet].balance \in Nat
  BY <1>1 DEF TypeOK, BalanceRow
<1>3. NoteEvent(n) \in Event
  BY <1>1, <1>2 DEF NoteEvent, NoteAmount, ExitDebit, Event, TypeOK
<1> QED
  BY <1>1, <1>2, <1>3 DEF NoteEvent, NoteAmount, ExitDebit, GoodEvent

LEMMA TypeOKStep ==
  ASSUME TypeOK, StagedGood, [Next]_vars
  PROVE  TypeOK'
<1> USE DEF TypeOK
<1>1. CASE UNCHANGED vars
  BY <1>1 DEF vars
<1>2. ASSUME NEW s \in Sessions, SpendInvalid(s) PROVE TypeOK'
  BY <1>2 DEF SpendInvalid, Nothing, Answered, Answer, Outcomes
<1>3. ASSUME NEW s \in Sessions, NEW w \in Wallets, NEW k \in Keys, SpendDeduped(s, w, k)
      PROVE  TypeOK'
  BY <1>3 DEF SpendDeduped, SpendEvents, Answered, Answer, Outcomes, Event
<1>4. ASSUME NEW s \in Sessions, NEW w \in Wallets, NEW k \in Keys, NEW a \in Amounts,
             SpendBegin(s, w, k, a)
      PROVE  TypeOK'
  BY <1>4, MaxSpendAssumption DEF SpendBegin, Nothing, Answered, Answer, Outcomes, Request
<1>5. ASSUME NEW s \in Sessions, SpendRejected(s) PROVE TypeOK'
  BY <1>5 DEF SpendRejected, Answered, Answer, Outcomes, Request
<1>6. ASSUME NEW s \in Sessions, SpendCollides(s) PROVE TypeOK'
  BY <1>6 DEF SpendCollides, SpendEvents, Answered, Answer, Outcomes, Event, Request
<1>7. ASSUME NEW s \in Sessions, SpendWrites(s) PROVE TypeOK'
  <2>1. req[s] \in Request
    BY <1>7 DEF SpendWrites
  <2>2. SpendEvent(req[s]) \in Event
    BY <1>7, <2>1, SpendEventType DEF SpendWrites, CanPay
  <2> QED
    BY <1>7, <2>2 DEF SpendWrites
<1>8. ASSUME NEW s \in Sessions, NEW n \in Notes, NoteWrites(s, n) PROVE TypeOK'
  <2>1. NoteEvent(n) \in Event
    BY NoteEventType
  <2> QED
    BY <1>8, <2>1 DEF NoteWrites, Nothing, Answered, Answer, Outcomes
<1>9. ASSUME NEW s \in Sessions, NEW n \in Notes, NoteDeduped(s, n) PROVE TypeOK'
  BY <1>9, NotesAssumption
     DEF NoteDeduped, NoteEvents, NoteRecord, Answered, Answer, Outcomes, Event
<1>10. ASSUME NEW s \in Sessions, Commit(s) PROVE TypeOK'
  <2> DEFINE e == staged[s]
  <2>1. e \in Event /\ GoodEvent(e)
    BY <1>10 DEF Commit, StagedGood
  <2>2. RowAfter(row[e.wallet], e) \in BalanceRow
    BY <2>1, AmountsAssumption DEF RowAfter, BalanceRow, Event, GoodEvent
  <2>3. CommitAnswer(e) \in Answer /\ Nothing("error") \in Answer
    BY <2>1 DEF CommitAnswer, Nothing, Answered, Answer, Outcomes, Event
  <2>4. e.wallet \in Wallets
    BY <2>1 DEF Event
  <2>5. row' \in [Wallets -> BalanceRow] /\ known' \subseteq Wallets /\ events' \subseteq Event
    BY <1>10, <2>1, <2>2, <2>4 DEF Commit
  <2>6. answer' \in [Sessions -> Answer]
    BY <1>10, <2>3 DEF Commit
  <2> QED
    BY <1>10, <2>5, <2>6 DEF Commit
<1>11. ASSUME NEW s \in Sessions, Abort(s) PROVE TypeOK'
  BY <1>11 DEF Abort, Nothing, Answered, Answer, Outcomes
<1> QED
  BY <1>1, <1>2, <1>3, <1>4, <1>5, <1>6, <1>7, <1>8, <1>9, <1>10, <1>11 DEF Next

\* A step that writes neither a balance nor an event, and opens none.
LEMMA QuietStep ==
  ASSUME TypeOK, CoreInv, nextId' \in Nat, nextId' >= nextId,
         UNCHANGED <<row, known, events, staged>>
  PROVE  CoreInv'
<1> USE DEF CoreInv, TypeOK
<1>1. IdsFresh'
  BY DEF IdsFresh, Event
<1>2. (SoleHolder /\ StagedGood /\ StagedNote /\ StagedPurchase)'
  BY DEF SoleHolder, StagedGood, StagedNote, StagedPurchase, SpendEvents, NoteEvents
<1>3. (EventsGood /\ LedgerChain /\ LoggedOnce /\ TotalsAccount)'
  BY DEF EventsGood, LedgerChain, Log, Before, IsLast, LoggedOnce, TotalsAccount
<1> QED
  BY <1>1, <1>2, <1>3

\* A transaction that writes an event computed from a row nobody holds.
LEMMA WriteStep ==
  ASSUME TypeOK, CoreInv, TypeOK', NEW s \in Sessions, NEW e \in Event,
         staged[s] = None, ~Locked(e.wallet), e.id = nextId, GoodEvent(e),
         e.after = row[e.wallet].balance + e.amount,
         e.type = "spend" => SpendEvents(e.wallet, e.ref) = {},
         e.type # "spend" => NoteEvents(e.ref) = {},
         e.type = "exit" => 0 - e.amount = Book!Smaller(row[e.wallet].balance,
                                                        NoteOf[e.ref].credits),
         e.type = "purchase" => e.amount = NoteOf[e.ref].credits,
         staged' = [staged EXCEPT ![s] = e],
         nextId' = nextId + 1,
         UNCHANGED <<row, known, events>>
  PROVE  CoreInv'
<1> USE DEF CoreInv, TypeOK
<1>1. \A t \in Sessions : staged'[t] = IF t = s THEN e ELSE staged[t]
  OBVIOUS
<1>2. e # None
  BY NoneAssumption
<1>3. SoleHolder'
  BY <1>1, <1>2 DEF SoleHolder, Locked
<1>4. \A t \in Sessions : staged[t] # None => staged[t] \in Event
  OBVIOUS
<1>5. IdsFresh'
  BY <1>1, <1>2, <1>4 DEF IdsFresh, Event
<1>6. StagedGood'
  BY <1>1, <1>2 DEF StagedGood, SpendEvents, NoteEvents
<1>7. StagedNote' /\ StagedPurchase'
  BY <1>1, <1>2 DEF StagedNote, StagedPurchase
<1>8. (EventsGood /\ LedgerChain /\ LoggedOnce /\ TotalsAccount)'
  BY DEF EventsGood, LedgerChain, Log, Before, IsLast, LoggedOnce, TotalsAccount
<1> QED
  BY <1>3, <1>5, <1>6, <1>7, <1>8

LEMMA AbortStep ==
  ASSUME TypeOK, CoreInv, NEW s \in Sessions, Abort(s)
  PROVE  CoreInv'
<1> USE DEF CoreInv, TypeOK, Abort
<1>1. \A t \in Sessions : staged'[t] = IF t = s THEN None ELSE staged[t]
  OBVIOUS
<1>2. (SoleHolder /\ IdsFresh)'
  BY <1>1 DEF SoleHolder, IdsFresh
<1>3. (StagedGood /\ StagedNote /\ StagedPurchase)'
  BY <1>1 DEF StagedGood, StagedNote, StagedPurchase, SpendEvents, NoteEvents
<1>4. (EventsGood /\ LedgerChain /\ LoggedOnce /\ TotalsAccount)'
  BY DEF EventsGood, LedgerChain, Log, Before, IsLast, LoggedOnce, TotalsAccount
<1> QED
  BY <1>2, <1>3, <1>4

LEMMA CommitStep ==
  ASSUME TypeOK, CoreInv, NEW s \in Sessions, Commit(s)
  PROVE  CoreInv'
<1> USE DEF CoreInv, TypeOK
<1>0. PICK e \in Event : e = staged[s]
  BY DEF Commit
<1>w. PICK w \in Wallets : w = e.wallet
  BY DEF Event
<1>1. /\ e = staged[s] /\ w = e.wallet
      /\ e # None
      /\ row' = [row EXCEPT ![w] = RowAfter(row[w], e)]
      /\ events' = events \cup {e}
      /\ staged' = [staged EXCEPT ![s] = None]
      /\ nextId' = nextId
  BY <1>0, <1>w DEF Commit
<1>2. \A t \in Sessions : staged'[t] = IF t = s THEN None ELSE staged[t]
  BY <1>1
<1>3. /\ row'[w] = RowAfter(row[w], e)
      /\ row'[w].balance = e.after
      /\ \A v \in Wallets : v # w => row'[v] = row[v]
  BY <1>1 DEF RowAfter
<1>4. GoodEvent(e) /\ e.after = row[w].balance + e.amount
  BY <1>1 DEF StagedGood
<1>5. \A d \in events : d.id # e.id /\ d.id < nextId /\ (d.wallet = w => d.id < e.id)
  BY <1>1 DEF IdsFresh
<1>6. \A t \in Sessions : t # s /\ staged[t] # None =>
        /\ staged[t].wallet # w
        /\ staged[t].id # e.id
  BY <1>1 DEF SoleHolder, IdsFresh
<1>7. \A t \in Sessions : staged[t] # None => staged[t] \in Event /\ staged[t].wallet \in Wallets
  BY DEF Event
<1>8. SoleHolder'
  BY <1>2 DEF SoleHolder
<1>9. IdsFresh'
  <2>1. e.id < nextId
    BY <1>1 DEF IdsFresh
  <2> QED
    BY <1>1, <1>2, <1>5, <1>6, <2>1 DEF IdsFresh
<1>10. StagedGood' /\ StagedNote' /\ StagedPurchase'
  <2> SUFFICES ASSUME NEW t \in Sessions, t # s, staged[t] # None
               PROVE  /\ row'[staged[t].wallet] = row[staged[t].wallet]
                      /\ staged[t].type = "spend" =>
                           \A d \in events' : ~(/\ d.type = "spend"
                                                /\ d.wallet = staged[t].wallet
                                                /\ d.ref = staged[t].ref)
                      /\ staged[t].type # "spend" =>
                           \A d \in events' : ~(d.type # "spend" /\ d.ref = staged[t].ref)
    BY <1>2 DEF StagedGood, StagedNote, StagedPurchase, GoodEvent, SpendEvents, NoteEvents
  <2>1. staged[t].wallet # w /\ row'[staged[t].wallet] = row[staged[t].wallet]
    BY <1>3, <1>6, <1>7
  <2>2. staged[t].type = "spend" =>
          \A d \in events : ~(/\ d.type = "spend"
                              /\ d.wallet = staged[t].wallet
                              /\ d.ref = staged[t].ref)
    BY DEF StagedGood, SpendEvents
  <2>3. staged[t].type # "spend" =>
          \A d \in events : ~(d.type # "spend" /\ d.ref = staged[t].ref)
    BY DEF StagedGood, NoteEvents
  <2>4. /\ staged[t].type # "spend" => staged[t].wallet = NoteOf[staged[t].ref].wallet
        /\ e.type # "spend" => w = NoteOf[e.ref].wallet
    BY <1>1, <1>4 DEF StagedGood, GoodEvent
  <2> QED
    BY <1>1, <2>1, <2>2, <2>3, <2>4
<1>11. EventsGood'
  BY <1>1, <1>4 DEF EventsGood, GoodEvent
<1>12. LoggedOnce'
  <2>1. e.type = "spend" => \A d \in events : d.type = "spend" /\ d.wallet = w => d.ref # e.ref
    BY <1>1 DEF StagedGood, SpendEvents
  <2>2. e.type # "spend" => \A d \in events : d.type # "spend" => d.ref # e.ref
    BY <1>1 DEF StagedGood, NoteEvents
  <2> QED
    BY <1>1, <1>5, <2>1, <2>2 DEF LoggedOnce
<1>13. TotalsAccount'
  <2>1. row[w] \in BalanceRow /\ e.type \in {"spend", "purchase", "exit"} /\ e.amount \in Int
    BY <1>1 DEF Event
  <2>2. row'[w].balance + row'[w].spent + row'[w].exited = row'[w].purchased
    BY <1>1, <1>3, <1>4, <2>1 DEF RowAfter, TotalsAccount, BalanceRow
  <2> QED
    BY <1>3, <2>2 DEF TotalsAccount
<1>14. LedgerChain'
  <2> SUFFICES ASSUME NEW v \in Wallets
               PROVE  /\ Log(v)' = {} => row'[v].balance = 0
                      /\ \A x \in Log(v)' :
                           /\ IsLast(x, Log(v)') => row'[v].balance = x.after
                           /\ Before(x)' = {} => x.after = x.amount
                           /\ \A d \in Before(x)' :
                                IsLast(d, Before(x)') => x.after = d.after + x.amount
    BY DEF LedgerChain, IsLast
  <2>1. CASE v # w
    <3>1. Log(v)' = Log(v) /\ \A x \in Log(v) : Before(x)' = Before(x)
      BY <1>1, <2>1 DEF Log, Before
    <3> QED
      BY <1>3, <2>1, <3>1 DEF LedgerChain
  <2>2. CASE v = w
    <3>1. Log(w)' = Log(w) \cup {e} /\ e \notin Log(w)
      BY <1>1, <1>5 DEF Log
    <3>2. \A x \in Log(w) : x.id < e.id /\ x.id \in Nat /\ x.wallet = w
      BY <1>1, <1>5 DEF Log, Event
    <3>3. Before(e)' = Log(w)
      BY <1>1, <3>1, <3>2 DEF Before, Log, Event
    <3>4. \A x \in Log(w) : Before(x)' = Before(x)
      BY <1>1, <3>1, <3>2 DEF Before, Log, Event
    <3>5. IsLast(e, Log(w)') /\ \A x \in Log(w) : ~IsLast(x, Log(w)')
      BY <1>1, <3>1, <3>2 DEF IsLast, Event
    <3>6. Before(e)' = {} => e.after = e.amount
      <4>1. e.amount \in Int
        BY <1>0 DEF Event
      <4>2. Log(w) = {} => row[w].balance = 0
        BY <1>w DEF LedgerChain
      <4> QED
        BY <1>1, <1>4, <3>3, <4>1, <4>2
    <3>7. \A d \in Before(e)' : IsLast(d, Before(e)') => e.after = d.after + e.amount
      BY <1>4, <3>3, <1>1 DEF LedgerChain
    <3>8. \A x \in Log(w) :
            /\ Before(x)' = {} => x.after = x.amount
            /\ \A d \in Before(x)' : IsLast(d, Before(x)') => x.after = d.after + x.amount
      BY <1>1, <3>4 DEF LedgerChain
    <3> QED
      BY <1>3, <2>2, <3>1, <3>5, <3>6, <3>7, <3>8
  <2> QED
    BY <2>1, <2>2
<1> QED
  BY <1>8, <1>9, <1>10, <1>11, <1>12, <1>13, <1>14

-----------------------------------------------------------------------------
\* The inductive invariant.

LEMMA CoreStep ==
  ASSUME TypeOK, OnePhase, CoreInv, [Next]_vars
  PROVE  CoreInv'
<1>0. TypeOK'
  BY TypeOKStep DEF CoreInv
<1>n. nextId \in Nat
  BY DEF TypeOK
<1>1. CASE UNCHANGED vars
  BY <1>n, <1>1, QuietStep DEF vars
<1>2. ASSUME NEW s \in Sessions, SpendInvalid(s) PROVE CoreInv'
  BY <1>n, <1>2, QuietStep DEF SpendInvalid
<1>3. ASSUME NEW s \in Sessions, NEW w \in Wallets, NEW k \in Keys, SpendDeduped(s, w, k)
      PROVE  CoreInv'
  BY <1>n, <1>3, QuietStep DEF SpendDeduped
<1>4. ASSUME NEW s \in Sessions, NEW w \in Wallets, NEW k \in Keys, NEW a \in Amounts,
             SpendBegin(s, w, k, a)
      PROVE  CoreInv'
  BY <1>n, <1>4, QuietStep DEF SpendBegin
<1>5. ASSUME NEW s \in Sessions, SpendRejected(s) PROVE CoreInv'
  BY <1>n, <1>5, QuietStep DEF SpendRejected
<1>6. ASSUME NEW s \in Sessions, SpendCollides(s) PROVE CoreInv'
  BY <1>n, <1>6, QuietStep DEF SpendCollides
<1>7. ASSUME NEW s \in Sessions, SpendWrites(s) PROVE CoreInv'
  <2>1. PICK r \in Request : r = req[s]
    BY <1>7 DEF SpendWrites, TypeOK
  <2>2. row[r.wallet].balance >= r.amount
    BY <1>7, <2>1 DEF SpendWrites, CanPay
  <2>3. PICK e \in Event : e = SpendEvent(r)
    BY <2>2, SpendEventType
  <2>4. GoodEvent(e)
    BY <2>2, <2>3, SpendEventType
  <2>5. /\ e.id = nextId /\ e.wallet = r.wallet /\ e.type = "spend" /\ e.ref = r.key
        /\ e.after = row[e.wallet].balance + e.amount
    <3>1. r.amount \in Nat /\ row[r.wallet].balance \in Nat
      BY AmountsAssumption DEF Request, TypeOK, BalanceRow
    <3> QED
      BY <2>3, <3>1 DEF SpendEvent
  <2>6. staged[s] = None /\ ~Locked(e.wallet) /\ SpendEvents(e.wallet, e.ref) = {}
    BY <1>7, <2>1, <2>5 DEF SpendWrites, CanPay, OnePhase
  <2>7. staged' = [staged EXCEPT ![s] = e] /\ nextId' = nextId + 1
        /\ UNCHANGED <<row, known, events>>
    BY <1>7, <2>1, <2>3 DEF SpendWrites
  <2> QED
    BY <1>0, <2>4, <2>5, <2>6, <2>7, WriteStep
<1>8. ASSUME NEW s \in Sessions, NEW n \in Notes, NoteWrites(s, n) PROVE CoreInv'
  <2>1. PICK e \in Event : e = NoteEvent(n)
    BY NoteEventType
  <2>2. GoodEvent(e)
    BY <2>1, NoteEventType
  <2>3. /\ NoteOf[n].kind \in {"purchase", "exit"} /\ NoteOf[n].credits \in Nat
        /\ row[NoteOf[n].wallet].balance \in Nat
    BY NotesAssumption DEF NoteRecord, TypeOK, BalanceRow
  <2>4. /\ e.id = nextId /\ e.wallet = NoteOf[n].wallet /\ e.type = NoteOf[n].kind /\ e.ref = n
        /\ e.after = row[e.wallet].balance + e.amount
    BY <2>1 DEF NoteEvent
  <2>5. /\ e.type = "exit" => 0 - e.amount = Book!Smaller(row[e.wallet].balance,
                                                          NoteOf[e.ref].credits)
        /\ e.type = "purchase" => e.amount = NoteOf[e.ref].credits
        /\ e.type # "spend"
    BY <2>1, <2>3 DEF NoteEvent, NoteAmount, ExitDebit, Book!Smaller
  <2>6. staged[s] = None /\ ~Locked(e.wallet) /\ NoteEvents(e.ref) = {}
    BY <1>8, <2>4 DEF NoteWrites, Idle
  <2>7. staged' = [staged EXCEPT ![s] = e] /\ nextId' = nextId + 1
        /\ UNCHANGED <<row, known, events>>
    BY <1>8, <2>1 DEF NoteWrites
  <2> QED
    BY <1>0, <2>2, <2>4, <2>5, <2>6, <2>7, WriteStep
<1>9. ASSUME NEW s \in Sessions, NEW n \in Notes, NoteDeduped(s, n) PROVE CoreInv'
  BY <1>n, <1>9, QuietStep DEF NoteDeduped
<1>10. ASSUME NEW s \in Sessions, Commit(s) PROVE CoreInv'
  BY <1>10, CommitStep
<1>11. ASSUME NEW s \in Sessions, Abort(s) PROVE CoreInv'
  BY <1>11, AbortStep
<1> QED
  BY <1>1, <1>2, <1>3, <1>4, <1>5, <1>6, <1>7, <1>8, <1>9, <1>10, <1>11 DEF Next

LEMMA OnePhaseStep ==
  ASSUME TypeOK, OnePhase, [Next]_vars
  PROVE  OnePhase'
<1> USE DEF OnePhase, TypeOK
<1>1. CASE UNCHANGED vars
  BY <1>1 DEF vars
<1>2. ASSUME NEW s \in Sessions,
             \/ SpendInvalid(s)
             \/ \E w \in Wallets, k \in Keys : SpendDeduped(s, w, k)
             \/ \E w \in Wallets, k \in Keys, a \in Amounts : SpendBegin(s, w, k, a)
             \/ SpendRejected(s)
             \/ SpendCollides(s)
      PROVE  OnePhase'
  BY <1>2 DEF SpendInvalid, SpendDeduped, SpendBegin, SpendRejected, SpendCollides, Idle
<1>3. ASSUME NEW s \in Sessions,
             \/ SpendWrites(s)
             \/ \E n \in Notes : NoteWrites(s, n)
             \/ \E n \in Notes : NoteDeduped(s, n)
             \/ Commit(s)
             \/ Abort(s)
      PROVE  OnePhase'
  BY <1>3 DEF SpendWrites, NoteWrites, NoteDeduped, Commit, Abort, Idle
<1> QED
  BY <1>1, <1>2, <1>3 DEF Next

LEMMA AnswersStep ==
  ASSUME TypeOK, EventsGood, AnswersBacked, [Next]_vars
  PROVE  AnswersBacked'
<1> USE DEF AnswersBacked, TypeOK, Answered, Nothing
<1>1. CASE UNCHANGED vars
  BY <1>1 DEF vars
<1>2. ASSUME NEW s \in Sessions,
             \/ SpendInvalid(s)
             \/ \E w \in Wallets, k \in Keys, a \in Amounts : SpendBegin(s, w, k, a)
             \/ SpendRejected(s)
             \/ SpendWrites(s)
             \/ \E n \in Notes : NoteWrites(s, n)
             \/ Abort(s)
      PROVE  AnswersBacked'
  BY <1>2 DEF SpendInvalid, SpendBegin, SpendRejected, SpendWrites, NoteWrites, Abort
<1>3. ASSUME NEW s \in Sessions,
             \/ \E w \in Wallets, k \in Keys : SpendDeduped(s, w, k)
             \/ SpendCollides(s)
      PROVE  AnswersBacked'
  BY <1>3 DEF SpendDeduped, SpendCollides, SpendEvents
<1>4. ASSUME NEW s \in Sessions, NEW n \in Notes, NoteDeduped(s, n) PROVE AnswersBacked'
  <2>1. \A e \in events : e.ref = n /\ e.type # "spend" => e.wallet = NoteOf[n].wallet
    BY DEF EventsGood, GoodEvent
  <2> QED
    BY <1>4, <2>1 DEF NoteDeduped, NoteEvents
<1>5. ASSUME NEW s \in Sessions, Commit(s) PROVE AnswersBacked'
  BY <1>5 DEF Commit, CommitAnswer
<1> QED
  BY <1>1, <1>2, <1>3, <1>4, <1>5 DEF Next

LEMMA StepIInv == IInv /\ [Next]_vars => IInv'
BY TypeOKStep, OnePhaseStep, CoreStep, AnswersStep DEF IInv, CoreInv

LEMMA SpecIInv == Spec => []IInv
BY InitIInv, StepIInv, PTL DEF Spec

-----------------------------------------------------------------------------
\* Type correctness of the tables and sessions; with Nat as the type of
\* balance_after and of the totals it says that the CHECK constraints of
\* credit_balances and credit_events are never what stops a transaction.
THEOREM TypeCorrect == Spec => []TypeOK
BY SpecIInv, PTL DEF IInv

\* "Balances can be rebuilt by folding the log", whatever sessions run.
THEOREM LogFolds == Spec => []LedgerChain
BY SpecIInv, PTL DEF IInv, CoreInv

\* A key is debited once and a notification logged once.
THEOREM NothingTwice == Spec => []LoggedOnce
BY SpecIInv, PTL DEF IInv, CoreInv

\* What is answered as done is in the log.
THEOREM AnswersTrue == Spec => []AnswersBacked
BY SpecIInv, PTL DEF IInv

\* balance + total_spent + total_exited = total_purchased for every wallet.
THEOREM TotalsAddUp == Spec => []TotalsAccount
BY SpecIInv, PTL DEF IInv, CoreInv

-----------------------------------------------------------------------------
\* Refinement: a commit is the one step the book sees.

LEMMA InitBook == Init => Book!BookInit
BY DEF Init, ZeroRow, Book!BookInit

LEMMA HiddenStep ==
  ASSUME UNCHANGED <<row, events>>
  PROVE  UNCHANGED Book!bookVars
BY DEF Book!bookVars

LEMMA CommitDebits ==
  ASSUME IInv, NEW s \in Sessions, Commit(s), staged[s].type = "spend"
  PROVE  Book!BookNext
<1> USE DEF IInv, CoreInv, TypeOK
<1>1. PICK e \in Event : e = staged[s]
  BY DEF Commit
<1>2. /\ e # None /\ e.wallet \in Wallets /\ e.type = "spend" /\ e.amount \in Int
      /\ row' = [row EXCEPT ![e.wallet] = RowAfter(row[e.wallet], e)]
      /\ events' = events \cup {e}
  BY <1>1 DEF Commit, Event
<1>3. /\ e.ref \in Keys
      /\ 0 - e.amount \in Amounts \ {0}
      /\ e.after = row[e.wallet].balance + e.amount
      /\ e.after \in Nat
      /\ row[e.wallet].balance \in Nat
      /\ SpendEvents(e.wallet, e.ref) = {}
  BY <1>1, <1>2 DEF StagedGood, GoodEvent, Event, BalanceRow
<1> DEFINE bal == [w \in Wallets |-> row[w].balance]
           debited == {<<d.wallet, d.ref>> : d \in {c \in events : c.type = "spend"}}
           posted == {d.ref : d \in {c \in events : c.type # "spend"}}
<1>4. 0 - e.amount \in 1..bal[e.wallet]
  BY <1>2, <1>3, AmountsAssumption
<1>5. <<e.wallet, e.ref>> \notin debited
  BY <1>3 DEF SpendEvents
<1>6. bal' = [bal EXCEPT ![e.wallet] = @ - (0 - e.amount)]
  BY <1>2, <1>3 DEF RowAfter
<1>7. debited' = debited \cup {<<e.wallet, e.ref>>}
  BY <1>2
<1>8. posted' = posted
  BY <1>2
<1>9. Book!Debit(e.wallet, e.ref, 0 - e.amount)
  BY <1>4, <1>5, <1>6, <1>7, <1>8 DEF Book!Debit
<1> QED
  BY <1>2, <1>3, <1>9 DEF Book!BookNext

LEMMA CommitPosts ==
  ASSUME IInv, NEW s \in Sessions, Commit(s), staged[s].type # "spend"
  PROVE  Book!BookNext
<1> USE DEF IInv, CoreInv, TypeOK
<1>1. PICK e \in Event : e = staged[s]
  BY DEF Commit
<1>2. /\ e # None /\ e.wallet \in Wallets /\ e.type # "spend" /\ e.amount \in Int
      /\ row' = [row EXCEPT ![e.wallet] = RowAfter(row[e.wallet], e)]
      /\ events' = events \cup {e}
  BY <1>1 DEF Commit, Event
<1>3. /\ e.ref \in Notes
      /\ e.wallet = NoteOf[e.ref].wallet
      /\ e.type = NoteOf[e.ref].kind
      /\ e.after = row[e.wallet].balance + e.amount
      /\ row[e.wallet].balance \in Nat
      /\ NoteEvents(e.ref) = {}
  BY <1>1, <1>2 DEF StagedGood, GoodEvent, Event, BalanceRow
<1>4. NoteOf[e.ref].kind \in {"purchase", "exit"} /\ NoteOf[e.ref].credits \in Nat
  BY <1>3, NotesAssumption DEF NoteRecord
<1>5. /\ e.type = "purchase" => e.amount = NoteOf[e.ref].credits
      /\ e.type = "exit" => 0 - e.amount = Book!Smaller(row[e.wallet].balance, NoteOf[e.ref].credits)
  BY <1>1, <1>2 DEF StagedNote, StagedPurchase
<1> DEFINE bal == [w \in Wallets |-> row[w].balance]
           debited == {<<d.wallet, d.ref>> : d \in {c \in events : c.type = "spend"}}
           posted == {d.ref : d \in {c \in events : c.type # "spend"}}
<1>6. e.ref \notin posted
  BY <1>3 DEF NoteEvents
<1>7. Book!BalanceAfterNote(e.ref) = e.after
  BY <1>2, <1>3, <1>4, <1>5 DEF Book!BalanceAfterNote, Book!Smaller
<1>8. bal' = [bal EXCEPT ![e.wallet] = e.after]
  BY <1>2 DEF RowAfter
<1>9. debited' = debited /\ posted' = posted \cup {e.ref}
  BY <1>2
<1>10. Book!Post(e.ref)
  BY <1>3, <1>6, <1>7, <1>8, <1>9 DEF Book!Post
<1> QED
  BY <1>3, <1>10 DEF Book!BookNext

LEMMA StepBook == IInv /\ [Next]_vars => [Book!BookNext]_(Book!bookVars)
<1> SUFFICES ASSUME IInv, [Next]_vars
             PROVE  Book!BookNext \/ UNCHANGED Book!bookVars
  OBVIOUS
<1>1. CASE UNCHANGED vars
  BY <1>1, HiddenStep DEF vars
<1>2. ASSUME NEW s \in Sessions, Commit(s) PROVE Book!BookNext
  BY <1>2, CommitDebits, CommitPosts
<1>3. ASSUME NEW s \in Sessions,
             \/ SpendInvalid(s)
             \/ \E w \in Wallets, k \in Keys : SpendDeduped(s, w, k)
             \/ \E w \in Wallets, k \in Keys, a \in Amounts : SpendBegin(s, w, k, a)
             \/ SpendRejected(s)
             \/ SpendCollides(s)
             \/ SpendWrites(s)
             \/ \E n \in Notes : NoteWrites(s, n)
             \/ \E n \in Notes : NoteDeduped(s, n)
             \/ Abort(s)
      PROVE  UNCHANGED Book!bookVars
  <2>1. UNCHANGED <<row, events>>
    BY <1>3 DEF SpendInvalid, SpendDeduped, SpendBegin, SpendRejected, SpendCollides,
                SpendWrites, NoteWrites, NoteDeduped, Abort
  <2> QED
    BY <2>1, HiddenStep
<1> QED
  BY <1>1, <1>2, <1>3 DEF Next

\* The transactions of migration 078 implement the atomic book.
THEOREM Refinement == Spec => ImplementsBook
<1>1. Init => Book!BookInit
  BY InitBook
<1>2. IInv /\ [Next]_vars => [Book!BookNext]_(Book!bookVars)
  BY StepBook
<1> QED
  BY <1>1, <1>2, SpecIInv, PTL DEF Spec, ImplementsBook, Book!BookSpec
=============================================================================
