-------------------------- MODULE Services_proofs --------------------------
(***************************************************************************)
(* The three kinds of balances, for any wallets, users, owners, amounts    *)
(* and numbers of calls, and the services side by side.                    *)
(*                                                                         *)
(* The credits as a whole (CreditsSystem): no order in which contract,     *)
(* ledger, indexer and settler work costs a wallet credits, and the books  *)
(* converge.  What is still to be posted, with its clamps, would be a      *)
(* fold.  A path of balances takes its place, one per notification, not    *)
(* above what the posting makes (Foretells) or not below (Covers): each    *)
(* step adds to the path, takes from all of it, or drops its first one.    *)
(*                                                                         *)
(* Sponsorship: the types, and that each row of the budget is made of what *)
(* was spent and lost of it and what calls hold, so that it is never       *)
(* overspent.  Each step changes what is counted of a row by as much as    *)
(* the share that its call holds of it (RowsKept).                         *)
(*                                                                         *)
(* GasBank: the types, that what is reserved is always there, that a       *)
(* reference is credited once, and that the transactions explain the       *)
(* balance.                                                                *)
(*                                                                         *)
(* Services: side by side, each service behaves as it does by itself, so   *)
(* that what is proved of it holds there (the theorems on publish approval *)
(* and wallet login are in modules of their own).                          *)
(***************************************************************************)
EXTENDS Services, PublishApproval_proofs, WalletLogin_proofs, FiniteSums

-----------------------------------------------------------------------------
\* The credits as a whole.

LEMMA ClampedTyped ==
  ASSUME NEW a \in Nat, NEW b \in Nat
  PROVE  Clamped(a, b) \in Nat /\ a - Clamped(a, b) \in Nat
BY DEF Clamped

LEMMA FeedGrows ==
  ASSUME SystemTypeOK, NEW kind \in {"purchase", "exit"}, NEW w \in Holders, NEW credits \in Nat \ {0},
         Emits(kind, w, credits)
  PROVE  /\ feed' \in Seq(FeedNote) /\ Len(feed) \in Nat /\ Len(feed') = Len(feed) + 1 /\ Len(feed') <= MaxFeed
         /\ \A i \in 1..Len(feed) : feed'[i] = feed[i]
         /\ feed'[Len(feed) + 1].kind = kind /\ feed'[Len(feed) + 1].wallet = w
         /\ feed'[Len(feed) + 1].credits = credits
<1> DEFINE new == [kind |-> kind, wallet |-> w, credits |-> credits]
<1>1. new \in FeedNote /\ new.kind = kind /\ new.wallet = w /\ new.credits = credits
  BY DEF FeedNote
<1>2. feed \in Seq(FeedNote) /\ feed' = Append(feed, new) /\ Len(feed) < MaxFeed /\ MaxFeed \in Nat
  BY SystemAssumption DEF SystemAssumption, SystemTypeOK, Emits
<1> HIDE DEF new
<1>3. Len(feed) \in Nat /\ feed' \in Seq(FeedNote) /\ Len(feed') = Len(feed) + 1
      /\ (\A i \in 1..Len(feed) : feed'[i] = feed[i]) /\ feed'[Len(feed) + 1] = new
  BY <1>1, <1>2
<1> QED
  BY <1>1, <1>2, <1>3

LEMMA FeedTyped ==
  ASSUME SystemTypeOK
  PROVE  /\ Len(feed) \in Nat /\ scanned \in 0..Len(feed)
         /\ \A i \in 1..Len(feed) :
              feed[i].kind \in {"purchase", "exit"} /\ feed[i].credits \in Nat \ {0} /\ feed[i].wallet \in Holders
<1>1. feed \in Seq(FeedNote) /\ Len(feed) \in Nat
  BY DEF SystemTypeOK
<1>2. \A i \in 1..Len(feed) : feed[i] \in FeedNote
  BY <1>1
<1> QED
  BY <1>1, <1>2 DEF SystemTypeOK, FeedNote

LEMMA SystemStepTyped ==
  ASSUME SystemTypeOK, [SystemNext]_systemVars
  PROVE  SystemTypeOK'
<1> USE DEF SystemTypeOK
<1>1. CASE UNCHANGED systemVars
  BY <1>1 DEF systemVars
<1>2. ASSUME NEW w \in Holders, NEW a \in Prices, Buy(w, a)
      PROVE  SystemTypeOK'
  <2>1. a \in Nat \ {0}
    BY SystemAssumption DEF SystemAssumption
  <2>2. feed' \in Seq(FeedNote) /\ Len(feed) \in Nat /\ Len(feed') = Len(feed) + 1 /\ Len(feed') <= MaxFeed
    BY <1>2, <2>1, FeedGrows DEF Buy
  <2>3. onChain' \in [Holders -> Nat]
    BY <1>2, <2>1 DEF Buy
  <2> QED
    BY <1>2, <2>2, <2>3 DEF Buy
<1>3. ASSUME NEW w \in Holders, ExitAll(w)
      PROVE  SystemTypeOK'
  <2>1. onChain[w] \in Nat \ {0}
    BY <1>3 DEF ExitAll
  <2>2. feed' \in Seq(FeedNote) /\ Len(feed) \in Nat /\ Len(feed') = Len(feed) + 1 /\ Len(feed') <= MaxFeed
    BY <1>3, <2>1, FeedGrows DEF ExitAll
  <2>3. onChain' \in [Holders -> Nat]
    BY <1>3 DEF ExitAll
  <2> QED
    BY <1>3, <2>2, <2>3 DEF ExitAll
<1>4. ASSUME NEW w \in Holders, NEW a \in Prices, SpendCredits(w, a)
      PROVE  SystemTypeOK'
  <2>1. a \in Nat \ {0} /\ MaxSpends \in Nat
    BY SystemAssumption DEF SystemAssumption
  <2>2. inDb' \in [Holders -> Nat] /\ unsettled' \in [Holders -> Nat]
    BY <1>4, <2>1 DEF SpendCredits
  <2>3. spends' \in [Holders -> 0..MaxSpends]
    BY <1>4, <2>1 DEF SpendCredits
  <2> QED
    BY <1>4, <2>2, <2>3 DEF SpendCredits
<1>5. CASE LandSettlement
  <2>1. onChain' \in [Holders -> Nat]
    BY <1>5, ClampedTyped DEF LandSettlement
  <2> QED
    BY <1>5, <2>1 DEF LandSettlement, Nothing
<1>6. CASE IndexNote
  <2> DEFINE note == feed[scanned + 1]
             new == IF note.kind = "purchase" THEN inDb[note.wallet] + note.credits
                    ELSE inDb[note.wallet] - ExitDebit(note.wallet, note.credits)
  <2>1. scanned + 1 \in 1..Len(feed) /\ Len(feed) \in Nat
    BY <1>6, FeedTyped DEF IndexNote
  <2>2. note.credits \in Nat /\ note.wallet \in Holders
    BY <2>1, FeedTyped
  <2>3. inDb[note.wallet] \in Nat
    BY <2>2
  <2>4. new \in Nat
    <3>1. ExitDebit(note.wallet, note.credits) = Clamped(inDb[note.wallet], note.credits)
      BY DEF ExitDebit
    <3>2. inDb[note.wallet] - Clamped(inDb[note.wallet], note.credits) \in Nat
      BY <2>2, <2>3, ClampedTyped
    <3> QED
      BY <2>2, <2>3, <3>1, <3>2
  <2>5. inDb' = [inDb EXCEPT ![note.wallet] = new]
    BY <1>6 DEF IndexNote
  <2>6. inDb' \in [Holders -> Nat]
    BY <2>4, <2>5
  <2> HIDE DEF note, new
  <2> QED
    BY <1>6, <2>1, <2>6 DEF IndexNote
<1>7. CASE PostSettlement
  BY <1>7 DEF PostSettlement, Nothing
<1> QED
  BY <1>1, <1>2, <1>3, <1>4, <1>5, <1>6, <1>7 DEF SystemNext

LEMMA SystemInitTyped == SystemInit => SystemTypeOK
BY SystemAssumption DEF SystemAssumption, SystemInit, SystemTypeOK, Nothing

\* Every balance of the contract and the database stays a natural number.
THEOREM SystemTyped == SystemSpec => []SystemTypeOK
BY SystemInitTyped, SystemStepTyped, PTL DEF SystemSpec

\* A balance after a notification, if it is the wallet's.
After(w, x, note) ==
  IF note.wallet # w THEN x
  ELSE IF note.kind = "purchase" THEN x + note.credits ELSE x - Clamped(x, note.credits)

LEMMA AfterTyped ==
  ASSUME SystemTypeOK, NEW w \in Holders, NEW i \in 1..Len(feed), NEW x \in Nat, NEW y \in Nat, x <= y
  PROVE  /\ After(w, x, feed[i]) \in Nat /\ After(w, y, feed[i]) \in Nat
         /\ After(w, x, feed[i]) <= After(w, y, feed[i])
<1>1. feed[i].credits \in Nat /\ feed[i].kind \in {"purchase", "exit"}
  BY FeedTyped
<1> QED
  BY <1>1 DEF After, Clamped

LEMMA IndexEffect ==
  ASSUME SystemTypeOK, IndexNote
  PROVE  /\ scanned + 1 \in 1..Len(feed) /\ scanned' = scanned + 1
         /\ \A w \in Holders : inDb'[w] = After(w, inDb[w], feed[scanned + 1])
<1> DEFINE note == feed[scanned + 1]
<1>1. scanned + 1 \in 1..Len(feed) /\ scanned' = scanned + 1
  BY FeedTyped DEF IndexNote
<1>2. note.wallet \in Holders /\ note.credits \in Nat
  BY <1>1, FeedTyped
<1>3. inDb' = [inDb EXCEPT ![note.wallet] =
                 IF note.kind = "purchase" THEN inDb[note.wallet] + note.credits
                 ELSE inDb[note.wallet] - Clamped(inDb[note.wallet], note.credits)]
  BY DEF IndexNote, ExitDebit
<1> HIDE DEF note
<1>4. ASSUME NEW w \in Holders
      PROVE  inDb'[w] = After(w, inDb[w], note)
  BY <1>2, <1>3 DEF After, SystemTypeOK
<1> QED
  BY <1>1, <1>4 DEF note

\* What the database will come to, as far as it is foretold: a balance for each
\* notification that is still to be posted, not above what the posting will make.
Path == [scanned..Len(feed) -> Nat]
Foretells(w, q) ==
  /\ q \in Path
  /\ q[scanned] <= inDb[w]
  /\ \A i \in (scanned + 1)..Len(feed) : q[i] <= After(w, q[i - 1], feed[i])
  /\ onChain[w] <= q[Len(feed)] + Owed(w)
NothingLost == \A w \in Holders : \E q : Foretells(w, q)

LEMMA OwedTyped == SystemTypeOK => \A w \in Holders : Owed(w) \in Nat /\ onChain[w] \in Nat /\ inDb[w] \in Nat
BY DEF SystemTypeOK, Owed

\* A notification that is emitted adds to the path, and a spend takes from all of it.
LEMMA BuyForetold ==
  ASSUME SystemTypeOK, NothingLost, NEW u \in Holders, NEW a \in Prices, Buy(u, a)
  PROVE  NothingLost'
<1>1. a \in Nat \ {0}
  BY SystemAssumption DEF SystemAssumption
<1> DEFINE n == Len(feed)
<1>2. /\ n \in Nat /\ Len(feed') = n + 1 /\ scanned \in 0..n
      /\ \A i \in 1..n : feed'[i] = feed[i]
      /\ feed'[n + 1].kind = "purchase" /\ feed'[n + 1].wallet = u /\ feed'[n + 1].credits = a
  BY <1>1, FeedGrows, FeedTyped DEF Buy
<1>3. UNCHANGED <<inDb, scanned, unsettled, batch>>
  BY DEF Buy
<1>4. ASSUME NEW w \in Holders
      PROVE  \E q : Foretells(w, q)'
  <2>1. PICK p : Foretells(w, p)
    BY DEF NothingLost
  <2> DEFINE add == IF w = u THEN a ELSE 0
  <2>2. p \in [scanned..n -> Nat] /\ n \in scanned..n /\ add \in Nat
    BY <1>1, <1>2, <2>1 DEF Foretells, Path
  <2>3. PICK q \in [scanned..(n + 1) -> Nat] : q[n + 1] = p[n] + add /\ \A i \in scanned..n : q[i] = p[i]
    <3> DEFINE f == [i \in scanned..(n + 1) |-> IF i = n + 1 THEN p[n] + add ELSE p[i]]
    <3>1. f \in [scanned..(n + 1) -> Nat] /\ f[n + 1] = p[n] + add /\ \A i \in scanned..n : f[i] = p[i]
      BY <1>2, <2>2
    <3> QED
      BY <3>1
  <2> HIDE DEF n
  <2>4. q[scanned] <= inDb[w]
    BY <1>2, <2>1, <2>3 DEF Foretells
  <2>5. ASSUME NEW i \in (scanned + 1)..(n + 1)
        PROVE  q[i] <= After(w, q[i - 1], feed'[i])
    <3>1. CASE i = n + 1
      BY <1>1, <1>2, <2>2, <2>3, <3>1 DEF After
    <3>2. CASE i # n + 1
      <4>1. i \in (scanned + 1)..n /\ i - 1 \in scanned..n /\ i \in scanned..n /\ i \in 1..n
        BY <1>2, <3>2
      <4> QED
        BY <1>2, <2>1, <2>3, <4>1 DEF Foretells, n
    <3> QED
      BY <3>1, <3>2
  <2>6. onChain'[w] <= q[n + 1] + Owed(w)
    <3>1. onChain'[w] = onChain[w] + add /\ onChain[w] \in Nat
      BY DEF Buy, SystemTypeOK
    <3>2. onChain[w] <= p[n] + Owed(w)
      BY <2>1 DEF Foretells, n
    <3> QED
      BY <1>2, <2>2, <2>3, <3>1, <3>2, OwedTyped
  <2>7. Foretells(w, q)'
    BY <1>2, <1>3, <2>3, <2>4, <2>5, <2>6 DEF Foretells, Path, Owed
  <2> QED
    BY <2>7
<1> QED
  BY <1>4 DEF NothingLost

LEMMA ExitForetold ==
  ASSUME SystemTypeOK, NothingLost, NEW u \in Holders, ExitAll(u)
  PROVE  NothingLost'
<1> DEFINE n == Len(feed)
           a == onChain[u]
<1>1. a \in Nat \ {0}
  BY DEF SystemTypeOK, ExitAll
<1>2. /\ n \in Nat /\ Len(feed') = n + 1 /\ scanned \in 0..n
      /\ \A i \in 1..n : feed'[i] = feed[i]
      /\ feed'[n + 1].kind = "exit" /\ feed'[n + 1].wallet = u /\ feed'[n + 1].credits = a
  BY <1>1, FeedGrows, FeedTyped DEF ExitAll
<1>3. UNCHANGED <<inDb, scanned, unsettled, batch>>
  BY DEF ExitAll
<1>4. ASSUME NEW w \in Holders
      PROVE  \E q : Foretells(w, q)'
  <2>1. PICK p : Foretells(w, p)
    BY DEF NothingLost
  <2>2. p \in [scanned..n -> Nat] /\ n \in scanned..n
    BY <1>2, <2>1 DEF Foretells, Path
  <2>3. PICK q \in [scanned..(n + 1) -> Nat] :
          q[n + 1] = (IF w = u THEN 0 ELSE p[n]) /\ \A i \in scanned..n : q[i] = p[i]
    <3> DEFINE f == [i \in scanned..(n + 1) |-> IF i = n + 1 THEN IF w = u THEN 0 ELSE p[n] ELSE p[i]]
    <3>1. /\ f \in [scanned..(n + 1) -> Nat] /\ f[n + 1] = (IF w = u THEN 0 ELSE p[n])
          /\ \A i \in scanned..n : f[i] = p[i]
      BY <1>2, <2>2
    <3> QED
      BY <3>1
  <2> HIDE DEF n
  <2>4. q[scanned] <= inDb[w]
    BY <1>2, <2>1, <2>3 DEF Foretells
  <2>5. ASSUME NEW i \in (scanned + 1)..(n + 1)
        PROVE  q[i] <= After(w, q[i - 1], feed'[i])
    <3>1. CASE i = n + 1
      BY <1>1, <1>2, <2>2, <2>3, <3>1 DEF After, Clamped
    <3>2. CASE i # n + 1
      <4>1. i \in (scanned + 1)..n /\ i - 1 \in scanned..n /\ i \in scanned..n /\ i \in 1..n
        BY <1>2, <3>2
      <4> QED
        BY <1>2, <2>1, <2>3, <4>1 DEF Foretells, n
    <3> QED
      BY <3>1, <3>2
  <2>6. onChain'[w] <= q[n + 1] + Owed(w)
    <3>1. onChain'[w] = IF w = u THEN 0 ELSE onChain[w]
      BY DEF ExitAll, SystemTypeOK
    <3>2. onChain[w] <= p[n] + Owed(w)
      BY <2>1 DEF Foretells, n
    <3> QED
      BY <1>2, <2>2, <2>3, <3>1, <3>2, OwedTyped
  <2>7. Foretells(w, q)'
    BY <1>2, <1>3, <2>3, <2>4, <2>5, <2>6 DEF Foretells, Path, Owed
  <2> QED
    BY <2>7
<1> QED
  BY <1>4 DEF NothingLost

Reduced(x, a) == IF a <= x THEN x - a ELSE 0

\* What is below the next balance stays below when both are reduced.
LEMMA ReducedAfter ==
  ASSUME NEW w, NEW note, note.credits \in Nat, note.kind \in {"purchase", "exit"},
         NEW x \in Nat, NEW y \in Nat, NEW a \in Nat, y <= After(w, x, note)
  PROVE  Reduced(y, a) <= After(w, Reduced(x, a), note)
<1> DEFINE c == note.credits
<1>1. c \in Nat
  OBVIOUS
<1>2. CASE note.wallet # w
  <2>1. After(w, x, note) = x /\ After(w, Reduced(x, a), note) = Reduced(x, a)
    BY <1>2 DEF After
  <2> QED
    BY <2>1 DEF Reduced
<1>3. CASE note.wallet = w /\ note.kind = "purchase"
  <2>1. After(w, x, note) = x + c /\ After(w, Reduced(x, a), note) = Reduced(x, a) + c
    BY <1>3 DEF After
  <2> HIDE DEF c
  <2> QED
    BY <1>1, <2>1 DEF Reduced
<1>4. CASE note.wallet = w /\ note.kind = "exit"
  <2>1. After(w, x, note) = x - Clamped(x, c) /\ After(w, Reduced(x, a), note) = Reduced(x, a) - Clamped(Reduced(x, a), c)
    BY <1>4 DEF After
  <2> HIDE DEF c
  <2> QED
    BY <1>1, <2>1 DEF Reduced, Clamped
<1> QED
  BY <1>2, <1>3, <1>4

LEMMA SpendForetold ==
  ASSUME SystemTypeOK, NothingLost, NEW u \in Holders, NEW a \in Prices, SpendCredits(u, a)
  PROVE  NothingLost'
<1>1. a \in Nat \ {0}
  BY SystemAssumption DEF SystemAssumption
<1> DEFINE n == Len(feed)
<1>2. UNCHANGED <<onChain, feed, scanned, batch>> /\ n \in Nat /\ scanned \in 0..n
  BY FeedTyped DEF SpendCredits
<1>4. ASSUME NEW w \in Holders
      PROVE  \E q : Foretells(w, q)'
  <2>1. PICK p : Foretells(w, p)
    BY DEF NothingLost
  <2> DEFINE sub == IF w = u THEN a ELSE 0
  <2>2. p \in [scanned..n -> Nat] /\ n \in scanned..n /\ scanned \in scanned..n /\ sub \in Nat
    BY <1>1, <1>2, <2>1 DEF Foretells, Path
  <2>3. PICK q \in [scanned..n -> Nat] : \A i \in scanned..n : q[i] = Reduced(p[i], sub)
    <3> DEFINE f == [i \in scanned..n |-> Reduced(p[i], sub)]
    <3>1. f \in [scanned..n -> Nat] /\ \A i \in scanned..n : f[i] = Reduced(p[i], sub)
      BY <2>2 DEF Reduced
    <3> QED
      BY <3>1
  <2>4. inDb'[w] = inDb[w] - sub /\ Owed(w)' = Owed(w) + sub /\ inDb'[w] \in Nat
    BY <1>1, <1>2, SMTT(30) DEF SpendCredits, Owed, SystemTypeOK
  <2> HIDE DEF n, sub
  <2>5. q[scanned] <= inDb'[w]
    BY <2>1, <2>2, <2>3, <2>4, OwedTyped, SMTT(30) DEF Foretells, Reduced
  <2>6. ASSUME NEW i \in (scanned + 1)..n
        PROVE  q[i] <= After(w, q[i - 1], feed[i])
    <3>1. i - 1 \in scanned..n /\ i \in scanned..n /\ i \in 1..n
      BY <1>2
    <3>2. feed[i].kind \in {"purchase", "exit"} /\ feed[i].credits \in Nat
      BY <3>1, FeedTyped DEF n
    <3>3. p[i] <= After(w, p[i - 1], feed[i]) /\ p[i] \in Nat /\ p[i - 1] \in Nat
      BY <2>1, <2>2, <3>1 DEF Foretells, n
    <3>4. q[i] = Reduced(p[i], sub) /\ q[i - 1] = Reduced(p[i - 1], sub)
      BY <2>3, <3>1
    <3> QED
      BY <2>2, <3>2, <3>3, <3>4, ReducedAfter
  <2>7. onChain[w] <= q[n] + Owed(w)'
    <3>1. onChain[w] <= p[n] + Owed(w) /\ q[n] = Reduced(p[n], sub) /\ p[n] \in Nat
      BY <2>1, <2>2, <2>3 DEF Foretells, n
    <3> QED
      BY <2>2, <2>4, <3>1, OwedTyped DEF Reduced
  <2>8. Foretells(w, q)'
    BY <1>2, <2>3, <2>5, <2>6, <2>7 DEF Foretells, Path, n
  <2> QED
    BY <2>8
<1> QED
  BY <1>4 DEF NothingLost

LEMMA IndexForetold ==
  ASSUME SystemTypeOK, NothingLost, IndexNote
  PROVE  NothingLost'
<1> DEFINE n == Len(feed)
           m == scanned + 1
<1>1. /\ UNCHANGED <<onChain, feed, unsettled, batch>> /\ n \in Nat /\ scanned \in 0..n
      /\ m \in 1..n /\ scanned' = m
      /\ \A w \in Holders : inDb'[w] = After(w, inDb[w], feed[m])
  BY FeedTyped, IndexEffect DEF IndexNote
<1>2. ASSUME NEW w \in Holders
      PROVE  \E q : Foretells(w, q)'
  <2>1. PICK p : Foretells(w, p)
    BY DEF NothingLost
  <2>2. p \in [scanned..n -> Nat] /\ \A i \in m..n : i \in scanned..n
    BY <1>1, <2>1 DEF Foretells, Path
  <2>3. PICK q \in [m..n -> Nat] : \A i \in m..n : q[i] = p[i]
    <3> DEFINE f == [i \in m..n |-> p[i]]
    <3>1. f \in [m..n -> Nat] /\ \A i \in m..n : f[i] = p[i]
      BY <2>2
    <3> QED
      BY <3>1
  <2>4. q[m] <= inDb'[w]
    <3>1. p[scanned] <= inDb[w] /\ p[scanned] \in Nat /\ inDb[w] \in Nat
      BY <1>1, <2>1, <2>2, OwedTyped DEF Foretells
    <3>2. p[m] <= After(w, p[m - 1], feed[m]) /\ m - 1 = scanned
      BY <1>1, <2>1 DEF Foretells
    <3>3. After(w, p[scanned], feed[m]) <= After(w, inDb[w], feed[m])
          /\ After(w, p[scanned], feed[m]) \in Nat /\ After(w, inDb[w], feed[m]) \in Nat
      BY <1>1, <3>1, AfterTyped
    <3>4. q[m] = p[m] /\ p[m] \in Nat
      BY <1>1, <2>2, <2>3
    <3> HIDE DEF m
    <3> QED
      BY <1>1, <3>2, <3>3, <3>4
  <2>5. \A i \in (m + 1)..n : q[i] <= After(w, q[i - 1], feed[i])
    BY <1>1, <2>1, <2>3, SMTT(30) DEF Foretells
  <2>6. onChain[w] <= q[n] + Owed(w)
    BY <1>1, <2>1, <2>3 DEF Foretells
  <2> HIDE DEF m, n
  <2>7. Foretells(w, q)'
    BY <1>1, <2>3, <2>4, <2>5, <2>6 DEF Foretells, Path, Owed, n
  <2> QED
    BY <2>7
<1> QED
  BY <1>2 DEF NothingLost

LEMMA SettleForetold ==
  ASSUME SystemTypeOK, NothingLost, LandSettlement \/ PostSettlement
  PROVE  NothingLost'
<1>1. UNCHANGED <<inDb, feed, scanned>>
  BY DEF LandSettlement, PostSettlement
<1>2. ASSUME NEW w \in Holders
      PROVE  \E q : Foretells(w, q)'
  <2>1. PICK p : Foretells(w, p)
    BY DEF NothingLost
  <2>2. p[Len(feed)] \in Nat
    BY <2>1, FeedTyped DEF Foretells, Path
  <2>3. onChain'[w] <= p[Len(feed)] + Owed(w)'
    <3>1. onChain[w] <= p[Len(feed)] + Owed(w) /\ onChain[w] \in Nat /\ batch[w] \in Nat /\ unsettled[w] \in Nat
      BY <2>1 DEF Foretells, SystemTypeOK
    <3>2. CASE LandSettlement
      <4>1. onChain'[w] = onChain[w] - Clamped(onChain[w], batch[w]) /\ batch'[w] = 0 /\ unsettled'[w] = unsettled[w]
        BY <3>2 DEF LandSettlement, Nothing
      <4> QED
        BY <2>2, <3>1, <4>1 DEF Owed, Clamped
    <3>3. CASE PostSettlement
      <4>1. onChain' = onChain /\ batch[w] = 0 /\ batch'[w] = unsettled[w] /\ unsettled'[w] = 0
        BY <3>3 DEF PostSettlement, Nothing
      <4> QED
        BY <2>2, <3>1, <4>1 DEF Owed
    <3> QED
      BY <3>2, <3>3
  <2>4. Foretells(w, p)'
    BY <1>1, <2>1, <2>3 DEF Foretells, Path
  <2> QED
    BY <2>4
<1> QED
  BY <1>2 DEF NothingLost

LEMMA LossInductive ==
  ASSUME SystemTypeOK, NothingLost, [SystemNext]_systemVars
  PROVE  NothingLost'
<1>1. CASE UNCHANGED systemVars
  BY <1>1 DEF systemVars, NothingLost, Foretells, Path, Owed
<1> QED
  BY <1>1, BuyForetold, ExitForetold, SpendForetold, IndexForetold, SettleForetold DEF SystemNext

LEMMA InitForetold == SystemInit => NothingLost
<1> SUFFICES ASSUME SystemInit, NEW w \in Holders
             PROVE  \E q : Foretells(w, q)
  BY DEF NothingLost
<1> DEFINE q == [i \in 0..0 |-> 0]
<1>1. q \in [0..0 -> Nat] /\ q[0] = 0
  OBVIOUS
<1> HIDE DEF q
<1>2. Foretells(w, q)
  BY <1>1 DEF SystemInit, Foretells, Path, Owed, Nothing
<1> QED
  BY <1>2

\* No order of buying, spending, exits, indexing and settling costs a wallet credits that
\* it has paid for.
THEOREM NoCreditIsLost == SystemSpec => []NoCreditLost
<1>1. ASSUME SystemTypeOK, NothingLost
      PROVE  NoCreditLost
  <2> SUFFICES ASSUME NEW w \in Holders, AtRest(w)
               PROVE  inDb[w] >= onChain[w]
    BY DEF NoCreditLost
  <2>1. PICK q : Foretells(w, q)
    BY <1>1 DEF NothingLost
  <2>2. q[scanned] \in Nat /\ scanned = Len(feed) /\ Owed(w) = 0
    BY <1>1, <2>1, FeedTyped DEF Foretells, Path, AtRest
  <2> QED
    BY <1>1, <2>1, <2>2, OwedTyped DEF Foretells
<1>2. SystemTypeOK /\ NothingLost => NoCreditLost
  BY <1>1
<1>3. SystemTypeOK /\ NothingLost /\ [SystemNext]_systemVars => (SystemTypeOK /\ NothingLost)'
  BY SystemStepTyped, LossInductive
<1>4. SystemInit => SystemTypeOK /\ NothingLost
  BY SystemInitTyped, InitForetold
<1> QED
  BY <1>2, <1>3, <1>4, PTL DEF SystemSpec

\* The other way round: the database will not come to more than the contract, for a
\* wallet that has not bought in between.  A path that is not below what the posting
\* makes, and does not fall but at the wallet's exits.
IsExit(w, i) == feed[i].wallet = w /\ feed[i].kind = "exit"
NoExit(w, i, j) == \A k \in (i + 1)..j : ~IsExit(w, k)
Covers(w, q) ==
  /\ q \in Path
  /\ inDb[w] <= q[scanned]
  /\ \A i \in (scanned + 1)..Len(feed) : After(w, q[i - 1], feed[i]) <= q[i]
  /\ \A i, j \in scanned..Len(feed) : i <= j /\ NoExit(w, i, j) => q[i] <= q[j]
Capped(w, x) == x = 0 \/ x + Owed(w) <= onChain[w]
\* Nothing is bought after an exit that is still to be posted.
ExitIsLast(w) ==
  \A i, j \in (scanned + 1)..Len(feed) :
    i < j /\ IsExit(w, i) => ~(feed[j].wallet = w /\ feed[j].kind = "purchase")
NothingGained ==
  \A w \in Holders \ rebought :
    ExitIsLast(w) /\ \E q : Covers(w, q) /\ Capped(w, q[Len(feed)])

LEMMA ExceedsGrows ==
  ASSUME SystemTypeOK, NEW kind \in {"purchase", "exit"}, NEW u \in Holders, NEW a \in Nat \ {0},
         Emits(kind, u, a), UNCHANGED <<inDb, scanned>>,
         NEW w \in Holders, NEW p, Covers(w, p), NEW v \in Nat,
         After(w, p[Len(feed)], [wallet |-> u, kind |-> kind, credits |-> a]) <= v,
         (u = w /\ kind = "exit") \/ p[Len(feed)] <= v
  PROVE  \E q : Covers(w, q)' /\ q[Len(feed')] = v
<1> DEFINE n == Len(feed)
<1>1. /\ n \in Nat /\ Len(feed') = n + 1 /\ scanned \in 0..n
      /\ \A i \in 1..n : feed'[i] = feed[i]
      /\ feed'[n + 1].kind = kind /\ feed'[n + 1].wallet = u /\ feed'[n + 1].credits = a
  BY FeedGrows, FeedTyped
<1>2. p \in [scanned..n -> Nat] /\ n \in scanned..n
  BY <1>1 DEF Covers, Path
<1>3. PICK q \in [scanned..(n + 1) -> Nat] : q[n + 1] = v /\ \A i \in scanned..n : q[i] = p[i]
  <2> DEFINE f == [i \in scanned..(n + 1) |-> IF i = n + 1 THEN v ELSE p[i]]
  <2>1. f \in [scanned..(n + 1) -> Nat] /\ f[n + 1] = v /\ \A i \in scanned..n : f[i] = p[i]
    BY <1>1, <1>2
  <2> QED
    BY <2>1
<1> HIDE DEF n
<1>4. inDb[w] <= q[scanned]
  BY <1>1, <1>3 DEF Covers
<1>5. ASSUME NEW i \in (scanned + 1)..(n + 1)
      PROVE  After(w, q[i - 1], feed'[i]) <= q[i]
  <2>1. CASE i = n + 1
    BY <1>1, <1>2, <1>3, <2>1 DEF After, n
  <2>2. CASE i # n + 1
    <3>1. i \in (scanned + 1)..n /\ i - 1 \in scanned..n /\ i \in scanned..n /\ i \in 1..n
      BY <1>1, <2>2
    <3> QED
      BY <1>1, <1>3, <3>1 DEF Covers, n
  <2> QED
    BY <2>1, <2>2
<1>6. ASSUME NEW i \in scanned..(n + 1), NEW j \in scanned..(n + 1), i <= j,
             \A k \in (i + 1)..j : ~(feed'[k].wallet = w /\ feed'[k].kind = "exit")
      PROVE  q[i] <= q[j]
  <2>1. CASE i = n + 1
    BY <1>1, <1>3, <1>6, <2>1
  <2>2. CASE i # n + 1 /\ j # n + 1
    <3>1. i \in scanned..n /\ j \in scanned..n
      BY <1>1, <2>2
    <3>2. NoExit(w, i, j)
      <4>1. \A k \in (i + 1)..j : k \in 1..n
        BY <1>1, <3>1
      <4> QED
        BY <1>1, <1>6, <4>1 DEF NoExit, IsExit
    <3> QED
      BY <1>3, <1>6, <3>1, <3>2 DEF Covers, n
  <2>3. CASE i # n + 1 /\ j = n + 1
    <3>1. i \in scanned..n /\ i <= n
      BY <1>1, <2>3
    <3>2. NoExit(w, i, n)
      <4>1. \A k \in (i + 1)..n : k \in 1..n /\ k \in (i + 1)..j
        BY <1>1, <2>3, <3>1
      <4> QED
        BY <1>1, <1>6, <4>1 DEF NoExit, IsExit
    <3>3. p[i] <= p[n]
      BY <1>2, <3>1, <3>2 DEF Covers, n
    <3>4. n + 1 \in (i + 1)..j
      BY <1>1, <2>3, <3>1
    <3>5. p[n] <= v
      BY <1>1, <1>6, <3>4 DEF n
    <3> QED
      BY <1>2, <1>3, <2>3, <3>1, <3>3, <3>5
  <2> QED
    BY <2>1, <2>2, <2>3
<1>7. Covers(w, q)'
  BY <1>1, <1>3, <1>4, <1>5, <1>6 DEF Covers, Path, NoExit, IsExit
<1> QED
  BY <1>1, <1>3, <1>7

LEMMA BuyCapped ==
  ASSUME SystemTypeOK, NothingGained, NEW u \in Holders, NEW a \in Prices, Buy(u, a)
  PROVE  NothingGained'
<1>1. a \in Nat \ {0} /\ Emits("purchase", u, a)
  BY SystemAssumption DEF SystemAssumption, Buy
<1> DEFINE n == Len(feed)
<1>2. /\ n \in Nat /\ Len(feed') = n + 1 /\ scanned \in 0..n
      /\ \A i \in 1..n : feed'[i] = feed[i]
      /\ feed'[n + 1].kind = "purchase" /\ feed'[n + 1].wallet = u /\ feed'[n + 1].credits = a
  BY <1>1, FeedGrows, FeedTyped
<1>3. UNCHANGED <<inDb, scanned, unsettled, batch>>
  BY DEF Buy
<1>4. ASSUME NEW w \in Holders \ rebought'
      PROVE  ExitIsLast(w)' /\ \E q : Covers(w, q)' /\ Capped(w, q[Len(feed)])'
  <2>1. w \in Holders \ rebought /\ (w = u => ~Unscanned(w, "exit") /\ Owed(w) <= onChain[w])
    BY OwedTyped DEF Buy
  <2>2. PICK p : Covers(w, p) /\ Capped(w, p[n])
    BY <2>1 DEF NothingGained
  <2>3. p[n] \in Nat
    BY <1>2, <2>2 DEF Covers, Path
  <2> DEFINE add == IF w = u THEN a ELSE 0
             v == p[n] + add
  <2>4. After(w, p[n], [wallet |-> u, kind |-> "purchase", credits |-> a]) <= v /\ p[n] <= v /\ v \in Nat
    BY <1>1, <2>3 DEF After
  <2>5. PICK x \in Nat : x = v
    BY <2>4
  <2> HIDE DEF v
  <2>6. PICK q : Covers(w, q)' /\ q[Len(feed')] = x
    BY <1>1, <1>3, <2>2, <2>4, <2>5, ExceedsGrows
  <2>7. x = 0 \/ x + Owed(w) <= onChain'[w]
    <3>1. onChain'[w] = onChain[w] + add
      <4>1. onChain' = [onChain EXCEPT ![u] = onChain[u] + a] /\ DOMAIN onChain = Holders
        BY DEF Buy, SystemTypeOK
      <4>2. onChain[w] \in Nat
        BY OwedTyped
      <4> QED
        BY <4>1, <4>2
    <3> QED
      BY <1>1, <2>1, <2>2, <2>3, <2>5, <3>1, OwedTyped DEF Capped, v
  <2>8. Capped(w, q[Len(feed)])'
    BY <1>3, <2>6, <2>7 DEF Capped, Owed
  <2>9. ASSUME NEW i \in (scanned + 1)..(n + 1), NEW j \in (scanned + 1)..(n + 1), i < j,
               feed'[i].wallet = w /\ feed'[i].kind = "exit"
        PROVE  ~(feed'[j].wallet = w /\ feed'[j].kind = "purchase")
    <3>1. i \in (scanned + 1)..n /\ i \in 1..n /\ IsExit(w, i)
      BY <1>2, <2>9 DEF IsExit
    <3>2. Unscanned(w, "exit")
      BY <3>1 DEF Unscanned, IsExit
    <3>3. CASE j = n + 1
      BY <1>2, <2>1, <3>2, <3>3
    <3>4. CASE j # n + 1
      <4>1. j \in (scanned + 1)..n /\ j \in 1..n
        BY <1>2, <3>4
      <4> QED
        BY <1>2, <2>1, <2>9, <3>1, <4>1 DEF NothingGained, ExitIsLast
    <3> QED
      BY <3>3, <3>4
  <2>10. ExitIsLast(w)'
    BY <1>2, <1>3, <2>9 DEF ExitIsLast, IsExit
  <2> QED
    BY <2>6, <2>8, <2>10
<1> QED
  BY <1>4 DEF NothingGained

LEMMA ExitCapped ==
  ASSUME SystemTypeOK, NothingGained, NEW u \in Holders, ExitAll(u)
  PROVE  NothingGained'
<1> DEFINE n == Len(feed)
<1>1. PICK a \in Nat \ {0} : a = onChain[u] /\ Emits("exit", u, a)
  BY DEF SystemTypeOK, ExitAll
<1>2. /\ n \in Nat /\ Len(feed') = n + 1 /\ scanned \in 0..n
      /\ \A i \in 1..n : feed'[i] = feed[i]
      /\ feed'[n + 1].kind = "exit" /\ feed'[n + 1].wallet = u /\ feed'[n + 1].credits = a
  BY <1>1, FeedGrows, FeedTyped
<1>3. UNCHANGED <<inDb, scanned, unsettled, batch, rebought>>
  BY DEF ExitAll
<1>4. ASSUME NEW w \in Holders \ rebought'
      PROVE  ExitIsLast(w)' /\ \E q : Covers(w, q)' /\ Capped(w, q[Len(feed)])'
  <2>1. w \in Holders \ rebought
    BY <1>3
  <2>2. PICK p : Covers(w, p) /\ Capped(w, p[n])
    BY <2>1 DEF NothingGained
  <2>3. p[n] \in Nat
    BY <1>2, <2>2 DEF Covers, Path
  <2>4. PICK x \in Nat : x = IF w = u THEN 0 ELSE p[n]
    BY <2>3
  <2>5. After(w, p[n], [wallet |-> u, kind |-> "exit", credits |-> a]) <= x
    <3>1. w = u => p[n] = 0 \/ p[n] <= a
      BY <1>1, <2>2, <2>3, OwedTyped DEF Capped
    <3> QED
      BY <1>1, <2>3, <2>4, <3>1 DEF After, Clamped
  <2>6. u = w \/ p[n] <= x
    BY <2>3, <2>4
  <2>7. PICK q : Covers(w, q)' /\ q[Len(feed')] = x
    BY <1>1, <1>3, <2>2, <2>5, <2>6, ExceedsGrows
  <2>8. Capped(w, q[Len(feed)])'
    <3>1. w # u => onChain'[w] = onChain[w]
      BY DEF ExitAll, SystemTypeOK
    <3> QED
      BY <1>3, <2>2, <2>4, <2>7, <3>1 DEF Capped, Owed
  <2>9. ASSUME NEW i \in (scanned + 1)..(n + 1), NEW j \in (scanned + 1)..(n + 1), i < j,
               feed'[i].wallet = w /\ feed'[i].kind = "exit"
        PROVE  ~(feed'[j].wallet = w /\ feed'[j].kind = "purchase")
    <3>1. CASE j = n + 1
      BY <1>2, <3>1
    <3>2. CASE j # n + 1
      <4>1. j \in (scanned + 1)..n /\ j \in 1..n /\ i \in (scanned + 1)..n /\ i \in 1..n
        BY <1>2, <2>9, <3>2
      <4> QED
        BY <1>2, <2>1, <2>9, <4>1 DEF NothingGained, ExitIsLast, IsExit
    <3> QED
      BY <3>1, <3>2
  <2>10. ExitIsLast(w)'
    BY <1>2, <1>3, <2>9 DEF ExitIsLast, IsExit
  <2> QED
    BY <2>7, <2>8, <2>10
<1> QED
  BY <1>4 DEF NothingGained

LEMMA SpendCapped ==
  ASSUME SystemTypeOK, NothingGained, NEW u \in Holders, NEW a \in Prices, SpendCredits(u, a)
  PROVE  NothingGained'
<1>1. a \in Nat \ {0} /\ a <= inDb[u]
  BY SystemAssumption DEF SystemAssumption, SpendCredits
<1> DEFINE n == Len(feed)
<1>2. UNCHANGED <<onChain, feed, scanned, batch, rebought>> /\ n \in Nat /\ scanned \in 0..n
  BY FeedTyped DEF SpendCredits
<1>3. ASSUME NEW w \in Holders \ rebought
      PROVE  \E q : Covers(w, q)' /\ Capped(w, q[n])'
  <2>1. PICK p : Covers(w, p) /\ Capped(w, p[n])
    BY DEF NothingGained
  <2>2. PICK sub \in Nat : sub = IF w = u THEN a ELSE 0
    BY <1>1
  <2>3. p \in [scanned..n -> Nat] /\ n \in scanned..n /\ scanned \in scanned..n
    BY <1>2, <2>1 DEF Covers, Path
  <2>4. PICK q \in [scanned..n -> Nat] : \A i \in scanned..n : q[i] = Reduced(p[i], sub)
    <3> DEFINE f == [i \in scanned..n |-> Reduced(p[i], sub)]
    <3>1. f \in [scanned..n -> Nat] /\ \A i \in scanned..n : f[i] = Reduced(p[i], sub)
      BY <2>2, <2>3 DEF Reduced
    <3> QED
      BY <3>1
  <2>5. inDb'[w] = inDb[w] - sub /\ Owed(w)' = Owed(w) + sub /\ sub <= inDb[w]
    BY <1>1, <1>2, <2>2, OwedTyped, SMTT(30) DEF SpendCredits, Owed, SystemTypeOK
  <2> HIDE DEF n
  <2>6. inDb'[w] <= q[scanned]
    BY <2>1, <2>3, <2>4, <2>5, OwedTyped DEF Covers, Reduced
  <2>7. ASSUME NEW i \in (scanned + 1)..n
        PROVE  After(w, q[i - 1], feed[i]) <= q[i]
    <3>1. i - 1 \in scanned..n /\ i \in scanned..n /\ i \in 1..n
      BY <1>2
    <3>2. feed[i].kind \in {"purchase", "exit"} /\ feed[i].credits \in Nat
      BY <3>1, FeedTyped DEF n
    <3>3. After(w, p[i - 1], feed[i]) <= p[i] /\ p[i] \in Nat /\ p[i - 1] \in Nat
      BY <2>1, <2>3, <3>1 DEF Covers, n
    <3>4. q[i] = Reduced(p[i], sub) /\ q[i - 1] = Reduced(p[i - 1], sub)
      BY <2>4, <3>1
    <3>5. CASE feed[i].wallet # w
      BY <2>2, <3>3, <3>4, <3>5 DEF After, Reduced
    <3>6. CASE feed[i].wallet = w /\ feed[i].kind = "purchase"
      <4>1. NoExit(w, scanned, i - 1)
        <5>1. \A k \in (scanned + 1)..(i - 1) : k \in (scanned + 1)..n /\ k < i
          BY <1>2, <3>1
        <5> QED
          BY <3>6, <5>1 DEF NothingGained, ExitIsLast, NoExit, n
      <4>2. p[scanned] <= p[i - 1]
        BY <1>2, <2>1, <2>3, <3>1, <4>1 DEF Covers, n
      <4>3. sub <= p[i - 1]
        BY <2>1, <2>2, <2>3, <2>5, <3>3, <4>2, OwedTyped, SMTT(30) DEF Covers
      <4>4. p[i - 1] + feed[i].credits <= p[i] /\ After(w, q[i - 1], feed[i]) = q[i - 1] + feed[i].credits
        BY <3>3, <3>6 DEF After
      <4> QED
        BY <2>2, <3>2, <3>3, <3>4, <4>3, <4>4 DEF Reduced
    <3>7. CASE feed[i].wallet = w /\ feed[i].kind = "exit"
      <4>1. /\ p[i - 1] - Clamped(p[i - 1], feed[i].credits) <= p[i]
            /\ After(w, q[i - 1], feed[i]) = q[i - 1] - Clamped(q[i - 1], feed[i].credits)
        BY <3>3, <3>7 DEF After
      <4> QED
        BY <2>2, <3>2, <3>3, <3>4, <4>1 DEF Reduced, Clamped
    <3> QED
      BY <3>2, <3>5, <3>6, <3>7
  <2>8. ASSUME NEW i \in scanned..n, NEW j \in scanned..n, i <= j, NoExit(w, i, j)
        PROVE  q[i] <= q[j]
    <3>1. p[i] <= p[j] /\ p[i] \in Nat /\ p[j] \in Nat
      BY <2>1, <2>3, <2>8 DEF Covers, n
    <3> QED
      BY <2>2, <2>4, <3>1 DEF Reduced
  <2>9. Covers(w, q)'
    BY <1>2, <2>4, <2>6, <2>7, <2>8 DEF Covers, Path, NoExit, IsExit, n
  <2>10. Capped(w, q[n])'
    <3>1. q[n] = Reduced(p[n], sub) /\ p[n] \in Nat
      BY <2>3, <2>4
    <3>2. q[n] = 0 \/ q[n] + Owed(w)' <= onChain[w]
      BY <2>1, <2>2, <2>5, <3>1, OwedTyped DEF Reduced, Capped
    <3> QED
      BY <1>2, <3>2 DEF Capped, n
  <2> QED
    BY <2>9, <2>10
<1>4. ASSUME NEW w \in Holders \ rebought
      PROVE  ExitIsLast(w)'
  BY <1>2 DEF NothingGained, ExitIsLast, IsExit
<1> QED
  BY <1>2, <1>3, <1>4 DEF NothingGained

LEMMA IndexCapped ==
  ASSUME SystemTypeOK, NothingGained, IndexNote
  PROVE  NothingGained'
<1> DEFINE n == Len(feed)
<1>1. PICK m : /\ m = scanned + 1 /\ m \in 1..n /\ scanned' = m /\ n \in Nat /\ scanned \in 0..n
               /\ UNCHANGED <<onChain, feed, unsettled, batch, rebought>>
               /\ \A w \in Holders : inDb'[w] = After(w, inDb[w], feed[m])
  BY FeedTyped, IndexEffect DEF IndexNote
<1>2. ASSUME NEW w \in Holders \ rebought
      PROVE  ExitIsLast(w)' /\ \E q : Covers(w, q)' /\ Capped(w, q[n])'
  <2>1. PICK p : Covers(w, p) /\ Capped(w, p[n])
    BY DEF NothingGained
  <2>2. p \in [scanned..n -> Nat] /\ (\A i \in m..n : i \in scanned..n) /\ m \in m..n /\ n \in m..n
    BY <1>1, <2>1 DEF Covers, Path
  <2>3. PICK q \in [m..n -> Nat] : \A i \in m..n : q[i] = p[i]
    <3> DEFINE f == [i \in m..n |-> p[i]]
    <3>1. f \in [m..n -> Nat] /\ \A i \in m..n : f[i] = p[i]
      BY <2>2
    <3> QED
      BY <3>1
  <2>4. inDb'[w] <= q[m]
    <3>1. inDb[w] <= p[scanned] /\ p[scanned] \in Nat /\ inDb[w] \in Nat
      BY <1>1, <2>1, <2>2, OwedTyped, SMTT(30) DEF Covers
    <3>2. After(w, p[m - 1], feed[m]) <= p[m] /\ m - 1 = scanned
      BY <1>1, <2>1 DEF Covers
    <3>3. After(w, inDb[w], feed[m]) <= After(w, p[scanned], feed[m])
          /\ After(w, p[scanned], feed[m]) \in Nat /\ After(w, inDb[w], feed[m]) \in Nat
      BY <1>1, <3>1, AfterTyped
    <3>4. q[m] = p[m] /\ p[m] \in Nat
      BY <2>2, <2>3
    <3> QED
      BY <1>1, <3>2, <3>3, <3>4
  <2>5. ASSUME NEW i \in (m + 1)..n
        PROVE  After(w, q[i - 1], feed[i]) <= q[i]
    <3>1. i \in (scanned + 1)..n /\ i - 1 \in m..n /\ i \in m..n
      BY <1>1
    <3>2. After(w, p[i - 1], feed[i]) <= p[i]
      BY <2>1, <3>1 DEF Covers
    <3> QED
      BY <2>3, <3>1, <3>2
  <2>6. \A i, j \in m..n : i <= j /\ NoExit(w, i, j) => q[i] <= q[j]
    BY <2>1, <2>2, <2>3 DEF Covers
  <2>7. Covers(w, q)'
    <3>1. \A i, j : NoExit(w, i, j)' <=> NoExit(w, i, j)
      BY <1>1 DEF NoExit, IsExit
    <3>2. q \in Path' /\ scanned' = m /\ Len(feed') = n /\ feed' = feed
      BY <1>1, <2>3 DEF Path
    <3>3. \A i, j \in scanned'..Len(feed') : i <= j /\ NoExit(w, i, j)' => q[i] <= q[j]
      BY <2>6, <3>1, <3>2
    <3>4. inDb'[w] <= q[scanned'] /\ \A i \in (scanned' + 1)..Len(feed') : After(w, q[i - 1], feed'[i]) <= q[i]
      BY <2>4, <2>5, <3>2
    <3> QED
      BY <3>2, <3>3, <3>4 DEF Covers
  <2>8. Capped(w, q[n])'
    BY <1>1, <2>1, <2>2, <2>3 DEF Capped, Owed
  <2>9. ExitIsLast(w)'
    <3>1. ExitIsLast(w)
      BY DEF NothingGained
    <3>2. \A i \in (m + 1)..n : i \in (scanned + 1)..n
      BY <1>1
    <3> QED
      BY <1>1, <3>1, <3>2 DEF ExitIsLast, IsExit
  <2> QED
    BY <2>7, <2>8, <2>9
<1> QED
  BY <1>1, <1>2 DEF NothingGained

LEMMA SettleCapped ==
  ASSUME SystemTypeOK, NothingGained, LandSettlement \/ PostSettlement
  PROVE  NothingGained'
<1>1. UNCHANGED <<inDb, feed, scanned, rebought>>
  BY DEF LandSettlement, PostSettlement
<1>2. ASSUME NEW w \in Holders \ rebought, NEW x \in Nat, Capped(w, x)
      PROVE  Capped(w, x)'
  <2>1. onChain[w] \in Nat /\ batch[w] \in Nat /\ unsettled[w] \in Nat
    BY DEF SystemTypeOK
  <2>2. CASE LandSettlement
    <3>1. onChain'[w] = onChain[w] - Clamped(onChain[w], batch[w]) /\ batch'[w] = 0 /\ unsettled'[w] = unsettled[w]
      BY <2>2 DEF LandSettlement, Nothing
    <3> QED
      BY <1>2, <2>1, <3>1 DEF Capped, Owed, Clamped
  <2>3. CASE PostSettlement
    <3>1. onChain' = onChain /\ batch[w] = 0 /\ batch'[w] = unsettled[w] /\ unsettled'[w] = 0
      BY <2>3 DEF PostSettlement, Nothing
    <3> QED
      BY <1>2, <2>1, <3>1 DEF Capped, Owed
  <2> QED
    BY <2>2, <2>3
<1>3. ASSUME NEW w \in Holders \ rebought
      PROVE  ExitIsLast(w)' /\ \E q : Covers(w, q)' /\ Capped(w, q[Len(feed)])'
  <2>1. PICK p : Covers(w, p) /\ Capped(w, p[Len(feed)])
    BY DEF NothingGained
  <2>2. PICK x \in Nat : x = p[Len(feed)]
    BY <2>1, FeedTyped DEF Covers, Path
  <2>3. Capped(w, x)'
    BY <1>2, <2>1, <2>2
  <2>4. Covers(w, p)' /\ ExitIsLast(w)'
    BY <1>1, <2>1 DEF Covers, Path, NoExit, IsExit, ExitIsLast, NothingGained
  <2>5. p[Len(feed')] = x
    BY <1>1, <2>2
  <2>6. Capped(w, p[Len(feed)])'
    BY <2>3, <2>5 DEF Capped
  <2> QED
    BY <2>4, <2>6
<1> QED
  BY <1>1, <1>3 DEF NothingGained

LEMMA GainInductive ==
  ASSUME SystemTypeOK, NothingGained, [SystemNext]_systemVars
  PROVE  NothingGained'
<1>1. CASE UNCHANGED systemVars
  BY <1>1 DEF systemVars, NothingGained, Covers, Path, NoExit, IsExit, ExitIsLast, Capped, Owed
<1> QED
  BY <1>1, BuyCapped, ExitCapped, SpendCapped, IndexCapped, SettleCapped DEF SystemNext

LEMMA InitCapped == SystemInit => NothingGained
<1> SUFFICES ASSUME SystemInit, NEW w \in Holders
             PROVE  ExitIsLast(w) /\ \E q : Covers(w, q) /\ Capped(w, q[Len(feed)])
  BY DEF NothingGained
<1>1. PICK q \in [0..0 -> Nat] : q[0] = 0
  <2> DEFINE f == [i \in 0..0 |-> 0]
  <2>1. f \in [0..0 -> Nat] /\ f[0] = 0
    OBVIOUS
  <2> QED
    BY <2>1
<1>2. Covers(w, q) /\ Capped(w, q[Len(feed)])
  BY <1>1 DEF SystemInit, Covers, Path, Nothing, Capped
<1>3. ExitIsLast(w)
  BY DEF SystemInit, ExitIsLast
<1> QED
  BY <1>2, <1>3

\* When all is indexed and settled, the database and the contract agree, although each
\* has clamped debits in an order of its own, unless the wallet has bought in between.
THEOREM BooksDoConverge == SystemSpec => []BooksConverge
<1>1. ASSUME SystemTypeOK, NothingLost, NothingGained
      PROVE  BooksConverge
  <2> SUFFICES ASSUME NEW w \in Holders \ rebought, AtRest(w)
               PROVE  inDb[w] = onChain[w]
    BY DEF BooksConverge
  <2>1. PICK p : Foretells(w, p)
    BY <1>1 DEF NothingLost
  <2>2. PICK q : Covers(w, q) /\ Capped(w, q[Len(feed)])
    BY <1>1 DEF NothingGained
  <2>3. p[scanned] \in Nat /\ q[scanned] \in Nat /\ scanned = Len(feed) /\ Owed(w) = 0
    BY <1>1, <2>1, <2>2, FeedTyped DEF Foretells, Covers, Path, AtRest
  <2>4. onChain[w] <= inDb[w]
    BY <1>1, <2>1, <2>3, OwedTyped DEF Foretells
  <2>5. inDb[w] <= onChain[w]
    BY <1>1, <2>2, <2>3, OwedTyped DEF Covers, Capped
  <2> QED
    BY <1>1, <2>4, <2>5, OwedTyped
<1>2. SystemTypeOK /\ NothingLost /\ NothingGained => BooksConverge
  BY <1>1
<1>3. SystemTypeOK /\ NothingLost /\ NothingGained /\ [SystemNext]_systemVars
        => (SystemTypeOK /\ NothingLost /\ NothingGained)'
  BY SystemStepTyped, LossInductive, GainInductive
<1>4. SystemInit => SystemTypeOK /\ NothingLost /\ NothingGained
  BY SystemInitTyped, InitForetold, InitCapped
<1> QED
  BY <1>2, <1>3, <1>4, PTL DEF SystemSpec

-----------------------------------------------------------------------------
\* Sponsorship.

Used(s, d) == IF usage[s][d] = NoUsage THEN 0 ELSE usage[s][d]
Net(row) == row.late - row.spent - row.leaked

Holds(k, s, d) == k.at \in Holding /\ k.scope = s /\ k.day = d
Share(k, s, d) == IF Holds(k, s, d) THEN k.fee ELSE 0

\* A call that has a share, or is about to insert one, has a day.
CallGood(k) ==
  /\ k.at # "idle" => k.user \in Sponsored
  /\ k.at \in Holding \cup {"insert"} => k.day \in Days
  /\ k.at = "reinsert" => k.back \in Days
  /\ k.at = "insert" => k.fee <= DailyLimit

\* What is held of a row is finite although the calls may not be.
RowBalances(s, d) ==
  /\ IsFiniteSet(HeldBy(s, d))
  /\ Used(s, d) <= DailyLimit
  /\ Used(s, d) + Net(tally[s][d]) = Held(s, d)

CallsGood == \A c \in SponsorCalls : CallGood(sponsorCall[c])
RowsBalance == \A s \in Scopes, d \in Days : RowBalances(s, d)
SponsorInv == SponsorTypeOK /\ CallsGood /\ RowsBalance

\* What no row and no call depends on.
SideTyped ==
  /\ day \in Days /\ asked \in [Sponsored -> Nat]
  /\ transfers \subseteq [status : {"processing", "completed", "failed"}, sent : BOOLEAN]
  /\ sponsorBegun \in 0..MaxSponsorCalls /\ sponsorFaults \in 0..MaxSponsorFaults

LEMMA SponsorConstants ==
  /\ \A fee \in Fees : fee \in Nat /\ fee > 0
  /\ DailyLimit \in Nat /\ MaxSponsorCalls \in Nat /\ MaxSponsorFaults \in Nat /\ LastDay \in Nat
  /\ 1 \in Days /\ Days \subseteq Nat
  /\ NoUsage \notin Int /\ "global" \notin Sponsored
<1>1. /\ \A fee \in Fees : fee \in Nat /\ fee > 0
      /\ DailyLimit \in Nat /\ MaxSponsorCalls \in Nat /\ MaxSponsorFaults \in Nat
      /\ LastDay \in Nat /\ LastDay > 0
      /\ NoUsage \notin Int /\ "global" \notin Sponsored
  BY SponsorAssumption DEF SponsorAssumption
<1> QED
  BY <1>1 DEF Days

LEMMA SponsorParts ==
  ASSUME SponsorTypeOK, NEW c \in SponsorCalls
  PROVE  /\ sponsorCall[c] \in SponsorRecord
         /\ sponsorCall[c].fee \in Nat /\ sponsorCall[c].scope \in Scopes
         /\ day \in Days /\ \A s \in Scopes, d \in Days : usage[s][d] \in Int \cup {NoUsage}
         /\ \A s \in Scopes, d \in Days : Used(s, d) \in Int
         /\ \A s \in Scopes, d \in Days :
              tally[s][d] \in Tally /\ tally[s][d].spent \in Nat /\ tally[s][d].late \in Nat
BY SponsorConstants DEF SponsorTypeOK, SponsorRecord, Used, Tally

LEMMA NetTyped == ASSUME NEW row \in Tally PROVE Net(row) \in Int
BY DEF Net, Tally

\* When one call changes, what the calls hold of a row changes by its share.
LEMMA HeldChanges ==
  ASSUME SponsorTypeOK, NEW c \in SponsorCalls, NEW j \in SponsorRecord,
         sponsorCall' = [sponsorCall EXCEPT ![c] = j], NEW s, NEW d, IsFiniteSet(HeldBy(s, d))
  PROVE  /\ IsFiniteSet(HeldBy(s, d)') /\ Held(s, d) \in Int
         /\ Held(s, d)' = Held(s, d) + Share(j, s, d) - Share(sponsorCall[c], s, d)
<1> DEFINE f == [e \in SponsorCalls |-> sponsorCall[e].fee]
           g == [e \in SponsorCalls |-> sponsorCall'[e].fee]
           A == HeldBy(s, d)
           B == HeldBy(s, d)'
           R == A \ {c}
<1>1. /\ sponsorCall' \in [SponsorCalls -> SponsorRecord] /\ sponsorCall'[c] = j
      /\ \A e \in SponsorCalls \ {c} : sponsorCall'[e] = sponsorCall[e]
  BY DEF SponsorTypeOK
<1>2. /\ \A e \in SponsorCalls : f[e] \in Int /\ g[e] \in Int
      /\ \A e \in SponsorCalls \ {c} : f[e] = g[e]
      /\ f[c] = sponsorCall[c].fee /\ g[c] = j.fee
  BY <1>1, SponsorConstants DEF SponsorTypeOK, SponsorRecord
<1>3. A \subseteq SponsorCalls /\ B \subseteq SponsorCalls /\ R = B \ {c}
  BY <1>1 DEF HeldBy
<1>4. (c \in A <=> Holds(sponsorCall[c], s, d)) /\ (c \in B <=> Holds(j, s, d))
  BY <1>1 DEF HeldBy, Holds
<1>5. Held(s, d) = SumFunctionOnSet(f, A) /\ Held(s, d)' = SumFunctionOnSet(g, B)
  BY DEF Held
<1> HIDE DEF A, B
<1>6. IsFiniteSet(A) /\ IsFiniteSet(R) /\ IsFiniteSet(B)
  <2>1. IsFiniteSet(A) /\ IsFiniteSet(R)
    BY FS_RemoveElement DEF A
  <2>2. B = R \/ B = R \cup {c}
    BY <1>3
  <2> HIDE DEF R
  <2>3. IsFiniteSet(R \cup {c})
    BY <2>1, FS_AddElement
  <2> QED
    BY <2>1, <2>2, <2>3
<1> HIDE DEF f, g, R
<1>7. SumFunctionOnSet(f, R) = SumFunctionOnSet(g, R) /\ SumFunctionOnSet(f, R) \in Int
  <2>1. \A e \in R : f[e] = g[e] /\ f[e] \in Int
    BY <1>2, <1>3 DEF R
  <2> QED
    BY <1>6, <2>1, SumSame, SumInt
<1>8. SumFunctionOnSet(f, A) = Share(sponsorCall[c], s, d) + SumFunctionOnSet(f, R)
  <2>1. CASE c \in A
    <3>1. SumFunctionOnSet(f, A) = f[c] + SumFunctionOnSet(f, A \ {c})
      <4>1. \A e \in A : f[e] \in Int
        BY <1>2, <1>3
      <4> QED
        BY <1>6, <2>1, <4>1, SumRemove
    <3> QED
      BY <1>2, <1>4, <2>1, <3>1 DEF Share, R
  <2>2. CASE c \notin A
    BY <1>4, <1>7, <2>2 DEF Share, R
  <2> QED
    BY <2>1, <2>2
<1>9. SumFunctionOnSet(g, B) = Share(j, s, d) + SumFunctionOnSet(g, R)
  <2>1. CASE c \in B
    <3>1. SumFunctionOnSet(g, B) = g[c] + SumFunctionOnSet(g, B \ {c})
      <4>1. \A e \in B : g[e] \in Int
        BY <1>2, <1>3
      <4> QED
        BY <1>6, <2>1, <4>1, SumRemove
    <3> QED
      BY <1>2, <1>3, <1>4, <2>1, <3>1 DEF Share
  <2>2. CASE c \notin B
    <3>1. B = R
      BY <1>3, <2>2
    <3> QED
      BY <1>4, <1>7, <2>2, <3>1 DEF Share
  <2> QED
    BY <2>1, <2>2
<1>10. Share(j, s, d) \in Int /\ Share(sponsorCall[c], s, d) \in Int
  BY <1>2 DEF Share
<1>11. /\ SumFunctionOnSet(f, A) \in Int
       /\ SumFunctionOnSet(g, B)
            = SumFunctionOnSet(f, A) + Share(j, s, d) - Share(sponsorCall[c], s, d)
  <2>1. PICK n \in Int : n = SumFunctionOnSet(f, R)
    BY <1>7
  <2>2. PICK x \in Int, y \in Int : x = Share(sponsorCall[c], s, d) /\ y = Share(j, s, d)
    BY <1>10
  <2>3. SumFunctionOnSet(f, A) = x + n /\ SumFunctionOnSet(g, B) = y + n
    BY <1>7, <1>8, <1>9, <2>1, <2>2
  <2> QED
    BY <2>2, <2>3
<1> QED
  <2> HIDE DEF A
  <2>1. B = HeldBy(s, d)' /\ IsFiniteSet(B)
    BY <1>6 DEF B
  <2> QED
    BY <1>5, <1>11, <2>1

LEMMA CallChanged ==
  ASSUME SponsorTypeOK, NEW c \in SponsorCalls, NEW j \in SponsorRecord,
         sponsorCall' = [sponsorCall EXCEPT ![c] = j]
  PROVE  /\ sponsorCall' \in [SponsorCalls -> SponsorRecord] /\ sponsorCall'[c] = j
         /\ \A e \in SponsorCalls \ {c} : sponsorCall'[e] = sponsorCall[e]
BY DEF SponsorTypeOK

LEMMA ShareTyped ==
  ASSUME NEW k \in SponsorRecord, NEW s, NEW d
  PROVE  Share(k, s, d) \in Int
BY SponsorConstants DEF Share, SponsorRecord

\* The invariant is kept by a step of a call that changes what is counted of each
\* row by as much as the share that the call holds of it.
LEMMA RowsKept ==
  ASSUME SponsorInv, NEW c \in SponsorCalls, NEW j \in SponsorRecord, CallGood(j),
         sponsorCall' = [sponsorCall EXCEPT ![c] = j], SideTyped',
         usage' \in [Scopes -> [Days -> Int \cup {NoUsage}]], tally' \in [Scopes -> [Days -> Tally]],
         \A s \in Scopes, d \in Days :
           /\ Used(s, d)' <= DailyLimit
           /\ Used(s, d)' + Net(tally'[s][d]) + Share(sponsorCall[c], s, d)
                = Used(s, d) + Net(tally[s][d]) + Share(j, s, d)
  PROVE  SponsorInv'
<1>1. SponsorTypeOK /\ CallsGood /\ RowsBalance
  BY DEF SponsorInv
<1>2. /\ sponsorCall' \in [SponsorCalls -> SponsorRecord] /\ sponsorCall'[c] = j
      /\ \A e \in SponsorCalls \ {c} : sponsorCall'[e] = sponsorCall[e]
  BY <1>1, CallChanged
<1>3. SponsorTypeOK'
  BY <1>2 DEF SponsorTypeOK, SideTyped
<1>4. CallsGood'
  BY <1>1, <1>2 DEF CallsGood
<1>5. ASSUME NEW s \in Scopes, NEW d \in Days PROVE RowBalances(s, d)'
  <2>1. IsFiniteSet(HeldBy(s, d)) /\ Used(s, d) + Net(tally[s][d]) = Held(s, d)
    BY <1>1 DEF RowsBalance, RowBalances
  <2>2. /\ IsFiniteSet(HeldBy(s, d)') /\ Held(s, d) \in Int
        /\ Held(s, d)' = Held(s, d) + Share(j, s, d) - Share(sponsorCall[c], s, d)
    BY <1>1, <2>1, HeldChanges
  <2>3. Used(s, d)' \in Int /\ Net(tally'[s][d]) \in Int
    BY NetTyped, SponsorConstants DEF Used
  <2>4. Share(j, s, d) \in Int /\ Share(sponsorCall[c], s, d) \in Int
    BY <1>1, ShareTyped, SponsorParts
  <2>5. Used(s, d)' + Net(tally'[s][d]) = Held(s, d)'
    <3>1. PICK x \in Int, y \in Int : x = Held(s, d) /\ y = Used(s, d)'
      BY <2>2, <2>3
    <3>2. PICK a \in Int, b \in Int : a = Share(j, s, d) /\ b = Share(sponsorCall[c], s, d)
      BY <2>4
    <3>3. y + Net(tally'[s][d]) + b = x + a
      BY <2>1, <3>1, <3>2
    <3>4. Held(s, d)' = x + a - b
      BY <2>2, <3>1, <3>2
    <3>5. y + Net(tally'[s][d]) = x + a - b
      <4>1. PICK v \in Int : v = Net(tally'[s][d])
        BY <2>3
      <4>2. y + v + b = x + a
        BY <3>3, <4>1
      <4>3. y + v = x + a - b
        BY <4>2
      <4> QED
        BY <4>1, <4>3
    <3> QED
      BY <3>1, <3>4, <3>5
  <2> QED
    BY <2>2, <2>5 DEF RowBalances
<1> QED
  BY <1>3, <1>4, <1>5 DEF SponsorInv, RowsBalance

\* A step that changes neither rows nor shares.
LEMMA QuietKept ==
  ASSUME SponsorInv, NEW c \in SponsorCalls, NEW j \in SponsorRecord, CallGood(j),
         sponsorCall' = [sponsorCall EXCEPT ![c] = j], SideTyped', UNCHANGED <<usage, tally>>,
         \/ sponsorCall[c].at \notin Holding /\ j.at \notin Holding
         \/ /\ sponsorCall[c].at \in Holding /\ j.at \in Holding
            /\ j.scope = sponsorCall[c].scope /\ j.day = sponsorCall[c].day
            /\ j.fee = sponsorCall[c].fee
  PROVE  SponsorInv'
<1>1. SponsorTypeOK /\ RowsBalance
  BY DEF SponsorInv
<1>2. ASSUME NEW s \in Scopes, NEW d \in Days
      PROVE  /\ Used(s, d)' = Used(s, d) /\ Used(s, d) <= DailyLimit
             /\ Share(j, s, d) = Share(sponsorCall[c], s, d)
  BY <1>1 DEF Used, Share, Holds, RowsBalance, RowBalances
<1>3. usage' \in [Scopes -> [Days -> Int \cup {NoUsage}]] /\ tally' \in [Scopes -> [Days -> Tally]]
  BY <1>1 DEF SponsorTypeOK
<1>4. tally' = tally
  OBVIOUS
<1>5. ASSUME NEW s \in Scopes, NEW d \in Days
      PROVE  /\ Used(s, d)' <= DailyLimit
             /\ Used(s, d)' + Net(tally'[s][d]) + Share(sponsorCall[c], s, d)
                  = Used(s, d) + Net(tally[s][d]) + Share(j, s, d)
  BY <1>2, <1>4, Zenon
<1> QED
  BY <1>3, <1>5, RowsKept

\* A row that is set.
LEMMA UsageSet ==
  ASSUME NEW was \in [Scopes -> [Days -> Int \cup {NoUsage}]], NEW x \in Scopes, NEW t \in Days,
         NEW n \in Int, NEW is, is = [was EXCEPT ![x][t] = n]
  PROVE  /\ is \in [Scopes -> [Days -> Int \cup {NoUsage}]]
         /\ \A s \in Scopes, d \in Days : is[s][d] = IF s = x /\ d = t THEN n ELSE was[s][d]
OBVIOUS

\* A step that counts a share.
LEMMA CountKept ==
  ASSUME SponsorInv, NEW c \in SponsorCalls, NEW j \in SponsorRecord, CallGood(j), NEW t \in Days,
         sponsorCall' = [sponsorCall EXCEPT ![c] = j], SideTyped', UNCHANGED tally,
         sponsorCall[c].at \notin Holding, j.at \in Holding, j.scope = sponsorCall[c].scope,
         j.day = t, j.fee = sponsorCall[c].fee,
         usage' = [usage EXCEPT ![j.scope][t] = Used(j.scope, t) + j.fee],
         Used(j.scope, t) + j.fee <= DailyLimit
  PROVE  SponsorInv'
<1>1. SponsorTypeOK /\ RowsBalance
  BY DEF SponsorInv
<1>2. j.scope \in Scopes /\ j.fee \in Nat
  BY SponsorConstants DEF SponsorRecord
<1>3. \A s \in Scopes, d \in Days : Used(s, d) \in Int /\ Used(s, d) <= DailyLimit /\ Net(tally[s][d]) \in Int
  BY <1>1, NetTyped, SponsorParts DEF RowsBalance, RowBalances
<1>4. Used(j.scope, t) + j.fee \in Int
  <2> HIDE DEF Used
  <2> QED
    BY <1>2, <1>3
<1>5. PICK n \in Int : n = Used(j.scope, t) + j.fee
  BY <1>4
<1>6. /\ usage' \in [Scopes -> [Days -> Int \cup {NoUsage}]]
      /\ \A s \in Scopes, d \in Days : usage'[s][d] = IF s = j.scope /\ d = t THEN n ELSE usage[s][d]
  <2>1. usage' = [usage EXCEPT ![j.scope][t] = n]
    BY <1>5
  <2>2. usage \in [Scopes -> [Days -> Int \cup {NoUsage}]]
    BY <1>1 DEF SponsorTypeOK
  <2> QED
    BY <1>2, <2>1, <2>2, UsageSet
<1>7. tally' \in [Scopes -> [Days -> Tally]] /\ tally' = tally
  BY <1>1 DEF SponsorTypeOK
<1>8. ASSUME NEW s \in Scopes, NEW d \in Days
      PROVE  /\ Used(s, d)' <= DailyLimit
             /\ Used(s, d)' + Net(tally'[s][d]) + Share(sponsorCall[c], s, d)
                  = Used(s, d) + Net(tally[s][d]) + Share(j, s, d)
  <2>1. Share(sponsorCall[c], s, d) = 0 /\ Share(j, s, d) = IF s = j.scope /\ d = t THEN j.fee ELSE 0
    BY DEF Share, Holds
  <2> DEFINE y == Used(s, d)'
             x == Used(s, d)
  <2>2. x \in Int /\ x <= DailyLimit /\ (s = j.scope /\ d = t => n = x + j.fee /\ n <= DailyLimit)
    BY <1>3, <1>5
  <2>3. y = IF s = j.scope /\ d = t THEN n ELSE x
    <3>1. usage'[s][d] = IF s = j.scope /\ d = t THEN n ELSE usage[s][d]
      BY <1>6
    <3>2. n # NoUsage
      BY <1>5, SponsorConstants
    <3> QED
      BY <3>1, <3>2 DEF Used
  <2>4. y <= DailyLimit
    BY <2>2, <2>3
  <2> HIDE DEF x, y
  <2>5. y + Net(tally'[s][d]) + Share(sponsorCall[c], s, d) = x + Net(tally[s][d]) + Share(j, s, d)
    BY <1>2, <1>3, <1>7, <2>1, <2>2, <2>3
  <2> QED
    BY <2>4, <2>5 DEF x, y
<1> QED
  BY <1>6, <1>7, <1>8, RowsKept

\* A tally to which an amount is added.
LEMMA TallyMore ==
  ASSUME NEW row \in Tally, NEW fee \in Nat
  PROVE  /\ [row EXCEPT !.late = row.late + fee] \in Tally
         /\ Net([row EXCEPT !.late = row.late + fee]) = Net(row) + fee
         /\ [row EXCEPT !.leaked = row.leaked + fee] \in Tally
         /\ Net([row EXCEPT !.leaked = row.leaked + fee]) = Net(row) - fee
         /\ [row EXCEPT !.spent = row.spent + fee] \in Tally
         /\ Net([row EXCEPT !.spent = row.spent + fee]) = Net(row) - fee
<1>1. /\ row.late \in Nat /\ row.leaked \in Nat /\ row.spent \in Nat
      /\ row = [late |-> row.late, leaked |-> row.leaked, spent |-> row.spent]
  BY DEF Tally
<1> QED
  BY <1>1 DEF Tally, Net

LEMMA TallySet ==
  ASSUME NEW was \in [Scopes -> [Days -> Tally]], NEW x \in Scopes, NEW t \in Days, NEW row \in Tally,
         NEW is, is = [was EXCEPT ![x][t] = row]
  PROVE  /\ is \in [Scopes -> [Days -> Tally]]
         /\ \A s \in Scopes, d \in Days : is[s][d] = IF s = x /\ d = t THEN row ELSE was[s][d]
OBVIOUS

\* A step after which a share is spent or lost.
LEMMA SpendKept ==
  ASSUME SponsorInv, NEW c \in SponsorCalls, NEW j \in SponsorRecord, CallGood(j),
         sponsorCall' = [sponsorCall EXCEPT ![c] = j], SideTyped', UNCHANGED usage,
         sponsorCall[c].at \in Holding, j.at \notin Holding,
         Tallied(c, "spent") \/ Tallied(c, "leaked")
  PROVE  SponsorInv'
<1> DEFINE k == sponsorCall[c]
           row == tally[k.scope][k.day]
<1>1. SponsorTypeOK /\ RowsBalance
  BY DEF SponsorInv
<1>2. k.scope \in Scopes /\ k.day \in Days /\ k.fee \in Nat
  BY <1>1, SponsorParts DEF SponsorInv, CallsGood, CallGood
<1>3. \A s \in Scopes, d \in Days : Used(s, d) \in Int /\ Used(s, d) <= DailyLimit /\ Net(tally[s][d]) \in Int
  BY <1>1, NetTyped, SponsorParts DEF RowsBalance, RowBalances
<1>4. tally \in [Scopes -> [Days -> Tally]] /\ row \in Tally
  BY <1>1, <1>2 DEF SponsorTypeOK
<1>5. PICK new \in Tally : Net(new) = Net(row) - k.fee /\ tally' = [tally EXCEPT ![k.scope][k.day] = new]
  <2>1. CASE Tallied(c, "spent")
    <3>1. tally' = [tally EXCEPT ![k.scope][k.day] = [row EXCEPT !.spent = row.spent + k.fee]]
      BY <2>1 DEF Tallied
    <3> HIDE DEF k, row
    <3> QED
      BY <1>2, <1>4, <3>1, TallyMore
  <2>2. CASE Tallied(c, "leaked")
    <3>1. tally' = [tally EXCEPT ![k.scope][k.day] = [row EXCEPT !.leaked = row.leaked + k.fee]]
      BY <2>2 DEF Tallied
    <3> HIDE DEF k, row
    <3> QED
      BY <1>2, <1>4, <3>1, TallyMore
  <2> QED
    BY <2>1, <2>2
<1>6. /\ tally' \in [Scopes -> [Days -> Tally]]
      /\ \A s \in Scopes, d \in Days :
           tally'[s][d] = IF s = k.scope /\ d = k.day THEN new ELSE tally[s][d]
  BY <1>2, <1>4, <1>5, TallySet
<1>7. usage' \in [Scopes -> [Days -> Int \cup {NoUsage}]]
  BY <1>1 DEF SponsorTypeOK
<1>8. ASSUME NEW s \in Scopes, NEW d \in Days
      PROVE  /\ Used(s, d)' <= DailyLimit
             /\ Used(s, d)' + Net(tally'[s][d]) + Share(k, s, d)
                  = Used(s, d) + Net(tally[s][d]) + Share(j, s, d)
  <2>1. Share(j, s, d) = 0 /\ Share(k, s, d) = IF s = k.scope /\ d = k.day THEN k.fee ELSE 0
    BY DEF Share, Holds
  <2>2. Used(s, d)' = Used(s, d)
    BY DEF Used
  <2>3. Net(tally'[s][d]) + Share(k, s, d) = Net(tally[s][d]) /\ Net(tally'[s][d]) \in Int
    BY <1>2, <1>3, <1>5, <1>6, <2>1, NetTyped
  <2>4. Share(k, s, d) \in Int
    BY <1>2, <2>1
  <2> HIDE DEF k, Used
  <2> QED
    BY <1>3, <2>1, <2>2, <2>3, <2>4
<1> QED
  BY <1>6, <1>7, <1>8, RowsKept

LEMMA IdleGood == SponsorIdle \in SponsorRecord /\ CallGood(SponsorIdle) /\ SponsorIdle.at \notin Holding
BY SponsorConstants DEF SponsorIdle, SponsorRecord, CallGood, Holding, Scopes

\* The same share, late on day t and leaked on day e,
LateThen(x, t, fee) ==
  [tally EXCEPT ![x][t] = [tally[x][t] EXCEPT !.late = tally[x][t].late + fee]]
LateAndLeaked(x, t, e, fee) ==
  LET mid == LateThen(x, t, fee)
  IN  [mid EXCEPT ![x][e] = [mid[x][e] EXCEPT !.leaked = mid[x][e].leaked + fee]]

\* and what that does to the tallies: so much more, or less, is left of a row.
OnlyLate(now, x, t, e, fee) ==
  /\ now \in [Scopes -> [Days -> Tally]]
  /\ \A s \in Scopes, d \in Days :
       Net(now[s][d]) + (IF s = x /\ d = e THEN fee ELSE 0)
         = Net(tally[s][d]) + IF s = x /\ d = t THEN fee ELSE 0

LEMMA RowMoves ==
  ASSUME SponsorTypeOK, NEW x \in Scopes, NEW e \in Days, NEW fee \in Nat, NEW t \in Days
  PROVE  OnlyLate(LateAndLeaked(x, t, e, fee), x, t, e, fee)
<1> DEFINE late == [tally[x][t] EXCEPT !.late = tally[x][t].late + fee]
           mid == [tally EXCEPT ![x][t] = late]
           leaked == [mid[x][e] EXCEPT !.leaked = mid[x][e].leaked + fee]
           new == [mid EXCEPT ![x][e] = leaked]
<1>1. tally \in [Scopes -> [Days -> Tally]] /\ \A s \in Scopes, d \in Days : tally[s][d] \in Tally
  BY DEF SponsorTypeOK
<1>2. late \in Tally /\ Net(late) = Net(tally[x][t]) + fee
  BY <1>1, TallyMore
<1>3. /\ mid \in [Scopes -> [Days -> Tally]]
      /\ \A s \in Scopes, d \in Days : mid[s][d] = IF s = x /\ d = t THEN late ELSE tally[s][d]
  <2> HIDE DEF late
  <2> QED
    BY <1>1, <1>2, TallySet
<1>4. leaked \in Tally /\ Net(leaked) = Net(mid[x][e]) - fee
  <2> HIDE DEF mid
  <2>1. mid[x][e] \in Tally
    BY <1>3
  <2> QED
    BY <2>1, TallyMore
<1>5. /\ new \in [Scopes -> [Days -> Tally]]
      /\ \A s \in Scopes, d \in Days : new[s][d] = IF s = x /\ d = e THEN leaked ELSE mid[s][d]
  <2> HIDE DEF mid, leaked
  <2> QED
    BY <1>3, <1>4, TallySet
<1> HIDE DEF late, mid, leaked, new
<1>6. ASSUME NEW s \in Scopes, NEW d \in Days
      PROVE  Net(new[s][d]) + (IF s = x /\ d = e THEN fee ELSE 0)
               = Net(tally[s][d]) + IF s = x /\ d = t THEN fee ELSE 0
  <2>1. Net(mid[s][d]) \in Int /\ Net(tally[s][d]) \in Int
    BY <1>1, <1>3, NetTyped
  <2>2. Net(new[s][d]) = IF s = x /\ d = e THEN Net(mid[s][d]) - fee ELSE Net(mid[s][d])
    BY <1>4, <1>5
  <2>3. Net(mid[s][d]) = IF s = x /\ d = t THEN Net(tally[s][d]) + fee ELSE Net(tally[s][d])
    BY <1>2, <1>3
  <2> QED
    BY <2>1, <2>2, <2>3
<1>7. LateAndLeaked(x, t, e, fee) = new
  BY SMTT(30) DEF LateAndLeaked, LateThen, late, mid, leaked, new
<1> QED
  BY <1>5, <1>6, <1>7 DEF OnlyLate

LEMMA LateMoves ==
  ASSUME SponsorTypeOK, NEW c \in SponsorCalls, sponsorCall[c].day \in Days, NEW t \in Days,
         tally' = [tally EXCEPT ![sponsorCall[c].scope][t].late = @ + sponsorCall[c].fee,
                                ![sponsorCall[c].scope][sponsorCall[c].day].leaked = @ + sponsorCall[c].fee]
  PROVE  OnlyLate(tally', sponsorCall[c].scope, t, sponsorCall[c].day, sponsorCall[c].fee)
<1> DEFINE k == sponsorCall[c]
<1>0. k.day \in Days
  BY Zenon
<1>1. tally' = LateAndLeaked(k.scope, t, k.day, k.fee)
  BY ZenonT(30) DEF LateAndLeaked, LateThen
<1>2. k.scope \in Scopes /\ k.fee \in Nat
  BY SponsorParts
<1>3. OnlyLate(LateAndLeaked(k.scope, t, k.day, k.fee), k.scope, t, k.day, k.fee)
  <2> HIDE DEF k
  <2> QED
    BY <1>0, <1>2, RowMoves
<1> QED
  BY <1>1, <1>3, Zenon

\* A step that gives a share back, t being the day whose row is lowered.
LEMMA RefundKept ==
  ASSUME SponsorInv, NEW c \in SponsorCalls, NEW t \in Days, sponsorCall[c].at \in Holding,
         sponsorCall' = [sponsorCall EXCEPT ![c] = SponsorIdle], SideTyped',
         usage' = [usage EXCEPT ![sponsorCall[c].scope][t]
                     = Used(sponsorCall[c].scope, t) - sponsorCall[c].fee],
         OnlyLate(tally', sponsorCall[c].scope, t, sponsorCall[c].day, sponsorCall[c].fee)
  PROVE  SponsorInv'
<1> DEFINE k == sponsorCall[c]
<1>1. SponsorTypeOK /\ RowsBalance
  BY DEF SponsorInv
<1>2. k.scope \in Scopes /\ k.day \in Days /\ k.fee \in Nat
  BY <1>1, SponsorParts DEF SponsorInv, CallsGood, CallGood
<1>3. \A s \in Scopes, d \in Days : Used(s, d) \in Int /\ Used(s, d) <= DailyLimit /\ Net(tally[s][d]) \in Int
  BY <1>1, NetTyped, SponsorParts DEF RowsBalance, RowBalances
<1>4. tally' \in [Scopes -> [Days -> Tally]]
  BY DEF OnlyLate
<1> DEFINE now == Used(k.scope, t) - k.fee
<1>5. now \in Int /\ now <= DailyLimit /\ usage' = [usage EXCEPT ![k.scope][t] = now]
  <2>1. usage' = [usage EXCEPT ![k.scope][t] = now]
    OBVIOUS
  <2> HIDE DEF Used, k
  <2>2. now \in Int /\ now <= DailyLimit
    BY <1>2, <1>3, SponsorConstants
  <2> QED
    BY <2>1, <2>2
<1> HIDE DEF now
<1>6. /\ usage' \in [Scopes -> [Days -> Int \cup {NoUsage}]]
      /\ \A s \in Scopes, d \in Days : usage'[s][d] = IF s = k.scope /\ d = t THEN now ELSE usage[s][d]
  <2>1. usage \in [Scopes -> [Days -> Int \cup {NoUsage}]]
    BY <1>1 DEF SponsorTypeOK
  <2> QED
    BY <1>2, <1>5, <2>1, UsageSet
<1>7. ASSUME NEW s \in Scopes, NEW d \in Days
      PROVE  /\ Used(s, d)' <= DailyLimit
             /\ Used(s, d)' + Net(tally'[s][d]) + Share(k, s, d)
                  = Used(s, d) + Net(tally[s][d]) + Share(SponsorIdle, s, d)
  <2>1. Share(SponsorIdle, s, d) = 0 /\ Share(k, s, d) = IF s = k.scope /\ d = k.day THEN k.fee ELSE 0
    BY IdleGood DEF Share, Holds
  <2>2. Net(tally'[s][d]) + (IF s = k.scope /\ d = k.day THEN k.fee ELSE 0)
          = Net(tally[s][d]) + (IF s = k.scope /\ d = t THEN k.fee ELSE 0)
    BY DEF OnlyLate
  <2>3. Net(tally'[s][d]) \in Int
    BY <1>4, NetTyped
  <2> DEFINE y == Used(s, d)'
             x == Used(s, d)
  <2>4. x \in Int /\ x <= DailyLimit /\ (s = k.scope /\ d = t => now = x - k.fee)
    BY <1>3 DEF now
  <2>5. y = IF s = k.scope /\ d = t THEN now ELSE x
    BY <1>5, <1>6, SponsorConstants DEF Used
  <2>6. y <= DailyLimit
    BY <1>5, <2>4, <2>5
  <2> HIDE DEF x, y, k
  <2>7. y + Net(tally'[s][d]) + Share(k, s, d) = x + Net(tally[s][d]) + Share(SponsorIdle, s, d)
    BY <1>2, <1>3, <2>1, <2>2, <2>3, <2>4, <2>5
  <2> QED
    BY <2>6, <2>7 DEF x, y
<1> QED
  BY <1>4, <1>6, <1>7, IdleGood, RowsKept

\* The steps.

LEMMA CallMoved ==
  ASSUME SponsorTypeOK, NEW c \in SponsorCalls, sponsorCall[c].at # "idle", CallGood(sponsorCall[c]),
         NEW at \in {"limit", "sign", "release", "record", "transfer", "reply"},
         sponsorCall[c].at \in Holding, Goes(c, at)
  PROVE  \E j \in SponsorRecord :
           /\ sponsorCall' = [sponsorCall EXCEPT ![c] = j] /\ CallGood(j)
           /\ j.at = at /\ j.scope = sponsorCall[c].scope /\ j.day = sponsorCall[c].day
           /\ j.fee = sponsorCall[c].fee
<1> DEFINE k == sponsorCall[c]
           j == [k EXCEPT !.at = at]
<1>1. sponsorCall' = [sponsorCall EXCEPT ![c] = j]
  BY DEF Goes
<1>2. k \in SponsorRecord
  BY DEF SponsorTypeOK
<1>3. /\ j \in SponsorRecord /\ j.at = at /\ j.scope = k.scope /\ j.day = k.day /\ j.fee = k.fee
      /\ j.user = k.user
  <2> HIDE DEF k
  <2> QED
    BY <1>2 DEF SponsorRecord
<1>4. CallGood(j)
  BY <1>3 DEF CallGood, Holding
<1> QED
  BY <1>1, <1>3, <1>4

LEMMA AskKept ==
  ASSUME SponsorInv, NEW c \in SponsorCalls, NEW scope \in Scopes, NEW u \in Sponsored, NEW fee \in Fees,
         Ask(c, scope, u, fee)
  PROVE  SponsorInv'
<1> DEFINE j == [SponsorIdle EXCEPT !.at = "bump", !.scope = scope, !.user = u, !.fee = fee]
<1>1. j \in SponsorRecord /\ j.at = "bump" /\ j.user = u
  BY DEF SponsorIdle, SponsorRecord, Scopes
<1>2. CallGood(j) /\ j.at \notin Holding /\ sponsorCall[c].at \notin Holding
  BY <1>1 DEF CallGood, Holding, Ask
<1>3. sponsorCall' = [sponsorCall EXCEPT ![c] = j] /\ UNCHANGED <<usage, tally>>
  BY DEF Ask
<1>4. SideTyped'
  BY SponsorConstants DEF SponsorInv, SponsorTypeOK, SideTyped, Ask
<1> HIDE DEF j
<1> QED
  BY <1>1, <1>2, <1>3, <1>4, QuietKept

\* A call ends that has no share, or no longer has one.
LEMMA EndsKept ==
  ASSUME SponsorInv, NEW c \in SponsorCalls, Ends(c), UNCHANGED usage, SideTyped',
         \/ sponsorCall[c].at \notin Holding /\ UNCHANGED tally
         \/ sponsorCall[c].at \in Holding /\ (Tallied(c, "spent") \/ Tallied(c, "leaked"))
  PROVE  SponsorInv'
BY IdleGood, QuietKept, SpendKept DEF Ends

LEMMA BumpKept ==
  ASSUME SponsorInv, NEW c \in SponsorCalls, Bump(c)
  PROVE  SponsorInv'
<1> DEFINE k == sponsorCall[c]
           used == IF Today(c) = NoUsage THEN 0 ELSE Today(c)
<1>1. SponsorTypeOK /\ k \in SponsorRecord /\ k.scope \in Scopes /\ k.fee \in Nat /\ day \in Days
      /\ CallGood(k)
  BY SponsorParts DEF SponsorInv, CallsGood
<1>2. SideTyped' /\ tally' = tally /\ k.at \notin Holding /\ k.at = "bump"
  <2>1. sponsorBegun' = sponsorBegun
    BY DEF Bump, Ends, Dated
  <2> QED
    BY <1>1, <2>1 DEF Bump, SponsorTypeOK, SideTyped, Holding
<1>3. used = Used(k.scope, day) /\ used \in Int
  <2>1. Used(k.scope, day) \in Int
    BY <1>1, SponsorParts
  <2> QED
    BY <2>1 DEF Used, Today
<1>4. CASE Exceeds(used, k.fee)
  <2>1. Ends(c) /\ UNCHANGED usage
    BY <1>4 DEF Bump
  <2> QED
    BY <1>2, <2>1, EndsKept
<1>5. CASE ~Exceeds(used, k.fee)
  <2> DEFINE j(at) == [k EXCEPT !.at = at, !.day = day]
  <2>1. used + k.fee <= DailyLimit
    <3> HIDE DEF used, k
    <3> QED
      BY <1>1, <1>3, <1>5, SponsorConstants DEF Exceeds
  <2>2. ASSUME NEW at \in {"insert", "limit", "record"}
        PROVE  /\ j(at) \in SponsorRecord /\ j(at).at = at /\ j(at).day = day
               /\ j(at).scope = k.scope /\ j(at).fee = k.fee /\ j(at).user = k.user
    <3> HIDE DEF k
    <3> QED
      BY <1>1 DEF SponsorRecord
  <2>3. CASE Today(c) = NoUsage
    <3>1. sponsorCall' = [sponsorCall EXCEPT ![c] = j("insert")] /\ UNCHANGED usage
      BY <1>5, <2>3 DEF Bump, Dated
    <3>2. k.fee <= DailyLimit
      <4>1. used = 0
        BY <2>3
      <4> HIDE DEF used, k
      <4> QED
        BY <1>1, <2>1, <4>1
    <3>3. CallGood(j("insert")) /\ j("insert").at \notin Holding /\ j("insert") \in SponsorRecord
      <4>1. k.user \in Sponsored
        BY <1>1, <1>2 DEF CallGood
      <4> HIDE DEF j, k
      <4> QED
        BY <1>1, <2>2, <3>2, <4>1 DEF CallGood, Holding
    <3> HIDE DEF j
    <3> QED
      BY <1>2, <3>1, <3>3, QuietKept
  <2>4. CASE Today(c) # NoUsage
    <3> DEFINE i == j(Counted(c))
    <3>1. sponsorCall' = [sponsorCall EXCEPT ![c] = i]
      BY <1>5, <2>4 DEF Bump, Dated
    <3>2. usage' = [usage EXCEPT ![k.scope][day] = used + k.fee]
      BY <1>5, <2>4 DEF Bump, Sets
    <3>3. Counted(c) \in {"limit", "record"}
      BY DEF Counted
    <3>4. /\ i \in SponsorRecord /\ i.at \in {"limit", "record"} /\ i.day = day
          /\ i.scope = k.scope /\ i.fee = k.fee /\ i.user = k.user
      <4> HIDE DEF j
      <4> QED
        BY <2>2, <3>3
    <3> HIDE DEF i
    <3>5. CallGood(i) /\ i.at \in Holding
      BY <1>1, <1>2, <3>4 DEF CallGood, Holding
    <3>6. /\ usage' = [usage EXCEPT ![i.scope][day] = Used(i.scope, day) + i.fee]
          /\ Used(i.scope, day) + i.fee <= DailyLimit
      BY <1>3, <2>1, <3>2, <3>4
    <3> QED
      BY <1>1, <1>2, <3>1, <3>4, <3>5, <3>6, CountKept
  <2> QED
    BY <2>3, <2>4
<1> QED
  BY <1>4, <1>5

LEMMA InsertKept ==
  ASSUME SponsorInv, NEW c \in SponsorCalls, InsertUsage(c)
  PROVE  SponsorInv'
<1> DEFINE k == sponsorCall[c]
<1>1. SponsorTypeOK /\ k \in SponsorRecord /\ k.scope \in Scopes /\ k.fee \in Nat /\ CallGood(k)
  BY SponsorParts DEF SponsorInv, CallsGood
<1>2. SideTyped' /\ tally' = tally /\ k.at \notin Holding /\ k.at = "insert"
  <2>1. sponsorBegun' = sponsorBegun
    BY DEF InsertUsage, Inserted, Ends, Goes
  <2> QED
    BY <1>1, <2>1 DEF InsertUsage, SponsorTypeOK, SideTyped, Holding
<1>3. k.day \in Days /\ k.user \in Sponsored /\ k.fee <= DailyLimit
  BY <1>1, <1>2 DEF CallGood
<1>4. CASE Found(c) = NoUsage
  <2> DEFINE i == [k EXCEPT !.at = Counted(c)]
  <2>1. sponsorCall' = [sponsorCall EXCEPT ![c] = i]
    BY <1>4 DEF InsertUsage, Inserted, Goes
  <2>2. usage' = [usage EXCEPT ![k.scope][k.day] = k.fee]
    BY <1>4 DEF InsertUsage, Inserted, Sets
  <2>3. Counted(c) \in {"limit", "record"}
    BY DEF Counted
  <2>4. /\ i \in SponsorRecord /\ i.at \in {"limit", "record"} /\ i.day = k.day
        /\ i.scope = k.scope /\ i.fee = k.fee /\ i.user = k.user
    <3> HIDE DEF k
    <3> QED
      BY <1>1, <2>3 DEF SponsorRecord
  <2>5. Used(k.scope, k.day) = 0
    BY <1>4 DEF Used, Found
  <2> HIDE DEF i
  <2>6. CallGood(i) /\ i.at \in Holding
    BY <1>3, <2>4 DEF CallGood, Holding
  <2>7. /\ usage' = [usage EXCEPT ![i.scope][k.day] = Used(i.scope, k.day) + i.fee]
        /\ Used(i.scope, k.day) + i.fee <= DailyLimit
    <3>1. k.fee = Used(k.scope, k.day) + k.fee
      <4> HIDE DEF k, Used
      <4> QED
        BY <1>1, <2>5
    <3> HIDE DEF k, Used
    <3> QED
      BY <1>3, <2>2, <2>4, <3>1
  <2> QED
    BY <1>2, <1>3, <2>1, <2>4, <2>6, <2>7, CountKept
<1>5. CASE Found(c) # NoUsage
  <2>1. Ends(c) /\ UNCHANGED usage
    BY <1>5 DEF InsertUsage, Inserted
  <2> QED
    BY <1>2, <2>1, EndsKept
<1> QED
  BY <1>4, <1>5

LEMMA GiveBackKept ==
  ASSUME SponsorInv, NEW c \in SponsorCalls, GiveBack(c)
  PROVE  SponsorInv'
<1> DEFINE k == sponsorCall[c]
<1>1. /\ SponsorTypeOK /\ k \in SponsorRecord /\ k.scope \in Scopes /\ k.fee \in Nat /\ day \in Days
      /\ CallGood(k)
  BY SponsorParts DEF SponsorInv, CallsGood
<1>2. SideTyped' /\ k.at \in Holding /\ k.at = "release"
  <2>1. sponsorBegun' = sponsorBegun
    BY DEF GiveBack, Ends
  <2> QED
    BY <1>1, <2>1 DEF GiveBack, SponsorTypeOK, SideTyped, Holding
<1>3. CASE Today(c) = NoUsage
  <2> DEFINE i == [k EXCEPT !.at = "reinsert", !.back = day]
  <2>1. sponsorCall' = [sponsorCall EXCEPT ![c] = i] /\ UNCHANGED <<usage, tally>>
    BY <1>3 DEF GiveBack
  <2>2. /\ i \in SponsorRecord /\ i.at = "reinsert" /\ i.back = day /\ i.day = k.day
        /\ i.scope = k.scope /\ i.fee = k.fee /\ i.user = k.user
    <3> HIDE DEF k
    <3> QED
      BY <1>1 DEF SponsorRecord
  <2> HIDE DEF i
  <2>3. CallGood(i) /\ i.at \in Holding
    BY <1>1, <1>2, <2>2 DEF CallGood, Holding
  <2> QED
    BY <1>2, <2>1, <2>2, <2>3, QuietKept
<1>4. CASE Today(c) # NoUsage
  <2>1. usage' = [usage EXCEPT ![k.scope][day] = Used(k.scope, day) - k.fee]
    BY <1>4 DEF GiveBack, Sets, Used, Today
  <2>2. sponsorCall' = [sponsorCall EXCEPT ![c] = SponsorIdle]
    BY <1>4 DEF GiveBack, Ends
  <2>3. CASE k.day = day
    <3>1. tally' = tally
      BY <1>4, <2>3 DEF GiveBack
    <3>2. tally \in [Scopes -> [Days -> Tally]]
      BY <1>1 DEF SponsorTypeOK
    <3>3. OnlyLate(tally', k.scope, day, k.day, k.fee)
      BY <2>3, <3>1, <3>2 DEF OnlyLate
    <3> QED
      BY <1>1, <1>2, <2>1, <2>2, <3>3, RefundKept
  <2>4. CASE k.day # day
    <3>1. tally' = [tally EXCEPT ![k.scope][day].late = @ + k.fee, ![k.scope][k.day].leaked = @ + k.fee]
      BY <1>4, <2>4, Zenon DEF GiveBack
    <3>2. OnlyLate(tally', k.scope, day, k.day, k.fee)
      BY <1>1, <1>2, <3>1, LateMoves, Zenon DEF CallGood
    <3> QED
      BY <1>1, <1>2, <2>1, <2>2, <3>2, RefundKept
  <2> QED
    BY <2>3, <2>4
<1> QED
  BY <1>3, <1>4

LEMMA InsertRefundKept ==
  ASSUME SponsorInv, NEW c \in SponsorCalls, InsertRefund(c)
  PROVE  SponsorInv'
<1> DEFINE k == sponsorCall[c]
<1>1. SponsorTypeOK /\ k \in SponsorRecord /\ k.scope \in Scopes /\ k.fee \in Nat /\ CallGood(k)
  BY SponsorParts DEF SponsorInv, CallsGood
<1>2. SideTyped' /\ k.at \in Holding /\ k.at = "reinsert" /\ Ends(c)
  <2>1. sponsorBegun' = sponsorBegun
    BY DEF InsertRefund, Ends
  <2>2. k.at = "reinsert" /\ Ends(c)
    BY DEF InsertRefund
  <2>3. UNCHANGED <<day, asked, transfers, sponsorFaults>>
    BY DEF InsertRefund
  <2>4. SideTyped'
    BY <1>1, <2>1, <2>3 DEF SponsorTypeOK, SideTyped
  <2> QED
    BY <2>2, <2>4 DEF Holding
<1>3. k.back \in Days
  BY <1>1, <1>2 DEF CallGood
<1>4. CASE usage[k.scope][k.back] = NoUsage
  <2>1. usage' = [usage EXCEPT ![k.scope][k.back] = -k.fee]
    BY <1>4 DEF InsertRefund, Sets
  <2>2. -k.fee = Used(k.scope, k.back) - k.fee
    <3>1. Used(k.scope, k.back) = 0
      BY <1>4, ZenonT(30) DEF Used
    <3> HIDE DEF k, Used
    <3> QED
      BY <1>1, <3>1
  <2>3. tally' = [tally EXCEPT ![k.scope][k.back].late = @ + k.fee,
                               ![k.scope][k.day].leaked = @ + k.fee]
    BY <1>4 DEF InsertRefund
  <2>4. usage' = [usage EXCEPT ![k.scope][k.back] = Used(k.scope, k.back) - k.fee]
    <3> HIDE DEF k, Used
    <3> QED
      BY <2>1, <2>2, Zenon
  <2>5. sponsorCall' = [sponsorCall EXCEPT ![c] = SponsorIdle]
    BY <1>2 DEF Ends
  <2>6. OnlyLate(tally', k.scope, k.back, k.day, k.fee)
    BY <1>1, <1>2, <1>3, <2>3, LateMoves, Zenon DEF CallGood
  <2> QED
    BY <1>2, <1>3, <2>4, <2>5, <2>6, RefundKept
<1>5. CASE usage[k.scope][k.back] # NoUsage
  <2>1. Tallied(c, "leaked") /\ UNCHANGED usage
    BY <1>5 DEF InsertRefund
  <2> QED
    BY <1>2, <2>1, EndsKept
<1> QED
  BY <1>4, <1>5

\* A call goes from one of the states in which it holds its share to another.
LEMMA HoldsOn ==
  ASSUME SponsorInv, NEW c \in SponsorCalls, sponsorCall[c].at \in Holding, UNCHANGED <<usage, tally>>, SideTyped',
         NEW at \in {"sign", "release", "transfer"}, Goes(c, at)
  PROVE  SponsorInv'
<1>1. SponsorTypeOK /\ CallGood(sponsorCall[c]) /\ sponsorCall[c].at # "idle"
  BY DEF SponsorInv, CallsGood, Holding
<1>2. PICK j \in SponsorRecord :
        /\ sponsorCall' = [sponsorCall EXCEPT ![c] = j] /\ CallGood(j)
        /\ j.at = at /\ j.scope = sponsorCall[c].scope /\ j.day = sponsorCall[c].day
        /\ j.fee = sponsorCall[c].fee
  BY <1>1, CallMoved
<1>3. j.at \in Holding
  BY <1>2 DEF Holding
<1> QED
  BY <1>2, <1>3, QuietKept

LEMMA HandlerKept ==
  ASSUME SponsorInv, NEW c \in SponsorCalls,
         LimitUser(c) \/ LimitFails(c) \/ Sign(c) \/ SignFails(c) \/ RecordRequest(c)
  PROVE  SponsorInv'
<1>1. SponsorTypeOK /\ CallGood(sponsorCall[c]) /\ sponsorFaults \in Nat /\ MaxSponsorFaults \in Nat
  BY SponsorConstants DEF SponsorInv, CallsGood, SponsorTypeOK
<1>2. CASE LimitUser(c)
  <2>1. sponsorCall[c].user \in Sponsored /\ sponsorCall[c].at \in Holding
    BY <1>1, <1>2 DEF LimitUser, CallGood, Holding
  <2>2. SideTyped' /\ UNCHANGED <<usage, tally>>
    BY <1>1, <1>2, <2>1 DEF LimitUser, Goes, SponsorTypeOK, SideTyped
  <2>3. Goes(c, "sign") \/ Goes(c, "release")
    BY <1>2 DEF LimitUser, Refused
  <2> QED
    BY <2>1, <2>2, <2>3, HoldsOn
<1>3. CASE LimitFails(c)
  <2>1. SideTyped' /\ UNCHANGED <<usage, tally>> /\ sponsorCall[c].at \in Holding /\ Goes(c, "release")
    BY <1>1, <1>3 DEF LimitFails, SponsorFault, Goes, Refused, SponsorTypeOK, SideTyped, Holding
  <2> QED
    BY <2>1, HoldsOn
<1>4. CASE Sign(c)
  <2>1. SideTyped' /\ UNCHANGED usage /\ sponsorCall[c].at \in Holding /\ Ends(c) /\ Tallied(c, "spent")
    BY <1>1, <1>4 DEF Sign, Ends, SponsorTypeOK, SideTyped, Holding
  <2> QED
    BY <2>1, EndsKept
<1>5. CASE SignFails(c)
  <2>1. SideTyped' /\ UNCHANGED <<usage, tally>> /\ sponsorCall[c].at \in Holding /\ Goes(c, "release")
    BY <1>1, <1>5 DEF SignFails, Goes, Refused, SponsorTypeOK, SideTyped, Holding
  <2> QED
    BY <2>1, HoldsOn
<1>6. CASE RecordRequest(c)
  <2>1. SideTyped' /\ UNCHANGED <<usage, tally>> /\ sponsorCall[c].at \in Holding /\ Goes(c, "transfer")
    BY <1>1, <1>6 DEF RecordRequest, Goes, SponsorTypeOK, SideTyped, Holding
  <2> QED
    BY <2>1, HoldsOn
<1> QED
  BY <1>2, <1>3, <1>4, <1>5, <1>6

\* The requests that were made.
Closings == [status : {"processing", "completed", "failed"}, sent : BOOLEAN]

LEMMA ClosedTyped ==
  ASSUME SponsorTypeOK, NEW status \in {"processing", "completed", "failed"}, NEW sent \in BOOLEAN,
         Closed(status, sent)
  PROVE  transfers' \subseteq [status : {"processing", "completed", "failed"}, sent : BOOLEAN]
<1>1. [status |-> status, sent |-> sent] \in Closings
  BY Zenon DEF Closings
<1>2. transfers \subseteq Closings /\ transfers' = transfers \cup {[status |-> status, sent |-> sent]}
  BY DEF SponsorTypeOK, Closed, Closings
<1>3. transfers' \subseteq Closings
  BY <1>1, <1>2
<1> QED
  BY <1>3 DEF Closings

LEMMA TransferKept ==
  ASSUME SponsorInv, NEW c \in SponsorCalls,
         Transfer(c) \/ TransferRefused(c) \/ TransferReply(c) \/ TransferLost(c) \/ SponsorDies(c)
  PROVE  SponsorInv'
<1>1. SponsorTypeOK /\ CallGood(sponsorCall[c]) /\ sponsorFaults \in Nat /\ MaxSponsorFaults \in Nat
  BY SponsorConstants DEF SponsorInv, CallsGood, SponsorTypeOK
<1>2. CASE Transfer(c)
  <2>1. SideTyped' /\ UNCHANGED usage /\ sponsorCall[c].at \in Holding /\ sponsorCall[c].at # "idle"
        /\ Tallied(c, "spent") /\ Goes(c, "reply")
    BY <1>1, <1>2 DEF Transfer, Goes, SponsorTypeOK, SideTyped, Holding
  <2>2. PICK j \in SponsorRecord :
          /\ sponsorCall' = [sponsorCall EXCEPT ![c] = j] /\ CallGood(j) /\ j.at = "reply"
    BY <1>1, <2>1, CallMoved
  <2>3. j.at \notin Holding
    BY <2>2 DEF Holding
  <2> QED
    BY <2>1, <2>2, <2>3, SpendKept
<1>3. CASE TransferRefused(c)
  <2>0. transfers' \subseteq [status : {"processing", "completed", "failed"}, sent : BOOLEAN]
    <3>1. Closed("failed", FALSE)
      BY <1>3 DEF TransferRefused
    <3> QED
      BY <1>1, <3>1, ClosedTyped
  <2>1. SideTyped' /\ UNCHANGED usage /\ sponsorCall[c].at \in Holding /\ Ends(c) /\ Tallied(c, "leaked")
    BY <1>1, <1>3, <2>0 DEF TransferRefused, Ends, SponsorTypeOK, SideTyped, Holding
  <2> QED
    BY <2>1, EndsKept
<1>4. CASE TransferReply(c)
  <2>0. transfers' \subseteq [status : {"processing", "completed", "failed"}, sent : BOOLEAN]
    <3>1. Closed("completed", TRUE)
      BY <1>4 DEF TransferReply
    <3> QED
      BY <1>1, <3>1, ClosedTyped
  <2>1. SideTyped' /\ UNCHANGED <<usage, tally>> /\ sponsorCall[c].at \notin Holding /\ Ends(c)
    BY <1>1, <1>4, <2>0 DEF TransferReply, Ends, SponsorTypeOK, SideTyped, Holding
  <2> QED
    BY <2>1, EndsKept
<1>5. CASE TransferLost(c)
  <2>0. transfers' \subseteq [status : {"processing", "completed", "failed"}, sent : BOOLEAN]
    <3>1. Closed("failed", TRUE)
      BY <1>5 DEF TransferLost
    <3> QED
      BY <1>1, <3>1, ClosedTyped
  <2>1. SideTyped' /\ UNCHANGED <<usage, tally>> /\ sponsorCall[c].at \notin Holding /\ Ends(c)
    BY <1>1, <1>5, <2>0 DEF TransferLost, SponsorFault, Ends, SponsorTypeOK, SideTyped, Holding
  <2> QED
    BY <2>1, EndsKept
<1>6. CASE SponsorDies(c)
  <2>1. SideTyped' /\ UNCHANGED usage /\ Ends(c)
    <3>1. transfers' \subseteq [status : {"processing", "completed", "failed"}, sent : BOOLEAN]
      <4>1. Closed("processing", TRUE) \/ Closed("processing", FALSE) \/ UNCHANGED transfers
        BY <1>6 DEF SponsorDies
      <4>2. CASE UNCHANGED transfers
        BY <1>1, <4>2 DEF SponsorTypeOK
      <4> QED
        BY <1>1, <4>1, <4>2, ClosedTyped
    <3> QED
      BY <1>1, <1>6, <3>1 DEF SponsorDies, SponsorFault, Ends, SponsorTypeOK, SideTyped
  <2>2. \/ sponsorCall[c].at \notin Holding /\ UNCHANGED tally
        \/ sponsorCall[c].at \in Holding /\ Tallied(c, "leaked")
    BY <1>6 DEF SponsorDies
  <2> QED
    BY <2>1, <2>2, EndsKept
<1> QED
  BY <1>2, <1>3, <1>4, <1>5, <1>6

LEMMA WindowKept ==
  ASSUME SponsorInv, NextWindow \/ UNCHANGED sponsorVars
  PROVE  SponsorInv'
<1>1. SponsorTypeOK /\ CallsGood /\ RowsBalance
  BY DEF SponsorInv
<1>2. UNCHANGED <<usage, transfers, sponsorCall, sponsorBegun, tally, sponsorFaults>>
      /\ day' \in Days /\ asked' \in [Sponsored -> Nat]
  BY <1>1 DEF NextWindow, sponsorVars, SponsorTypeOK
<1>3. SponsorTypeOK'
  BY <1>1, <1>2 DEF SponsorTypeOK
<1>4. CallsGood'
  BY <1>1, <1>2 DEF CallsGood
<1>5. ASSUME NEW s \in Scopes, NEW d \in Days PROVE RowBalances(s, d)'
  <2>1. HeldBy(s, d)' = HeldBy(s, d) /\ Held(s, d)' = Held(s, d) /\ Used(s, d)' = Used(s, d)
    BY <1>2 DEF HeldBy, Held, Used
  <2> QED
    BY <1>1, <1>2, <2>1 DEF RowsBalance, RowBalances
<1> QED
  BY <1>3, <1>4, <1>5 DEF SponsorInv, RowsBalance

LEMMA SponsorInitKept == SponsorInit => SponsorInv
<1> HAVE SponsorInit
<1>1. \A c \in SponsorCalls : sponsorCall[c] = SponsorIdle
  BY DEF SponsorInit
<1>2. sponsorCall \in [SponsorCalls -> SponsorRecord]
  BY IdleGood DEF SponsorInit
<1>3. tally \in [Scopes -> [Days -> Tally]]
  BY DEF SponsorInit, Tally
<1>4. SponsorTypeOK
  BY <1>2, <1>3, SponsorConstants DEF SponsorInit, SponsorTypeOK
<1>5. CallsGood
  BY <1>1, IdleGood DEF CallsGood
<1>6. ASSUME NEW s \in Scopes, NEW d \in Days PROVE RowBalances(s, d)
  <2>1. HeldBy(s, d) = {}
    BY <1>1, IdleGood DEF HeldBy
  <2>2. IsFiniteSet(HeldBy(s, d)) /\ Held(s, d) = 0
    BY <2>1, FS_EmptySet, SumEmpty DEF Held
  <2>3. Used(s, d) = 0 /\ Net(tally[s][d]) = 0
    BY DEF SponsorInit, Used, Net
  <2> QED
    BY <2>2, <2>3, SponsorConstants DEF RowBalances
<1> QED
  BY <1>4, <1>5, <1>6 DEF SponsorInv, RowsBalance

LEMMA SponsorNextKept == SponsorInv /\ [SponsorNext]_sponsorVars => SponsorInv'
<1> SUFFICES ASSUME SponsorInv, [SponsorNext]_sponsorVars PROVE SponsorInv'
  OBVIOUS
<1>1. CASE NextWindow \/ UNCHANGED sponsorVars
  BY <1>1, WindowKept
<1>2. CASE \E c \in SponsorCalls : SponsorStep(c)
  BY <1>2, BumpKept, InsertKept, GiveBackKept, InsertRefundKept, HandlerKept, TransferKept
    DEF SponsorStep
<1>3. CASE \E c \in SponsorCalls, u \in Sponsored, fee \in Fees :
             AskSignature(c, u, fee) \/ AskTransfer(c, u, fee)
  BY <1>3, AskKept DEF AskSignature, AskTransfer, Scopes
<1> QED
  BY <1>1, <1>2, <1>3 DEF SponsorNext

LEMMA SponsorInvariant == SponsorSpec => []SponsorInv
BY SponsorInitKept, SponsorNextKept, PTL DEF SponsorSpec

\* Rows, calls and the history of what became of the shares keep their types.
THEOREM SponsorTyped == SponsorSpec => []SponsorTypeOK
<1>1. SponsorInv => SponsorTypeOK
  BY DEF SponsorInv
<1> QED
  BY <1>1, SponsorInvariant, PTL

\* Every share that was counted of a day's budget or quota was spent, is held by a
\* call that goes on or was lost with one that ended, and none is given back twice;
\* for any number of concurrent calls, of which any may die at any point.
THEOREM BudgetAlwaysBalances == SponsorSpec => []BudgetBalances
<1>1. SponsorInv => BudgetBalances
  <2> SUFFICES ASSUME SponsorInv, NEW s \in Scopes, NEW d \in Days
               PROVE  Used(s, d) + tally[s][d].late
                        = tally[s][d].spent + tally[s][d].leaked + Held(s, d)
    BY DEF BudgetBalances, Used
  <2>1. tally[s][d] \in Tally /\ Used(s, d) \in Int
    BY SponsorConstants DEF SponsorInv, SponsorTypeOK, Used
  <2>2. Used(s, d) + Net(tally[s][d]) = Held(s, d)
    BY DEF SponsorInv, RowsBalance, RowBalances
  <2> HIDE DEF Used
  <2> QED
    BY <2>1, <2>2 DEF Tally, Net
<1> QED
  BY <1>1, SponsorInvariant, PTL

\* What is signed by the sponsor handler of the host app, or sent by
\* gas-sponsor-request, of a day's budget or quota is within the limit, but for
\* what calls of the day before give back to it after midnight.
THEOREM BudgetNeverExceeded == SponsorSpec => []BudgetKept
<1>1. SponsorInv => BudgetKept
  <2> SUFFICES ASSUME SponsorInv, NEW s \in Scopes, NEW d \in Days
               PROVE  tally[s][d].spent <= DailyLimit + tally[s][d].late
    BY DEF BudgetKept
  <2>1. tally[s][d] \in Tally /\ Used(s, d) \in Int
    BY SponsorConstants DEF SponsorInv, SponsorTypeOK, Used
  <2>2. IsFiniteSet(HeldBy(s, d)) /\ Used(s, d) <= DailyLimit /\ Used(s, d) + Net(tally[s][d]) = Held(s, d)
    BY DEF SponsorInv, RowsBalance, RowBalances
  <2>3. Held(s, d) \in Nat
    <3>1. \A c \in HeldBy(s, d) : [e \in SponsorCalls |-> sponsorCall[e].fee][c] \in Nat
      BY SponsorParts DEF SponsorInv, HeldBy
    <3> QED
      BY <2>2, <3>1, SumNat DEF Held
  <2> HIDE DEF Used
  <2> QED
    BY <2>1, <2>2, <2>3, SponsorConstants DEF Tally, Net
<1> QED
  BY <1>1, SponsorInvariant, PTL

-----------------------------------------------------------------------------
\* GasBank.

USE BankAssumption DEF BankAssumption

\* An account stays one when its numbers are changed.
LEMMA AccountFields ==
  ASSUME NEW acct \in Account, NEW b \in Int, NEW r \in Int
  PROVE  [acct EXCEPT !.reserved = r, !.balance = b] \in Account
PROOF BY DEF Account

\* Every value of bank and its history has its type.
THEOREM BankTyped == BankSpec => []BankTypeOK
<1>1. BankInit => BankTypeOK
  BY DEF BankInit, BankTypeOK, NoAccount, Account
<1>2. BankTypeOK /\ [BankNext]_bankVars => BankTypeOK'
  <2> SUFFICES ASSUME BankTypeOK, [BankNext]_bankVars PROVE BankTypeOK'
    OBVIOUS
  <2>0. \A u \in Owners : bank[u] \in Account
    BY DEF BankTypeOK
  <2>1. ASSUME NEW u \in Owners, OpenAccount(u) PROVE BankTypeOK'
    BY <2>1 DEF OpenAccount, Open, Account, BankTypeOK
  <2>2. ASSUME NEW u \in Owners, NEW a \in Sums, NEW tx \in TxHashes \cup {NoTx},
               RequestDeposit(u, tx, a)
        PROVE  BankTypeOK'
    <3>1. bank' \in [Owners -> Account] /\ UNCHANGED <<entries, committed>>
      BY <2>2 DEF RequestDeposit, Open, Account, BankTypeOK
    <3>2. deposits' \subseteq Deposit
      BY <2>2 DEF RequestDeposit, Deposit, BankTypeOK
    <3> QED BY <3>1, <3>2 DEF BankTypeOK
  <2>3. ASSUME NEW u \in Owners, NEW type \in {"deposit", "service_fee"}, NEW amount \in Int,
               NEW ref \in Refs \cup {NoRef}, Post(u, type, amount, ref)
        PROVE  BankTypeOK'
    <3>1. bank[u].balance \in Int /\ bank[u].balance + amount \in Int
      BY <2>0 DEF Account
    <3>2. [bank[u] EXCEPT !.balance = @ + amount] \in Account
      BY <2>0, <3>1 DEF Account
    <3>3. bank' \in [Owners -> Account]
      BY <2>3, <3>2 DEF Post, BankTypeOK
    <3>4. [type |-> type, amount |-> amount, ref |-> ref, after |-> bank[u].balance + amount] \in Entry
      BY <3>1 DEF Entry
    <3>5. entries' \in [Owners -> Seq(Entry)]
      BY <2>3, <3>4 DEF Post, BankTypeOK
    <3> QED BY <2>3, <3>3, <3>5 DEF Post, BankTypeOK
  <2>4. ASSUME NEW u \in Owners, NEW a \in Sums, NEW ref \in Refs \cup {NoRef}, Deduct(u, a, ref)
        PROVE  BankTypeOK'
    <3>1. -a \in Int
      OBVIOUS
    <3> QED BY <2>3, <2>4, <3>1 DEF Deduct
  <2>5. ASSUME NEW u \in Owners, NEW a \in Sums, NEW ref \in Refs \cup {NoRef}, Credit(u, a, ref)
        PROVE  BankTypeOK'
    <3>1. a \in Int
      OBVIOUS
    <3> QED BY <2>3, <2>5, <3>1 DEF Credit
  <2>6. ASSUME NEW u \in Owners, NEW a \in Sums, Reserve(u, a) PROVE BankTypeOK'
    <3>1. [bank[u] EXCEPT !.reserved = @ + a] \in Account
      BY <2>0 DEF Account
    <3> QED BY <2>6, <3>1 DEF Reserve, BankTypeOK
  <2>7. ASSUME NEW u \in Owners, NEW a \in Sums, NEW commit \in BOOLEAN, Release(u, a, commit)
        PROVE  BankTypeOK'
    <3>1. bank[u].reserved - a \in Int
          /\ (IF commit THEN bank[u].balance - a ELSE bank[u].balance) \in Int
      BY <2>0 DEF Account
    <3>2. AfterRelease(bank[u], a, commit) \in Account
      BY <2>0, <3>1, AccountFields DEF AfterRelease
    <3>3. bank' \in [Owners -> Account]
      BY <2>7, <3>2 DEF Release, BankTypeOK
    <3>4. committed' \in [Owners -> Nat]
      BY <2>7 DEF Release, BankTypeOK
    <3> QED BY <2>7, <3>3, <3>4 DEF Release, BankTypeOK
  <2>8. CASE UNCHANGED bankVars
    BY <2>8 DEF bankVars, BankTypeOK
  <2> QED BY <2>1, <2>2, <2>4, <2>5, <2>6, <2>7, <2>8 DEF BankNext
<1> QED BY <1>1, <1>2, PTL DEF BankSpec

\* BankSolvent: no order of fees, reservations, releases and commits takes an
\* account below what it has promised.
THEOREM BankStaysSolvent == BankSpec => []BankSolvent
<1>1. BankInit => BankSolvent
  BY DEF BankInit, BankSolvent, NoAccount
<1>2. BankTypeOK /\ BankSolvent /\ [BankNext]_bankVars => BankSolvent'
  <2> SUFFICES ASSUME BankTypeOK, BankSolvent, [BankNext]_bankVars PROVE BankSolvent'
    OBVIOUS
  <2>0. bank \in [Owners -> Account]
    BY DEF BankTypeOK
  <2> USE <2>0 DEF BankSolvent, Account
  <2>1. ASSUME NEW u \in Owners, OpenAccount(u) PROVE BankSolvent'
    BY <2>1 DEF OpenAccount, Open
  <2>2. ASSUME NEW u \in Owners, NEW a \in Sums, NEW tx \in TxHashes \cup {NoTx},
               RequestDeposit(u, tx, a)
        PROVE  BankSolvent'
    BY <2>2 DEF RequestDeposit, Open
  <2>3. ASSUME NEW u \in Owners, NEW a \in Sums, NEW ref \in Refs \cup {NoRef}, Deduct(u, a, ref)
        PROVE  BankSolvent'
    BY <2>3 DEF Deduct, Post, Available
  <2>4. ASSUME NEW u \in Owners, NEW a \in Sums, NEW ref \in Refs \cup {NoRef}, Credit(u, a, ref)
        PROVE  BankSolvent'
    BY <2>4 DEF Credit, Post
  <2>5. ASSUME NEW u \in Owners, NEW a \in Sums, Reserve(u, a) PROVE BankSolvent'
    BY <2>5 DEF Reserve, Available
  <2>6. ASSUME NEW u \in Owners, NEW a \in Sums, NEW commit \in BOOLEAN, Release(u, a, commit)
        PROVE  BankSolvent'
    BY <2>6 DEF Release, AfterRelease
  <2>7. CASE UNCHANGED bankVars
    BY <2>7 DEF bankVars
  <2> QED BY <2>1, <2>2, <2>3, <2>4, <2>5, <2>6, <2>7 DEF BankNext
<1> QED BY <1>1, <1>2, BankTyped, PTL DEF BankSpec

\* CreditedOnce: a deposit that is credited again under its reference counts
\* once, however many entries there are by then.
THEOREM ReferencesCreditedOnce == BankSpec => []CreditedOnce
<1>1. BankInit => CreditedOnce
  BY DEF BankInit, CreditedOnce
<1>2. BankTypeOK /\ CreditedOnce /\ [BankNext]_bankVars => CreditedOnce'
  <2> SUFFICES ASSUME BankTypeOK, CreditedOnce, [BankNext]_bankVars PROVE CreditedOnce'
    OBVIOUS
  <2>0. entries \in [Owners -> Seq(Entry)]
    BY DEF BankTypeOK
  <2>1. ASSUME entries' = entries PROVE CreditedOnce'
    BY <2>1 DEF CreditedOnce
  <2>2. ASSUME NEW u \in Owners, NEW type \in {"deposit", "service_fee"}, NEW amount \in Int,
               NEW ref \in Refs \cup {NoRef}, Post(u, type, amount, ref),
               type = "deposit" => ~Credited(u, amount, ref)
        PROVE  CreditedOnce'
    <3> DEFINE entry == [type |-> type, amount |-> amount, ref |-> ref,
                         after |-> bank[u].balance + amount]
    <3>1. entries' = [entries EXCEPT ![u] = Append(entries[u], entry)]
      BY <2>2 DEF Post
    <3>2. ASSUME NEW v \in Owners, NEW i \in DOMAIN entries'[v], NEW j \in DOMAIN entries'[v],
                 entries'[v][i].type = "deposit", entries'[v][j].type = "deposit",
                 entries'[v][i].ref = entries'[v][j].ref, entries'[v][i].ref # NoRef,
                 entries'[v][i].amount = entries'[v][j].amount
          PROVE  i = j
      <4>1. CASE v # u
        <5>1. entries'[v] = entries[v]
          BY <3>1, <4>1, <2>0
        <5> QED BY <3>2, <5>1 DEF CreditedOnce
      <4>2. CASE v = u
        <5>0. /\ DOMAIN entries'[u] = 1..(Len(entries[u]) + 1)
              /\ DOMAIN entries[u] = 1..Len(entries[u])
              /\ Len(entries[u]) \in Nat
              /\ entries'[u][Len(entries[u]) + 1] = entry
              /\ \A k \in 1..Len(entries[u]) : entries'[u][k] = entries[u][k]
          <6> DEFINE s == entries[u]
          <6>1. s \in Seq(Entry)
            BY <2>0
          <6>2. entries'[u] = Append(s, entry)
            BY <3>1, <2>0
          <6> HIDE DEF s, entry
          <6>3. /\ DOMAIN Append(s, entry) = 1..(Len(s) + 1)
                /\ DOMAIN s = 1..Len(s)
                /\ Len(s) \in Nat
                /\ Append(s, entry)[Len(s) + 1] = entry
                /\ \A k \in 1..Len(s) : Append(s, entry)[k] = s[k]
            BY <6>1
          <6> QED BY <6>2, <6>3 DEF s
        <5>1. ASSUME NEW k \in 1..Len(entries[u]), entries[u][k].type = "deposit",
                     entries[u][k].ref = ref, entries[u][k].amount = amount,
                     ref # NoRef, type = "deposit"
              PROVE  FALSE
          BY <2>2, <5>0, <5>1 DEF Credited
        <5>2. CASE i \in 1..Len(entries[u]) /\ j \in 1..Len(entries[u])
          BY <3>2, <4>2, <5>0, <5>2, SMTT(30) DEF CreditedOnce
        <5>3. CASE i \in 1..Len(entries[u]) /\ j = Len(entries[u]) + 1
          <6>1. entries'[u][j] = entry /\ entries'[u][i] = entries[u][i]
            BY <5>0, <5>3
          <6> QED BY <3>2, <4>2, <5>1, <5>3, <6>1
        <5>4. CASE j \in 1..Len(entries[u]) /\ i = Len(entries[u]) + 1
          <6>1. entries'[u][i] = entry /\ entries'[u][j] = entries[u][j]
            BY <5>0, <5>4
          <6> QED BY <3>2, <4>2, <5>1, <5>4, <6>1
        <5> QED BY <3>2, <4>2, <5>0, <5>2, <5>3, <5>4
      <4> QED BY <4>1, <4>2
    <3> QED BY <3>2 DEF CreditedOnce
  <2>3. ASSUME NEW u \in Owners, NEW a \in Sums, NEW ref \in Refs \cup {NoRef}, Deduct(u, a, ref)
        PROVE  CreditedOnce'
    BY <2>2, <2>3 DEF Deduct
  <2>4. ASSUME NEW u \in Owners, NEW a \in Sums, NEW ref \in Refs \cup {NoRef}, Credit(u, a, ref)
        PROVE  CreditedOnce'
    BY <2>2, <2>4 DEF Credit
  <2> QED
    BY <2>1, <2>3, <2>4 DEF BankNext, bankVars, OpenAccount, RequestDeposit, Reserve, Release
<1> QED BY <1>1, <1>2, BankTyped, PTL DEF BankSpec

\* The rows of an account add up to an integer,
LEMMA PostedTyped == ASSUME NEW s \in Seq(Entry) PROVE Posted(s) \in Int
<1>1. Len(s) \in Nat /\ DOMAIN s = 1..Len(s) /\ \A i \in 1..Len(s) : s[i] \in Entry
  OBVIOUS
<1>2. IsFiniteSet(DOMAIN s)
  BY <1>1, FS_Interval
<1>3. \A i \in DOMAIN s : [j \in DOMAIN s |-> s[j].amount][i] \in Int
  BY <1>1 DEF Entry
<1> QED
  BY <1>2, <1>3, SumInt DEF Posted

\* and one that is appended adds its amount.
LEMMA PostedMore ==
  ASSUME NEW s \in Seq(Entry), NEW row \in Entry
  PROVE  Posted(Append(s, row)) = Posted(s) + row.amount
<1> DEFINE n == Len(s)
           f == [i \in DOMAIN s |-> s[i].amount]
           g == [i \in DOMAIN Append(s, row) |-> Append(s, row)[i].amount]
<1>1. /\ n \in Nat /\ DOMAIN s = 1..n /\ DOMAIN Append(s, row) = 1..(n + 1)
      /\ \A i \in 1..n : Append(s, row)[i] = s[i] /\ s[i] \in Entry
      /\ Append(s, row)[n + 1] = row
  OBVIOUS
<1>2. IsFiniteSet(1..n) /\ 1..(n + 1) = (1..n) \cup {n + 1} /\ n + 1 \notin 1..n
  <2> HIDE DEF n
  <2>1. IsFiniteSet(1..n)
    BY <1>1, FS_Interval
  <2> QED
    BY <1>1, <2>1
<1>3. \A i \in 1..n : f[i] \in Int /\ f[i] = g[i]
  BY <1>1 DEF Entry
<1>4. g[n + 1] = row.amount /\ row.amount \in Int
  BY <1>1 DEF Entry
<1>5. Posted(s) = SumFunctionOnSet(f, 1..n)
      /\ Posted(Append(s, row)) = SumFunctionOnSet(g, (1..n) \cup {n + 1})
  BY <1>1, <1>2 DEF Posted
<1> HIDE DEF n, f, g
<1>6. SumFunctionOnSet(f, 1..n) \in Int
  BY <1>2, <1>3, SumInt
<1>7. SumFunctionOnSet(f, 1..n) = SumFunctionOnSet(g, 1..n)
  BY <1>2, <1>3, SumSame
<1>8. SumFunctionOnSet(g, (1..n) \cup {n + 1}) = g[n + 1] + SumFunctionOnSet(g, 1..n)
  <2>1. \A i \in (1..n) \cup {n + 1} : g[i] \in Int
    BY <1>3, <1>4
  <2> QED
    BY <1>2, <2>1, SumAdd
<1> QED
  BY <1>4, <1>5, <1>6, <1>7, <1>8

\* EntriesExplainBalance: the rows of an account, however many, add up to its
\* balance and what reservations have taken from it without a row.
THEOREM EntriesAddUp == BankSpec => []EntriesExplainBalance
<1>1. BankInit => EntriesExplainBalance
  <2>1. Posted(<<>>) = 0
    BY SumEmpty DEF Posted
  <2> QED
    BY <2>1 DEF BankInit, EntriesExplainBalance, NoAccount
<1>2. BankTypeOK /\ EntriesExplainBalance /\ [BankNext]_bankVars => EntriesExplainBalance'
  <2> SUFFICES ASSUME BankTypeOK, EntriesExplainBalance, [BankNext]_bankVars
               PROVE  EntriesExplainBalance'
    OBVIOUS
  <2>0. /\ entries \in [Owners -> Seq(Entry)] /\ bank \in [Owners -> Account]
        /\ committed \in [Owners -> Nat]
        /\ \A v \in Owners : bank[v].balance \in Int /\ bank[v].balance = Posted(entries[v]) - committed[v]
    BY DEF BankTypeOK, Account, EntriesExplainBalance
  <2>1. ASSUME UNCHANGED <<entries, committed>>, \A v \in Owners : bank'[v].balance = bank[v].balance
        PROVE  EntriesExplainBalance'
    BY <2>0, <2>1 DEF EntriesExplainBalance
  <2>2. ASSUME NEW u \in Owners, NEW type \in {"deposit", "service_fee"}, NEW amount \in Int,
               NEW ref \in Refs \cup {NoRef}, Post(u, type, amount, ref)
        PROVE  EntriesExplainBalance'
    <3> DEFINE row == [type |-> type, amount |-> amount, ref |-> ref,
                       after |-> bank[u].balance + amount]
    <3>1. row \in Entry /\ row.amount = amount
      BY <2>0 DEF Entry
    <3>2. entries' = [entries EXCEPT ![u] = Append(entries[u], row)] /\ committed' = committed
      BY <2>2 DEF Post
    <3> HIDE DEF row
    <3>3. Posted(entries[u]) \in Int /\ Posted(Append(entries[u], row)) = Posted(entries[u]) + amount
      BY <2>0, <3>1, PostedTyped, PostedMore
    <3>4. bank'[u].balance = bank[u].balance + amount
          /\ \A v \in Owners : v # u => bank'[v].balance = bank[v].balance
      BY <2>0, <2>2 DEF Post, Account
    <3>5. entries'[u] = Append(entries[u], row) /\ \A v \in Owners : v # u => entries'[v] = entries[v]
      BY <2>0, <3>2
    <3>6. bank'[u].balance = Posted(entries'[u]) - committed[u]
      BY <2>0, <3>3, <3>4, <3>5
    <3> QED
      BY <2>0, <3>2, <3>4, <3>5, <3>6 DEF EntriesExplainBalance
  <2>3. ASSUME NEW u \in Owners, NEW a \in Sums, NEW ref \in Refs \cup {NoRef},
               Deduct(u, a, ref) \/ Credit(u, a, ref)
        PROVE  EntriesExplainBalance'
    <3>1. a \in Int /\ -a \in Int
      OBVIOUS
    <3> QED
      BY <2>2, <2>3, <3>1 DEF Deduct, Credit
  <2>4. ASSUME NEW u \in Owners, NEW a \in Sums, NEW commit \in BOOLEAN, Release(u, a, commit)
        PROVE  EntriesExplainBalance'
    <3> DEFINE taken == IF commit THEN a ELSE 0
    <3>1. entries' = entries /\ taken \in Int
      BY <2>4 DEF Release
    <3>2. bank'[u].balance = bank[u].balance - taken /\ committed'[u] = committed[u] + taken
          /\ \A v \in Owners : v # u => bank'[v].balance = bank[v].balance /\ committed'[v] = committed[v]
      BY <2>0, <2>4 DEF Release, AfterRelease, Account
    <3> HIDE DEF taken
    <3>3. Posted(entries[u]) \in Int
      BY <2>0, PostedTyped
    <3>4. bank'[u].balance = Posted(entries[u]) - committed'[u]
      BY <2>0, <3>1, <3>2, <3>3
    <3> QED
      BY <2>0, <3>1, <3>2, <3>4 DEF EntriesExplainBalance
  <2>5. ASSUME NEW u \in Owners, NEW a \in Sums, Reserve(u, a) PROVE EntriesExplainBalance'
    BY <2>0, <2>1, <2>5 DEF Reserve, Account
  <2>6. ASSUME NEW u \in Owners, OpenAccount(u) PROVE EntriesExplainBalance'
    BY <2>0, <2>1, <2>6 DEF OpenAccount, Open, Account
  <2>7. ASSUME NEW u \in Owners, NEW a \in Sums, NEW tx \in TxHashes \cup {NoTx},
               RequestDeposit(u, tx, a)
        PROVE  EntriesExplainBalance'
    BY <2>0, <2>1, <2>7 DEF RequestDeposit, Open, Account
  <2>8. CASE UNCHANGED bankVars
    BY <2>1, <2>8 DEF bankVars
  <2> QED
    BY <2>3, <2>4, <2>5, <2>6, <2>7, <2>8 DEF BankNext
<1> QED
  BY <1>1, <1>2, BankTyped, PTL DEF BankSpec

-----------------------------------------------------------------------------
\* The services side by side.

LEMMA FocusedStep ==
  ASSUME [ServicesNext]_servicesVars
  PROVE  /\ UNCHANGED focus
         /\ [SystemNext]_systemVars /\ [BankNext]_bankVars /\ [PublishNext]_publishVars
         /\ [SponsorNext]_sponsorVars /\ [LoginNext]_loginVars
BY DEF ServicesNext, servicesVars

\* A behaviour of the services side by side is a behaviour of each of them: a step
\* of the one in focus is a step of its own specification, and the others rest, so
\* that no theorem on a service depends on its being alone.
THEOREM EachByItself ==
  ServicesSpec => SystemSpec /\ BankSpec /\ PublishSpec /\ SponsorSpec /\ LoginSpec
<1>1. ServicesInit => SystemInit /\ BankInit /\ PublishInit /\ SponsorInit /\ LoginInit
  BY DEF ServicesInit
<1> QED
  BY <1>1, FocusedStep, PTL
     DEF ServicesSpec, SystemSpec, BankSpec, PublishSpec, SponsorSpec, LoginSpec

\* The variables of every service keep their types, and a behaviour stays with the
\* service it is of: what the handlers, functions and contracts of one read or write
\* is always of the form that its own specification says.
THEOREM ServicesTyped == ServicesSpec => []TypeOK
<1> DEFINE InFocus == focus \in Focus
<1>1. ServicesInit => InFocus
  BY DEF ServicesInit
<1>2. InFocus /\ [ServicesNext]_servicesVars => InFocus'
  BY FocusedStep
<1>3. ServicesSpec => []InFocus
  <2> HIDE DEF InFocus
  <2> QED
    BY <1>1, <1>2, PTL DEF ServicesSpec
<1> QED
  BY <1>3, EachByItself, SystemTyped, BankTyped, PublishTyped, SponsorTyped, LoginTyped, PTL
     DEF TypeOK
=============================================================================
