------------------------- MODULE WalletLogin_proofs -------------------------
(***************************************************************************)
(* That the state of the wallet login keeps its type, that a nonce opens    *)
(* one session and binds one wallet at most, and that a session has its    *)
(* wallet, for any number of addresses, accounts, calls and nonces.        *)
(*                                                                         *)
(* A nonce is at one place of the way from the row of users, by the call   *)
(* that takes it there, to the session; Once says so of each place, and    *)
(* needs that an address is in one row, since a new nonce is written by    *)
(* address.  BindOnce says the same of bindings, and Home what each access *)
(* of a login leaves to the next one.                                      *)
(***************************************************************************)
EXTENDS WalletLogin, TLAPS

\* The calls that have taken their nonce.
Took(k) == k.at \in {"clear", "claim", "own", "session"}
HasNonce(u, n) == users[u] # NoUser /\ users[u].nonce = n

\* Only a call that rests has no wallet and no nonce.
CallsFull ==
  \A c \in LoginCalls :
    loginCall[c].at # "idle" =>
      loginCall[c].address \in Addresses /\ loginCall[c].user \in UserIds /\ loginCall[c].nonce \in NonceNo

TypeInv == LoginTypeOK /\ CallsFull

AddressesUnique ==
  \A u, v \in UserIds :
    users[u] # NoUser /\ users[v] # NoUser
      /\ users[u].address = users[v].address /\ users[u].address # NoAddress => u = v

RowNonces ==
  \A u, v \in UserIds : \A n \in NonceNo :
    HasNonce(u, n) => n <= nonces /\ (HasNonce(v, n) => u = v)

CallNonces ==
  \A c \in LoginCalls :
    loginCall[c].at # "idle" =>
      /\ loginCall[c].nonce \in 1..nonces
      /\ Took(loginCall[c]) =>
           /\ \A u \in UserIds : ~HasNonce(u, loginCall[c].nonce)
           /\ \A d \in LoginCalls :
                Took(loginCall[d]) /\ loginCall[d].nonce = loginCall[c].nonce => c = d
           /\ logins[loginCall[c].nonce] = 0

Opened ==
  \A n \in NonceNo :
    /\ logins[n] <= 1
    /\ logins[n] # 0 => n <= nonces /\ \A u \in UserIds : ~HasNonce(u, n)

Once == AddressesUnique /\ RowNonces /\ CallNonces /\ Opened

-----------------------------------------------------------------------------
LEMMA IdsTyped ==
  /\ \A a \in Addresses : Wallet(a) \in UserIds /\ Temp(a) \in UserIds /\ a # NoAddress
  /\ \A x \in Socials : Social(x) \in UserIds
BY LoginAssumption DEF LoginAssumption, UserIds

LEMMA RowTyped ==
  ASSUME TypeInv, NEW u \in UserIds
  PROVE  RowOf(u) \in User
BY DEF TypeInv, LoginTypeOK, RowOf, HasRow, User, NullNonce

LEMMA IdleTyped == LoginIdle \in LoginRecord
BY DEF LoginIdle, LoginRecord

LEMMA InitTyped == LoginInit => TypeInv
<1>1. LoginInit => LoginTypeOK
  BY LoginAssumption, IdleTyped DEF LoginAssumption, LoginInit, LoginTypeOK
<1>2. LoginInit => CallsFull
  BY DEF LoginInit, CallsFull, LoginIdle
<1> QED
  BY <1>1, <1>2 DEF TypeInv

\* A row keeps its type when its nonce or its address is written.
LEMMA PutsTyped ==
  ASSUME TypeInv, NEW u \in UserIds
  PROVE  /\ \A n \in NonceNo \cup {NullNonce, HiddenNonce} :
              PutNonce(u, n) => users' \in [UserIds -> User \cup {NoUser}]
         /\ \A a \in Addresses :
              PutAddress(u, a) => users' \in [UserIds -> User \cup {NoUser}]
<1>1. RowOf(u) \in User
  BY RowTyped
<1>2. \A n \in NonceNo \cup {NullNonce, HiddenNonce} : [RowOf(u) EXCEPT !.nonce = n] \in User
  BY <1>1 DEF User
<1>3. \A a \in Addresses : [RowOf(u) EXCEPT !.address = a] \in User
  BY <1>1 DEF User
<1> QED
  BY <1>2, <1>3 DEF PutNonce, PutAddress, TypeInv, LoginTypeOK

\* So do the calls when one of them starts, goes on or ends.
CallsOK == loginCall \in [LoginCalls -> LoginRecord] /\ CallsFull /\ loginBegun \in 0..MaxLogins

LEMMA MovesTyped ==
  ASSUME TypeInv, NEW c \in LoginCalls, loginCall[c].at # "idle",
         NEW at \in {"consume", "clear", "claim", "own", "session",
                     "count", "insert", "mirror", "rotate", "cleanup"},
         Moves(c, at)
  PROVE  CallsOK'
<1>1. loginCall \in [LoginCalls -> LoginRecord] /\ loginBegun \in 0..MaxLogins /\ loginCall[c] \in LoginRecord
  BY DEF TypeInv, LoginTypeOK
<1>2. [loginCall[c] EXCEPT !.at = at] \in LoginRecord
  BY <1>1 DEF LoginRecord
<1>3. loginCall' \in [LoginCalls -> LoginRecord]
  BY <1>1, <1>2 DEF Moves
<1>4. CallsFull'
  BY <1>1 DEF TypeInv, CallsFull, Moves, LoginRecord
<1> QED
  BY <1>1, <1>3, <1>4 DEF CallsOK, Moves

LEMMA StopsTyped ==
  ASSUME TypeInv, NEW c \in LoginCalls, Stops(c)
  PROVE  CallsOK'
<1>1. loginCall' \in [LoginCalls -> LoginRecord]
  BY IdleTyped DEF TypeInv, LoginTypeOK, Stops
<1>2. CallsFull'
  BY DEF TypeInv, LoginTypeOK, CallsFull, Stops, LoginIdle
<1> QED
  BY <1>1, <1>2 DEF CallsOK, Stops, TypeInv, LoginTypeOK

LEMMA StartsTyped ==
  ASSUME TypeInv, NEW c \in LoginCalls, NEW at \in {"consume", "count"}, NEW u \in UserIds,
         NEW a \in Addresses, HasRow(u), users[u].nonce > 0, Starts(c, at, u, a)
  PROVE  CallsOK' /\ users[u].nonce \in NonceNo
<1>1. users[u].nonce \in NonceNo
  BY DEF TypeInv, LoginTypeOK, HasRow, User, NullNonce, HiddenNonce
<1> DEFINE k == [LoginIdle EXCEPT !.at = at, !.address = a, !.user = u, !.nonce = users[u].nonce]
<1>2. k \in LoginRecord /\ k.address = a /\ k.user = u /\ k.nonce = users[u].nonce
  BY <1>1 DEF LoginIdle, LoginRecord
<1>3. loginCall' = [loginCall EXCEPT ![c] = k]
  BY DEF Starts
<1> HIDE DEF k
<1>4. loginCall' \in [LoginCalls -> LoginRecord]
  BY <1>2, <1>3 DEF TypeInv, LoginTypeOK
<1>5. CallsFull'
  BY <1>1, <1>2, <1>3 DEF TypeInv, LoginTypeOK, CallsFull
<1>6. loginBegun' \in 0..MaxLogins
  BY LoginAssumption DEF Starts, LoginAssumption, TypeInv, LoginTypeOK
<1> QED
  BY <1>1, <1>4, <1>5, <1>6 DEF CallsOK

LEMMA FaultTyped ==
  TypeInv /\ LoginFault => loginFaults' \in 0..MaxLoginFaults
BY LoginAssumption DEF LoginAssumption, TypeInv, LoginTypeOK, LoginFault

-----------------------------------------------------------------------------
\* Every step keeps the types.
LEMMA TypesKept ==
  ASSUME TypeInv, [LoginNext]_loginVars
  PROVE  TypeInv'
<1>1. CASE UNCHANGED loginVars
  BY <1>1 DEF loginVars, TypeInv, LoginTypeOK, CallsFull
<1>2. ASSUME NEW a \in Addresses, IssueLoginNonce(a)
      PROVE  TypeInv'
  <2>1. nonces' \in 0..MaxNonces /\ nonces' \in NonceNo
    BY <1>2, LoginAssumption DEF IssueLoginNonce, GivesNonce, TypeInv, LoginTypeOK, LoginAssumption, NonceNo
  <2>2. users' \in [UserIds -> User \cup {NoUser}]
    <3>1. CASE Having(a) # {}
      <4>1. \A u \in Having(a) : [users[u] EXCEPT !.nonce = nonces'] \in User
        BY <2>1 DEF Having, HasRow, TypeInv, LoginTypeOK, User
      <4> QED
        BY <1>2, <3>1, <4>1 DEF IssueLoginNonce, TypeInv, LoginTypeOK
    <3>2. CASE Having(a) = {}
      <4>1. [address |-> a, nonce |-> nonces'] \in User
        BY <2>1 DEF User
      <4> QED
        BY <1>2, <3>2, <4>1 DEF IssueLoginNonce, TypeInv, LoginTypeOK
    <3> QED
      BY <3>1, <3>2
  <2>3. troubled' \subseteq Addresses
    BY <1>2 DEF IssueLoginNonce, TypeInv, LoginTypeOK
  <2> QED
    BY <1>2, <2>1, <2>2, <2>3 DEF IssueLoginNonce, TypeInv, LoginTypeOK, CallsFull
<1>3. ASSUME NEW a \in Addresses, NEW c \in LoginCalls, Login(c, a)
      PROVE  TypeInv'
  <2>1. CallsOK'
    BY <1>3, StartsTyped DEF Login, Having
  <2>2. troubled' \subseteq Addresses
    BY <1>3 DEF Login, TypeInv, LoginTypeOK
  <2> QED
    BY <1>3, <2>1, <2>2 DEF Login, TypeInv, LoginTypeOK, CallsOK
<1>4. ASSUME NEW u \in Members, IssueBindNonce(u)
      PROVE  TypeInv'
  <2>1. nonces' \in 0..MaxNonces /\ nonces' \in NonceNo
    BY <1>4, LoginAssumption DEF IssueBindNonce, GivesNonce, TypeInv, LoginTypeOK, LoginAssumption, NonceNo
  <2>2. u \in UserIds
    BY IdsTyped DEF Members, TypeInv, LoginTypeOK
  <2>3. users' \in [UserIds -> User \cup {NoUser}]
    BY <1>4, <2>1, <2>2, PutsTyped DEF IssueBindNonce
  <2> QED
    BY <1>4, <2>1, <2>3 DEF IssueBindNonce, TypeInv, LoginTypeOK, CallsFull
<1>5. ASSUME NEW u \in Members, NEW c \in LoginCalls, NEW a \in Addresses, Bind(c, u, a)
      PROVE  TypeInv'
  <2>1. u \in UserIds
    BY IdsTyped DEF Members, TypeInv, LoginTypeOK
  <2>2. CASE HasRow(u) /\ users[u].nonce > 0
    <3>1. CallsOK' /\ users[u].nonce \in NonceNo
      BY <1>5, <2>1, <2>2, StartsTyped DEF Bind
    <3>2. troubled' \subseteq Addresses /\ doubled' \subseteq NonceNo
      BY <1>5, <2>2, <3>1 DEF Bind, TypeInv, LoginTypeOK
    <3> QED
      BY <1>5, <2>2, <3>1, <3>2 DEF Bind, TypeInv, LoginTypeOK, CallsOK
  <2>3. CASE ~(HasRow(u) /\ users[u].nonce > 0)
    <3>1. RowOf(u).nonce \in NonceNo \cup {NullNonce, HiddenNonce}
      BY <2>1, RowTyped DEF User
    <3>2. users' \in [UserIds -> User \cup {NoUser}]
      BY <1>5, <2>1, <2>3, <3>1, PutsTyped DEF Bind
    <3> QED
      BY <1>5, <2>3, <3>2 DEF Bind, TypeInv, LoginTypeOK, CallsFull
  <2> QED
    BY <2>2, <2>3
<1>6. ASSUME NEW c \in LoginCalls, LoginStep(c)
      PROVE  TypeInv'
  <2> DEFINE k == loginCall[c]
  <2>1. /\ k.at # "idle"
        /\ k.address \in Addresses /\ k.user \in UserIds /\ k.nonce \in NonceNo
        /\ k.at \in LoggingIn \cup Binding
    BY <1>6 DEF LoginStep, Consume, Clear, Claim, Own, OpenSession, CountWallets, InsertWallet, Mirror,
                Rotate, Cleanup, LoginIgnores, RotateFails, LoginDies, Steps, TypeInv, LoginTypeOK,
                CallsFull, LoginRecord, LoggingIn, Binding
  <2>2. CASE Consume(c)
    <3>1. CallsOK'
      BY <2>1, <2>2, MovesTyped, StopsTyped DEF Consume
    <3>2. users' \in [UserIds -> User \cup {NoUser}]
      BY <2>1, <2>2, PutsTyped DEF Consume, TypeInv, LoginTypeOK
    <3> QED
      BY <2>2, <3>1, <3>2 DEF Consume, TypeInv, LoginTypeOK, CallsOK
  <2>3. CASE Clear(c)
    <3>1. CallsOK'
      BY <2>1, <2>3, MovesTyped DEF Clear
    <3>2. users' \in [UserIds -> User \cup {NoUser}] /\ wallets' \in [Addresses -> WalletRow \cup {NoWallet}]
      BY <2>3 DEF Clear, TypeInv, LoginTypeOK
    <3> QED
      BY <2>3, <3>1, <3>2 DEF Clear, TypeInv, LoginTypeOK, CallsOK
  <2>4. CASE Claim(c)
    <3>1. CallsOK'
      BY <2>1, <2>4, MovesTyped DEF Claim
    <3>2. users' \in [UserIds -> User \cup {NoUser}]
      BY <2>1, <2>4, PutsTyped, IdsTyped DEF Claim, TypeInv, LoginTypeOK
    <3> QED
      BY <2>4, <3>1, <3>2 DEF Claim, TypeInv, LoginTypeOK, CallsOK
  <2>5. CASE Own(c)
    <3>1. CallsOK'
      BY <2>1, <2>5, MovesTyped DEF Own
    <3>2. [user |-> Wallet(k.address), primary |-> TRUE,
           made |-> IF wallets[k.address] = NoWallet THEN "login" ELSE wallets[k.address].made] \in WalletRow
      BY <2>1, IdsTyped DEF WalletRow, TypeInv, LoginTypeOK
    <3>3. wallets' \in [Addresses -> WalletRow \cup {NoWallet}]
      BY <2>5, <3>2 DEF Own, TypeInv, LoginTypeOK
    <3> QED
      BY <2>5, <3>1, <3>3 DEF Own, TypeInv, LoginTypeOK, CallsOK
  <2>6. CASE OpenSession(c)
    <3>1. CallsOK'
      BY <2>6, StopsTyped DEF OpenSession
    <3>2. sessions' \subseteq Addresses /\ logins' \in [NonceNo -> Nat]
      BY <2>1, <2>6 DEF OpenSession, TypeInv, LoginTypeOK
    <3> QED
      BY <2>6, <3>1, <3>2 DEF OpenSession, TypeInv, LoginTypeOK, CallsOK
  <2>7. CASE CountWallets(c)
    <3>1. [k EXCEPT !.at = "insert", !.primary = OwnedBy(k.user) = {}] \in LoginRecord
      <4>1. k \in LoginRecord /\ (OwnedBy(k.user) = {}) \in BOOLEAN
        BY DEF TypeInv, LoginTypeOK
      <4> HIDE DEF k
      <4> QED
        BY <4>1 DEF LoginRecord
    <3>2. loginCall' \in [LoginCalls -> LoginRecord]
      BY <2>7, <3>1 DEF CountWallets, TypeInv, LoginTypeOK
    <3>3. CallsFull'
      BY <2>1, <2>7 DEF CountWallets, TypeInv, LoginTypeOK, CallsFull, LoginRecord
    <3> QED
      BY <2>7, <3>2, <3>3 DEF CountWallets, TypeInv, LoginTypeOK
  <2>8. CASE InsertWallet(c)
    <3>1. CallsOK'
      BY <2>1, <2>8, MovesTyped, StopsTyped DEF InsertWallet
    <3>2. [user |-> k.user, primary |-> k.primary, made |-> c] \in WalletRow
      BY <2>1 DEF WalletRow, TypeInv, LoginTypeOK, LoginRecord
    <3>3. wallets' \in [Addresses -> WalletRow \cup {NoWallet}] /\ binds' \in [NonceNo -> Int]
      BY <2>1, <2>8, <3>2 DEF InsertWallet, TypeInv, LoginTypeOK
    <3> QED
      BY <2>8, <3>1, <3>3 DEF InsertWallet, TypeInv, LoginTypeOK, CallsOK
  <2>9. CASE Mirror(c)
    <3>1. CallsOK'
      BY <2>1, <2>9, MovesTyped DEF Mirror
    <3>2. HasRow(k.user) => [users[k.user] EXCEPT !.address = k.address] \in User
      BY <2>1 DEF HasRow, User, TypeInv, LoginTypeOK
    <3>3. users' \in [UserIds -> User \cup {NoUser}]
      BY <2>1, <2>9, <3>2 DEF Mirror, TypeInv, LoginTypeOK
    <3> QED
      BY <2>9, <3>1, <3>3 DEF Mirror, TypeInv, LoginTypeOK, CallsOK
  <2>10. CASE Rotate(c)
    <3>1. CallsOK'
      BY <2>10, StopsTyped DEF Rotate
    <3>2. HasRow(k.user) => Rotated(users[k.user]) \in User
      BY <2>1 DEF HasRow, Rotated, User, TypeInv, LoginTypeOK
    <3>3. users' \in [UserIds -> User \cup {NoUser}]
      BY <2>1, <2>10, <3>2 DEF Rotate, TypeInv, LoginTypeOK
    <3> QED
      BY <2>10, <3>1, <3>3 DEF Rotate, TypeInv, LoginTypeOK, CallsOK
  <2>11. CASE Cleanup(c)
    <3>1. CallsOK'
      BY <2>11, StopsTyped DEF Cleanup
    <3>2. wallets' \in [Addresses -> WalletRow \cup {NoWallet}] /\ binds' \in [NonceNo -> Int]
      BY <2>1, <2>11 DEF Cleanup, TypeInv, LoginTypeOK
    <3> QED
      BY <2>11, <3>1, <3>2 DEF Cleanup, TypeInv, LoginTypeOK, CallsOK
  <2>12. CASE LoginIgnores(c)
    <3>1. CallsOK'
      BY <2>1, <2>12, MovesTyped DEF LoginIgnores
    <3>2. loginFaults' \in 0..MaxLoginFaults /\ troubled' \subseteq Addresses
      BY <2>1, <2>12, FaultTyped DEF LoginIgnores, TypeInv, LoginTypeOK
    <3> QED
      BY <2>12, <3>1, <3>2 DEF LoginIgnores, TypeInv, LoginTypeOK, CallsOK
  <2>13. CASE RotateFails(c)
    <3>1. CallsOK'
      BY <2>1, <2>13, MovesTyped DEF RotateFails
    <3>2. loginFaults' \in 0..MaxLoginFaults
      BY <2>13, FaultTyped DEF RotateFails
    <3> QED
      BY <2>13, <3>1, <3>2 DEF RotateFails, TypeInv, LoginTypeOK, CallsOK
  <2>14. CASE LoginDies(c)
    <3>1. CallsOK'
      BY <2>14, StopsTyped DEF LoginDies
    <3>2. loginFaults' \in 0..MaxLoginFaults /\ doubled' \subseteq NonceNo
      BY <2>1, <2>14, FaultTyped DEF LoginDies, TypeInv, LoginTypeOK
    <3> QED
      BY <2>14, <3>1, <3>2 DEF LoginDies, TypeInv, LoginTypeOK, CallsOK
  <2> QED
    BY <1>6, <2>2, <2>3, <2>4, <2>5, <2>6, <2>7, <2>8, <2>9, <2>10, <2>11, <2>12, <2>13, <2>14 DEF LoginStep
<1>7. ASSUME NEW a \in Addresses, CreateAccount(a)
      PROVE  TypeInv'
  <2>1. [address |-> a, nonce |-> NullNonce] \in User
    BY DEF User
  <2>2. users' \in [UserIds -> User \cup {NoUser}]
    BY <1>7, <2>1 DEF CreateAccount, TypeInv, LoginTypeOK
  <2>3. troubled' \subseteq Addresses
    BY <1>7 DEF CreateAccount, TypeInv, LoginTypeOK
  <2> QED
    BY <1>7, <2>2, <2>3 DEF CreateAccount, TypeInv, LoginTypeOK, CallsFull
<1> QED
  BY <1>1, <1>2, <1>3, <1>4, <1>5, <1>6, <1>7 DEF LoginNext

\* The state of the wallet login has its type.
THEOREM LoginTyped == LoginSpec => []LoginTypeOK
<1>1. LoginInit => TypeInv
  BY InitTyped
<1>2. TypeInv /\ [LoginNext]_loginVars => TypeInv'
  BY TypesKept
<1>3. TypeInv => LoginTypeOK
  BY DEF TypeInv
<1> QED
  BY <1>1, <1>2, <1>3, PTL DEF LoginSpec

-----------------------------------------------------------------------------
\* Most steps write no new nonce: rows keep theirs or lose it, and calls keep
\* theirs, end, or start with one that has been given out.
RowsKeep ==
  \A u \in UserIds, n \in NonceNo : HasNonce(u, n)' => HasNonce(u, n)

CallsKeep ==
  \A c \in LoginCalls :
    loginCall'[c].at # "idle" =>
      /\ loginCall'[c].nonce \in 1..nonces
      /\ Took(loginCall'[c]) => Took(loginCall[c]) /\ loginCall'[c].nonce = loginCall[c].nonce

LEMMA TookRuns == \A k : Took(k) => k.at # "idle"
BY DEF Took

LEMMA Keeping ==
  ASSUME TypeInv, TypeInv', Once, AddressesUnique', RowsKeep, CallsKeep, UNCHANGED <<nonces, logins>>
  PROVE  Once'
<1>1. RowNonces'
  BY DEF Once, RowNonces, RowsKeep, HasNonce
<1>2. CallNonces'
  <2> SUFFICES ASSUME NEW c \in LoginCalls, loginCall'[c].at # "idle"
               PROVE  /\ loginCall'[c].nonce \in 1..nonces'
                      /\ Took(loginCall'[c]) =>
                           /\ \A u \in UserIds : ~HasNonce(u, loginCall[c].nonce)'
                           /\ \A d \in LoginCalls :
                                Took(loginCall'[d]) /\ loginCall'[d].nonce = loginCall'[c].nonce => c = d
                           /\ logins'[loginCall'[c].nonce] = 0
    BY DEF CallNonces, Took
  <2>1. loginCall'[c].nonce \in 1..nonces'
    BY DEF CallsKeep
  <2>2. ASSUME Took(loginCall'[c])
        PROVE  /\ \A u \in UserIds : ~HasNonce(u, loginCall[c].nonce)'
               /\ \A d \in LoginCalls :
                    Took(loginCall'[d]) /\ loginCall'[d].nonce = loginCall'[c].nonce => c = d
               /\ logins'[loginCall'[c].nonce] = 0
    <3>1. Took(loginCall[c]) /\ loginCall'[c].nonce = loginCall[c].nonce /\ loginCall[c].at # "idle"
      BY <2>2, TookRuns DEF CallsKeep
    <3>2. loginCall[c].nonce \in NonceNo
      BY <3>1 DEF TypeInv, CallsFull
    <3>3. \A u \in UserIds : ~HasNonce(u, loginCall[c].nonce)'
      BY <3>1, <3>2 DEF Once, CallNonces, RowsKeep, HasNonce
    <3>4. \A d \in LoginCalls :
            Took(loginCall'[d]) /\ loginCall'[d].nonce = loginCall'[c].nonce => c = d
      <4> SUFFICES ASSUME NEW d \in LoginCalls, Took(loginCall'[d]),
                          loginCall'[d].nonce = loginCall'[c].nonce
                   PROVE  c = d
        OBVIOUS
      <4>1. Took(loginCall[d]) /\ loginCall'[d].nonce = loginCall[d].nonce
        BY TookRuns DEF CallsKeep
      <4> QED
        BY <3>1, <4>1 DEF Once, CallNonces
    <3>5. logins'[loginCall'[c].nonce] = 0
      BY <3>1 DEF Once, CallNonces
    <3> QED
      BY <3>3, <3>4, <3>5
  <2> QED
    BY <2>1, <2>2
<1>3. Opened'
  BY DEF Once, Opened, RowsKeep, HasNonce
<1> QED
  BY <1>1, <1>2, <1>3 DEF Once

\* How the calls change, and rows, in the terms of that lemma.
LEMMA MovesKeep ==
  ASSUME TypeInv, Once, NEW c \in LoginCalls, loginCall[c].at # "idle", NEW at, Moves(c, at),
         at \in {"clear", "claim", "own", "session"} => Took(loginCall[c])
  PROVE  CallsKeep
BY DEF CallsKeep, Once, CallNonces, Moves, Took, TypeInv, LoginTypeOK, LoginRecord

LEMMA StopsKeep ==
  ASSUME TypeInv, Once, NEW c \in LoginCalls, Stops(c)
  PROVE  CallsKeep
BY DEF CallsKeep, Once, CallNonces, Stops, LoginIdle, TypeInv, LoginTypeOK, LoginRecord

LEMMA StartsKeep ==
  ASSUME TypeInv, Once, NEW c \in LoginCalls, NEW at \in {"consume", "count"}, NEW u \in UserIds,
         NEW a \in Addresses, HasRow(u), users[u].nonce > 0, Starts(c, at, u, a)
  PROVE  CallsKeep
<1>1. users[u].nonce \in 1..nonces
  BY DEF TypeInv, LoginTypeOK, HasRow, User, NullNonce, HiddenNonce, Once, RowNonces, HasNonce, NonceNo
<1> DEFINE k == [LoginIdle EXCEPT !.at = at, !.address = a, !.user = u, !.nonce = users[u].nonce]
<1>2. k.at = at /\ k.nonce = users[u].nonce
  BY DEF LoginIdle
<1>3. loginCall' = [loginCall EXCEPT ![c] = k]
  BY DEF Starts
<1> HIDE DEF k
<1> QED
  BY <1>1, <1>2, <1>3 DEF CallsKeep, Once, CallNonces, Took, TypeInv, LoginTypeOK

\* Writing an address that no other row has.
LEMMA AddressWritten ==
  ASSUME TypeInv, Once, NEW u \in UserIds, NEW a \in Addresses, Having(a) \subseteq {u}, PutAddress(u, a)
  PROVE  AddressesUnique' /\ RowsKeep
<1>1. RowOf(u) \in User /\ (HasRow(u) => RowOf(u) = users[u]) /\ (~HasRow(u) => RowOf(u).nonce = 0)
  BY RowTyped DEF RowOf, NullNonce
<1>2. /\ users'[u] = [RowOf(u) EXCEPT !.address = a]
      /\ \A v \in UserIds \ {u} : users'[v] = users[v]
  BY DEF PutAddress, TypeInv, LoginTypeOK
<1>3. users'[u].address = a /\ users'[u].nonce = RowOf(u).nonce
  BY <1>1, <1>2 DEF User
<1>4. AddressesUnique'
  <2> SUFFICES ASSUME NEW v \in UserIds, NEW w \in UserIds, users'[v] # NoUser, users'[w] # NoUser,
                      users'[v].address = users'[w].address, users'[v].address # NoAddress
               PROVE  v = w
    BY DEF AddressesUnique
  <2>1. \A x \in UserIds \ {u} : users'[x] # NoUser => users'[x].address # a
    BY <1>2 DEF Having, HasRow
  <2>2. CASE v = u \/ w = u
    BY <1>3, <2>1, <2>2
  <2>3. CASE v # u /\ w # u
    <3>1. users'[v] = users[v] /\ users'[w] = users[w]
      BY <1>2, <2>3
    <3> QED
      BY <3>1 DEF Once, AddressesUnique
  <2> QED
    BY <2>2, <2>3
<1>5. RowsKeep
  <2> SUFFICES ASSUME NEW v \in UserIds, NEW n \in NonceNo, HasNonce(v, n)'
               PROVE  HasNonce(v, n)
    BY DEF RowsKeep
  <2>1. CASE v = u
    <3>1. RowOf(u).nonce = n /\ n # 0
      BY <1>3, <2>1 DEF HasNonce, NonceNo
    <3>2. HasRow(u) /\ users[u].nonce = n
      BY <1>1, <3>1
    <3> QED
      BY <2>1, <3>2 DEF HasNonce, HasRow
  <2>2. CASE v # u
    <3>1. users'[v] = users[v]
      BY <1>2, <2>2
    <3> QED
      BY <3>1 DEF HasNonce
  <2> QED
    BY <2>1, <2>2
<1> QED
  BY <1>4, <1>5

\* Writing a nonce leaves the addresses, and the nonces of the other rows.
LEMMA NonceWritten ==
  ASSUME TypeInv, Once, NEW u \in UserIds, NEW n \in NonceNo \cup {NullNonce, HiddenNonce}, PutNonce(u, n)
  PROVE  /\ AddressesUnique'
         /\ users'[u] # NoUser => users'[u].nonce = n
         /\ \A v \in UserIds \ {u} : users'[v] = users[v]
<1>1. RowOf(u) \in User /\ (HasRow(u) => RowOf(u) = users[u])
      /\ (~HasRow(u) => RowOf(u).address = NoAddress)
  BY RowTyped DEF RowOf
<1>2. /\ users'[u] = [RowOf(u) EXCEPT !.nonce = n]
      /\ \A v \in UserIds \ {u} : users'[v] = users[v]
  BY DEF PutNonce, TypeInv, LoginTypeOK
<1>3. users'[u].nonce = n /\ users'[u].address = RowOf(u).address
  BY <1>1, <1>2 DEF User
<1>4. AddressesUnique'
  <2> SUFFICES ASSUME NEW v \in UserIds, NEW w \in UserIds, users'[v] # NoUser, users'[w] # NoUser,
                      users'[v].address = users'[w].address, users'[v].address # NoAddress
               PROVE  v = w
    BY DEF AddressesUnique
  <2>1. \A x \in UserIds :
          users'[x] # NoUser /\ users'[x].address # NoAddress =>
            users[x] # NoUser /\ users[x].address = users'[x].address
    <3> SUFFICES ASSUME NEW x \in UserIds, users'[x] # NoUser, users'[x].address # NoAddress
                 PROVE  users[x] # NoUser /\ users[x].address = users'[x].address
      OBVIOUS
    <3>1. CASE x = u
      BY <1>1, <1>3, <3>1 DEF HasRow
    <3>2. CASE x # u
      BY <1>2, <3>2
    <3> QED
      BY <3>1, <3>2
  <2> QED
    BY <2>1 DEF Once, AddressesUnique
<1> QED
  BY <1>2, <1>3, <1>4

-----------------------------------------------------------------------------
\* A nonce that is given out is new: nothing has it yet.
LEMMA NewNonce ==
  ASSUME TypeInv, Once, GivesNonce
  PROVE  /\ nonces' \in NonceNo /\ nonces \in Nat /\ nonces' = nonces + 1
         /\ \A u \in UserIds : ~HasNonce(u, nonces')
         /\ \A c \in LoginCalls : loginCall[c].at # "idle" => loginCall[c].nonce # nonces'
         /\ logins[nonces'] = 0
<1>1. nonces' \in NonceNo /\ nonces \in Nat /\ nonces' = nonces + 1
  BY LoginAssumption DEF LoginAssumption, GivesNonce, TypeInv, LoginTypeOK, NonceNo
<1>2. \A u \in UserIds : ~HasNonce(u, nonces')
  BY <1>1 DEF Once, RowNonces
<1>3. \A c \in LoginCalls : loginCall[c].at # "idle" => loginCall[c].nonce # nonces'
  BY <1>1 DEF Once, CallNonces
<1>4. logins[nonces'] = 0
  BY <1>1 DEF Once, Opened
<1> QED
  BY <1>1, <1>2, <1>3, <1>4

\* Giving it to one row, whatever that does to the nonce the row had.
LEMMA Giving ==
  ASSUME TypeInv, Once, GivesNonce, AddressesUnique', NEW u \in UserIds,
         users'[u] # NoUser => users'[u].nonce = nonces',
         \A v \in UserIds \ {u} : users'[v] = users[v],
         UNCHANGED <<loginCall, logins>>
  PROVE  Once'
<1>1. /\ nonces' \in NonceNo /\ nonces \in Nat /\ nonces' = nonces + 1
      /\ \A v \in UserIds : ~HasNonce(v, nonces')
      /\ \A c \in LoginCalls : loginCall[c].at # "idle" => loginCall[c].nonce # nonces'
      /\ logins[nonces'] = 0
  BY NewNonce
<1>2. \A v \in UserIds, n \in NonceNo :
        HasNonce(v, n)' => (v = u /\ n = nonces') \/ (v # u /\ n # nonces' /\ HasNonce(v, n))
  BY <1>1 DEF HasNonce
<1>3. RowNonces'
  BY <1>1, <1>2 DEF Once, RowNonces, NonceNo
<1>4. CallNonces'
  <2> SUFFICES ASSUME NEW c \in LoginCalls, loginCall[c].at # "idle"
               PROVE  /\ loginCall[c].nonce \in 1..nonces'
                      /\ Took(loginCall[c]) =>
                           /\ \A v \in UserIds : ~HasNonce(v, loginCall[c].nonce)'
                           /\ \A d \in LoginCalls :
                                Took(loginCall[d]) /\ loginCall[d].nonce = loginCall[c].nonce => c = d
                           /\ logins[loginCall[c].nonce] = 0
    BY DEF CallNonces, Took
  <2>1. loginCall[c].nonce \in NonceNo /\ loginCall[c].nonce # nonces'
    BY <1>1 DEF TypeInv, CallsFull
  <2>2. loginCall[c].nonce \in 1..nonces'
    BY <1>1 DEF Once, CallNonces
  <2>3. Took(loginCall[c]) => \A v \in UserIds : ~HasNonce(v, loginCall[c].nonce)'
    BY <1>2, <2>1 DEF Once, CallNonces, HasNonce
  <2> QED
    BY <2>2, <2>3 DEF Once, CallNonces
<1>5. Opened'
  BY <1>1, <1>2 DEF Once, Opened, NonceNo
<1> QED
  BY <1>3, <1>4, <1>5 DEF Once

LEMMA InitOnce == LoginInit => Once
BY DEF LoginInit, Once, AddressesUnique, RowNonces, HasNonce, CallNonces, Opened, LoginIdle

\* A row that is made has an address that no other row has.
LEMMA RowMade ==
  ASSUME TypeInv, Once, NEW a \in Addresses, NEW n, Having(a) = {},
         users' = [users EXCEPT ![Temp(a)] = [address |-> a, nonce |-> n]]
  PROVE  /\ Temp(a) \in UserIds /\ users'[Temp(a)].nonce = n
         /\ \A v \in UserIds \ {Temp(a)} : users'[v] = users[v]
         /\ AddressesUnique'
<1>1. Temp(a) \in UserIds
  BY IdsTyped
<1>2. /\ users'[Temp(a)] = [address |-> a, nonce |-> n]
      /\ \A v \in UserIds \ {Temp(a)} : users'[v] = users[v]
  BY <1>1 DEF TypeInv, LoginTypeOK
<1>3. users'[Temp(a)].nonce = n /\ users'[Temp(a)].address = a
  BY <1>2
<1>4. \A v \in UserIds \ {Temp(a)} : users'[v] # NoUser => users'[v].address # a
  BY <1>2 DEF Having, HasRow
<1>5. AddressesUnique'
  <2> SUFFICES ASSUME NEW v \in UserIds, NEW w \in UserIds, users'[v] # NoUser, users'[w] # NoUser,
                      users'[v].address = users'[w].address, users'[v].address # NoAddress
               PROVE  v = w
    BY DEF AddressesUnique
  <2>1. CASE v = Temp(a) \/ w = Temp(a)
    BY <1>3, <1>4, <2>1
  <2>2. CASE v # Temp(a) /\ w # Temp(a)
    BY <1>2, <2>2 DEF Once, AddressesUnique
  <2> QED
    BY <2>1, <2>2
<1> QED
  BY <1>1, <1>2, <1>3, <1>5

\* A row that is made has no nonce yet.
LEMMA CreatingKeeps ==
  ASSUME TypeInv, Once, NEW a \in Addresses, CreateAccount(a)
  PROVE  RowsKeep /\ AddressesUnique' /\ UNCHANGED <<loginCall, nonces, logins>>
<1>1. /\ Having(a) = {} /\ UNCHANGED <<loginCall, nonces, logins>>
      /\ users' = [users EXCEPT ![Temp(a)] = [address |-> a, nonce |-> NullNonce]]
  BY DEF CreateAccount
<1>2. /\ users'[Temp(a)].nonce = NullNonce /\ AddressesUnique'
      /\ \A v \in UserIds \ {Temp(a)} : users'[v] = users[v]
  BY <1>1, RowMade
<1>3. RowsKeep
  BY <1>2 DEF RowsKeep, HasNonce, NonceNo, NullNonce
<1> QED
  BY <1>1, <1>2, <1>3

\* A new nonce by address: that of the one row which has the address, if any.
LEMMA IssuingOnce ==
  ASSUME TypeInv, Once, NEW a \in Addresses, IssueLoginNonce(a)
  PROVE  Once'
<1>1. GivesNonce /\ UNCHANGED <<loginCall, logins>>
  BY DEF IssueLoginNonce
<1>2. CASE Having(a) # {}
  <2>1. PICK u \in UserIds : u \in Having(a)
    BY <1>2 DEF Having
  <2>2. Having(a) = {u}
    BY <2>1, IdsTyped DEF Having, HasRow, Once, AddressesUnique
  <2>3. /\ users'[u] = [users[u] EXCEPT !.nonce = nonces']
        /\ \A v \in UserIds \ {u} : users'[v] = users[v]
    BY <1>2, <2>2 DEF IssueLoginNonce
  <2>4. users[u] \in User /\ users[u].address = a
    BY <2>1 DEF Having, HasRow, TypeInv, LoginTypeOK
  <2>5. users'[u].nonce = nonces' /\ users'[u].address = a
    BY <2>3, <2>4 DEF User
  <2>6. \A v \in UserIds : users'[v] # NoUser =>
          users[v] # NoUser /\ users'[v].address = users[v].address
    BY <2>1, <2>3, <2>4, <2>5 DEF Having, HasRow
  <2>7. AddressesUnique'
    BY <2>6 DEF Once, AddressesUnique
  <2> QED
    BY <1>1, <2>3, <2>5, <2>7, Giving
<1>3. CASE Having(a) = {}
  <2>1. users' = [users EXCEPT ![Temp(a)] = [address |-> a, nonce |-> nonces']]
    BY <1>3 DEF IssueLoginNonce
  <2>2. /\ Temp(a) \in UserIds /\ users'[Temp(a)].nonce = nonces'
        /\ \A v \in UserIds \ {Temp(a)} : users'[v] = users[v]
        /\ AddressesUnique'
    BY <1>3, <2>1, RowMade
  <2> QED
    BY <1>1, <2>2, Giving
<1> QED
  BY <1>2, <1>3

LEMMA BindNonceOnce ==
  ASSUME TypeInv, Once, NEW u \in Members, IssueBindNonce(u)
  PROVE  Once'
<1>1. u \in UserIds
  BY IdsTyped DEF Members, TypeInv, LoginTypeOK
<1>2. GivesNonce /\ UNCHANGED <<loginCall, logins>> /\ PutNonce(u, nonces')
  BY DEF IssueBindNonce
<1>3. nonces' \in NonceNo
  BY <1>2, NewNonce
<1> QED
  BY <1>1, <1>2, <1>3, NonceWritten, Giving

\* The update that takes a nonce succeeds only where the row still has it, which
\* no call that has taken one, and no session, shares.
LEMMA ConsumeOnce ==
  ASSUME TypeInv, TypeInv', Once, NEW c \in LoginCalls, Consume(c)
  PROVE  Once'
<1> DEFINE k == loginCall[c]
<1>1. k.at = "consume" /\ k.user \in UserIds /\ k.nonce \in NonceNo /\ k.nonce \in 1..nonces
      /\ UNCHANGED <<nonces, logins>>
  BY DEF Consume, TypeInv, CallsFull, Once, CallNonces
<1>2. CASE ~StillHas(k)
  <2>1. UNCHANGED users /\ Stops(c)
    BY <1>2 DEF Consume
  <2>2. RowsKeep /\ AddressesUnique'
    BY <2>1 DEF RowsKeep, HasNonce, Once, AddressesUnique
  <2> QED
    BY <1>1, <2>1, <2>2, StopsKeep, Keeping
<1>3. CASE StillHas(k)
  <2>1. PutNonce(k.user, NullNonce) /\ Moves(c, "clear") /\ HasNonce(k.user, k.nonce)
    BY <1>3 DEF Consume, StillHas, HasRow, HasNonce
  <2>2. /\ AddressesUnique'
        /\ users'[k.user] # NoUser => users'[k.user].nonce = NullNonce
        /\ \A v \in UserIds \ {k.user} : users'[v] = users[v]
    BY <1>1, <2>1, NonceWritten
  <2>3. \A v \in UserIds, n \in NonceNo : HasNonce(v, n)' => v # k.user /\ HasNonce(v, n)
    BY <2>2 DEF HasNonce, NullNonce, NonceNo
  <2>4. /\ loginCall'[c].at = "clear" /\ loginCall'[c].nonce = k.nonce
        /\ \A d \in LoginCalls \ {c} : loginCall'[d] = loginCall[d]
    BY <2>1 DEF Moves, TypeInv, LoginTypeOK, LoginRecord
  <2>5. \A v \in UserIds : ~HasNonce(v, loginCall[c].nonce)'
    BY <1>1, <2>1, <2>3, <2>4 DEF Once, RowNonces, HasNonce
  <2>6. /\ \A d \in LoginCalls \ {c} : Took(loginCall[d]) => loginCall[d].nonce # k.nonce
        /\ logins[k.nonce] = 0
    BY <1>1, <2>1, TookRuns DEF Once, CallNonces, Opened
  <2>7. RowNonces'
    BY <1>1, <2>3 DEF Once, RowNonces, HasNonce
  <2>8. CallNonces'
    <3> SUFFICES ASSUME NEW d \in LoginCalls, loginCall'[d].at # "idle"
                 PROVE  /\ loginCall'[d].nonce \in 1..nonces'
                        /\ Took(loginCall'[d]) =>
                             /\ \A v \in UserIds : ~HasNonce(v, loginCall[d].nonce)'
                             /\ \A e \in LoginCalls :
                                  Took(loginCall'[e]) /\ loginCall'[e].nonce = loginCall'[d].nonce => d = e
                             /\ logins'[loginCall'[d].nonce] = 0
      BY DEF CallNonces, Took
    <3>1. CASE d = c
      <4>1. \A v \in UserIds : ~HasNonce(v, loginCall[d].nonce)'
        BY <2>5, <3>1
      <4> QED
        BY <1>1, <2>4, <2>6, <3>1, <4>1
    <3>2. CASE d # c
      <4>1. loginCall'[d] = loginCall[d] /\ loginCall[d].nonce \in NonceNo
        BY <2>4, <3>2 DEF TypeInv, CallsFull
      <4>2. Took(loginCall[d]) => \A v \in UserIds : ~HasNonce(v, loginCall[d].nonce)'
        BY <2>3, <4>1, TookRuns DEF Once, CallNonces, HasNonce
      <4>3. Took(loginCall[d]) =>
              \A e \in LoginCalls : Took(loginCall'[e]) /\ loginCall'[e].nonce = loginCall[d].nonce => d = e
        BY <2>4, <2>6, <3>2, TookRuns DEF Once, CallNonces
      <4> QED
        BY <1>1, <4>1, <4>2, <4>3 DEF Once, CallNonces
    <3> QED
      BY <3>1, <3>2
  <2>9. Opened'
    BY <1>1, <2>3 DEF Once, Opened, HasNonce
  <2> QED
    BY <2>2, <2>7, <2>8, <2>9 DEF Once
<1> QED
  BY <1>2, <1>3

LEMMA SessionOnce ==
  ASSUME TypeInv, TypeInv', Once, NEW c \in LoginCalls, OpenSession(c)
  PROVE  Once'
<1> DEFINE n == loginCall[c].nonce
<1>1. /\ Took(loginCall[c]) /\ n \in NonceNo /\ n \in 1..nonces
      /\ UNCHANGED <<users, nonces>> /\ Stops(c)
      /\ logins' = [logins EXCEPT ![n] = @ + 1]
  BY DEF OpenSession, Took, TypeInv, CallsFull, Once, CallNonces
<1>2. /\ \A u \in UserIds : ~HasNonce(u, n)
      /\ \A d \in LoginCalls \ {c} : Took(loginCall[d]) => loginCall[d].nonce # n
      /\ logins[n] = 0
  BY <1>1, TookRuns DEF Once, CallNonces
<1>3. logins'[n] = 1 /\ \A i \in NonceNo \ {n} : logins'[i] = logins[i]
  BY <1>1, <1>2 DEF TypeInv, LoginTypeOK
<1>4. loginCall'[c].at = "idle" /\ \A d \in LoginCalls \ {c} : loginCall'[d] = loginCall[d]
  BY <1>1 DEF Stops, LoginIdle, TypeInv, LoginTypeOK
<1>5. AddressesUnique' /\ RowNonces'
  BY <1>1 DEF Once, AddressesUnique, RowNonces, HasNonce
<1>6. CallNonces'
  <2> SUFFICES ASSUME NEW d \in LoginCalls, loginCall'[d].at # "idle"
               PROVE  /\ loginCall'[d].nonce \in 1..nonces'
                      /\ Took(loginCall'[d]) =>
                           /\ \A u \in UserIds : ~HasNonce(u, loginCall[d].nonce)'
                           /\ \A e \in LoginCalls :
                                Took(loginCall'[e]) /\ loginCall'[e].nonce = loginCall'[d].nonce => d = e
                           /\ logins'[loginCall'[d].nonce] = 0
    BY DEF CallNonces, Took
  <2>1. d # c /\ loginCall'[d] = loginCall[d] /\ loginCall[d].nonce \in NonceNo
    BY <1>4 DEF TypeInv, CallsFull
  <2>2. Took(loginCall[d]) => \A u \in UserIds : ~HasNonce(u, loginCall[d].nonce)'
    BY <1>1, <2>1 DEF Once, CallNonces, HasNonce
  <2>3. Took(loginCall[d]) =>
          \A e \in LoginCalls : Took(loginCall'[e]) /\ loginCall'[e].nonce = loginCall[d].nonce => d = e
    BY <1>4, <2>1, TookRuns DEF Once, CallNonces
  <2>4. Took(loginCall[d]) => logins'[loginCall[d].nonce] = 0
    BY <1>2, <1>3, <2>1 DEF Once, CallNonces
  <2>5. loginCall[d].nonce \in 1..nonces'
    BY <1>1, <2>1 DEF Once, CallNonces
  <2> QED
    BY <2>1, <2>2, <2>3, <2>4, <2>5
<1>7. Opened'
  BY <1>1, <1>2, <1>3 DEF Once, Opened, HasNonce
<1> QED
  BY <1>5, <1>6, <1>7 DEF Once

-----------------------------------------------------------------------------
LEMMA OnceKept ==
  ASSUME TypeInv, TypeInv', Once, [LoginNext]_loginVars
  PROVE  Once'
<1>1. CASE UNCHANGED loginVars
  BY <1>1 DEF loginVars, Once, AddressesUnique, RowNonces, HasNonce, CallNonces, Opened
<1>2. ASSUME NEW a \in Addresses, IssueLoginNonce(a)
      PROVE  Once'
  BY <1>2, IssuingOnce
<1>3. ASSUME NEW u \in Members, IssueBindNonce(u)
      PROVE  Once'
  BY <1>3, BindNonceOnce
<1>4. ASSUME UNCHANGED users
      PROVE  RowsKeep /\ AddressesUnique'
  BY <1>4 DEF RowsKeep, HasNonce, Once, AddressesUnique
<1>5. ASSUME NEW a \in Addresses, NEW c \in LoginCalls, Login(c, a)
      PROVE  Once'
  <2>1. CallsKeep
    BY <1>5, StartsKeep DEF Login, Having
  <2>2. UNCHANGED <<users, nonces, logins>>
    BY <1>5 DEF Login
  <2> QED
    BY <1>4, <2>1, <2>2, Keeping
<1>6. ASSUME NEW u \in Members, NEW c \in LoginCalls, NEW a \in Addresses, Bind(c, u, a)
      PROVE  Once'
  <2>1. u \in UserIds
    BY IdsTyped DEF Members, TypeInv, LoginTypeOK
  <2>2. UNCHANGED <<nonces, logins>>
    BY <1>6 DEF Bind
  <2>3. CASE HasRow(u) /\ users[u].nonce > 0
    <3>1. CallsKeep
      BY <1>6, <2>1, <2>3, StartsKeep DEF Bind
    <3>2. UNCHANGED users
      BY <1>6, <2>3 DEF Bind
    <3> QED
      BY <1>4, <2>2, <3>1, <3>2, Keeping
  <2>4. CASE ~(HasRow(u) /\ users[u].nonce > 0)
    <3>1. PutNonce(u, RowOf(u).nonce) /\ UNCHANGED loginCall
      BY <1>6, <2>4 DEF Bind
    <3>2. RowOf(u).nonce \in {NullNonce, HiddenNonce}
      BY <2>1, <2>4 DEF RowOf, HasRow, TypeInv, LoginTypeOK, User, NonceNo, NullNonce, HiddenNonce
    <3>3. /\ AddressesUnique'
          /\ users'[u] # NoUser => users'[u].nonce = RowOf(u).nonce
          /\ \A v \in UserIds \ {u} : users'[v] = users[v]
      BY <2>1, <3>1, <3>2, NonceWritten
    <3>4. RowsKeep
      BY <3>2, <3>3 DEF RowsKeep, HasNonce, NonceNo, NullNonce, HiddenNonce
    <3>5. CallsKeep
      BY <3>1 DEF CallsKeep, Once, CallNonces
    <3> QED
      BY <2>2, <3>3, <3>4, <3>5, Keeping
  <2> QED
    BY <2>3, <2>4
<1>7. ASSUME NEW c \in LoginCalls, LoginStep(c)
      PROVE  Once'
  <2> DEFINE k == loginCall[c]
  <2>0. k.at # "idle" => k.address \in Addresses /\ k.user \in UserIds
    BY DEF TypeInv, CallsFull
  <2>1. CASE Consume(c)
    BY <2>1, ConsumeOnce
  <2>2. CASE OpenSession(c)
    BY <2>2, SessionOnce
  <2>3. CASE Clear(c)
    <3>1. CallsKeep
      BY <2>3, MovesKeep DEF Clear, Took
    <3>2. \A u \in UserIds : users'[u] # NoUser => users'[u] = users[u]
      BY <2>3 DEF Clear
    <3>3. RowsKeep /\ AddressesUnique'
      BY <3>2 DEF RowsKeep, HasNonce, Once, AddressesUnique
    <3> QED
      BY <2>3, <3>1, <3>3, Keeping DEF Clear
  <2>4. CASE Claim(c)
    <3>1. CallsKeep
      BY <2>4, MovesKeep DEF Claim, Took
    <3>2. Wallet(k.address) \in UserIds /\ k.address \in Addresses
      BY <2>0, <2>4, IdsTyped DEF Claim
    <3>3. RowsKeep /\ AddressesUnique'
      BY <1>4, <2>4, <3>2, AddressWritten DEF Claim
    <3> QED
      BY <2>4, <3>1, <3>3, Keeping DEF Claim
  <2>5. CASE Own(c)
    <3>1. CallsKeep
      BY <2>5, MovesKeep DEF Own, Took
    <3> QED
      BY <1>4, <2>5, <3>1, Keeping DEF Own
  <2>6. CASE CountWallets(c)
    <3>1. /\ loginCall'[c].at = "insert" /\ loginCall'[c].nonce = k.nonce /\ k.at # "idle"
          /\ \A d \in LoginCalls \ {c} : loginCall'[d] = loginCall[d]
      BY <2>6 DEF CountWallets, TypeInv, LoginTypeOK, LoginRecord
    <3>2. CallsKeep
      BY <3>1 DEF CallsKeep, Once, CallNonces, Took
    <3> QED
      BY <1>4, <2>6, <3>2, Keeping DEF CountWallets
  <2>7. CASE InsertWallet(c)
    <3>1. CallsKeep
      BY <2>7, MovesKeep, StopsKeep DEF InsertWallet
    <3> QED
      BY <1>4, <2>7, <3>1, Keeping DEF InsertWallet
  <2>8. CASE Mirror(c)
    <3>1. CallsKeep
      BY <2>8, MovesKeep DEF Mirror
    <3>2. CASE HasRow(k.user) /\ Having(k.address) = {}
      <4>1. PutAddress(k.user, k.address) /\ k.user \in UserIds /\ k.address \in Addresses
        BY <2>0, <2>8, <3>2 DEF Mirror, PutAddress, RowOf
      <4> QED
        BY <2>8, <3>1, <3>2, <4>1, AddressWritten, Keeping DEF Mirror
    <3>3. CASE ~(HasRow(k.user) /\ Having(k.address) = {})
      BY <1>4, <2>8, <3>1, <3>3, Keeping DEF Mirror
    <3> QED
      BY <3>2, <3>3
  <2>9. CASE Rotate(c)
    <3>1. CallsKeep
      BY <2>9, StopsKeep DEF Rotate
    <3>2. CASE HasRow(k.user)
      <4>1. PutNonce(k.user, HiddenNonce) /\ k.user \in UserIds
        BY <2>0, <2>9, <3>2 DEF Rotate, Rotated, PutNonce, RowOf
      <4>2. /\ AddressesUnique'
            /\ users'[k.user] # NoUser => users'[k.user].nonce = HiddenNonce
            /\ \A v \in UserIds \ {k.user} : users'[v] = users[v]
        BY <4>1, NonceWritten
      <4>3. RowsKeep
        BY <4>2 DEF RowsKeep, HasNonce, NonceNo, HiddenNonce
      <4> QED
        BY <2>9, <3>1, <4>2, <4>3, Keeping DEF Rotate
    <3>3. CASE ~HasRow(k.user)
      BY <1>4, <2>9, <3>1, <3>3, Keeping DEF Rotate
    <3> QED
      BY <3>2, <3>3
  <2>10. CASE Cleanup(c)
    <3>1. CallsKeep
      BY <2>10, StopsKeep DEF Cleanup
    <3> QED
      BY <1>4, <2>10, <3>1, Keeping DEF Cleanup
  <2>11. CASE LoginIgnores(c)
    <3>1. CallsKeep
      BY <2>11, MovesKeep DEF LoginIgnores, Steps, Took
    <3> QED
      BY <1>4, <2>11, <3>1, Keeping DEF LoginIgnores
  <2>12. CASE RotateFails(c)
    <3>1. CallsKeep
      BY <2>12, MovesKeep DEF RotateFails, Steps
    <3> QED
      BY <1>4, <2>12, <3>1, Keeping DEF RotateFails
  <2>13. CASE LoginDies(c)
    <3>1. CallsKeep
      BY <2>13, StopsKeep DEF LoginDies
    <3> QED
      BY <1>4, <2>13, <3>1, Keeping DEF LoginDies
  <2> QED
    BY <1>7, <2>1, <2>2, <2>3, <2>4, <2>5, <2>6, <2>7, <2>8, <2>9, <2>10, <2>11, <2>12, <2>13 DEF LoginStep
<1>8. ASSUME NEW a \in Addresses, CreateAccount(a)
      PROVE  Once'
  <2>1. RowsKeep /\ AddressesUnique' /\ UNCHANGED <<loginCall, nonces, logins>>
    BY <1>8, CreatingKeeps
  <2>2. CallsKeep
    BY <2>1 DEF CallsKeep, Once, CallNonces
  <2> QED
    BY <2>1, <2>2, Keeping
<1> QED
  BY <1>1, <1>2, <1>3, <1>5, <1>6, <1>7, <1>8 DEF LoginNext

\* A nonce opens one session at most (auth-wallet:78-86), for any number of
\* calls that carry it, addresses, accounts that share its column, and faults.
THEOREM NonceGoodForOneLogin == LoginSpec => []OneLoginPerNonce
<1>1. LoginInit => TypeInv /\ Once
  BY InitTyped, InitOnce
<1>2. TypeInv /\ Once /\ [LoginNext]_loginVars => (TypeInv /\ Once)'
  BY TypesKept, OnceKept
<1>3. Once => OneLoginPerNonce
  BY DEF Once, Opened, OneLoginPerNonce
<1> QED
  BY <1>1, <1>2, <1>3, PTL DEF LoginSpec

-----------------------------------------------------------------------------
\* That a nonce binds one wallet.  A nonce that is not doubled is carried by one
\* binding at a time; where it has bound, that call has still to rotate it or to
\* undo the binding, or no row has it any more.

Binds(k) == k.at \in Binding
Bound(k) == k.at \in {"mirror", "rotate", "cleanup"}

OneHolder ==
  \A n \in NonceNo \ doubled : \A c, d \in LoginCalls :
    /\ Binds(loginCall[c]) /\ loginCall[c].nonce = n
    /\ Binds(loginCall[d]) /\ loginCall[d].nonce = n
    => c = d

\* The nonce that a binding has read is in the row it was read from, or in none.
OwnRow ==
  \A c \in LoginCalls : Binds(loginCall[c]) =>
    \A u \in UserIds : HasNonce(u, loginCall[c].nonce) => u = loginCall[c].user

UngivenUnbound == \A n \in NonceNo : n > nonces => binds[n] <= 0

Standing ==
  \A n \in NonceNo \ doubled :
    /\ binds[n] <= 1
    /\ \A c \in LoginCalls :
         Binds(loginCall[c]) /\ ~Bound(loginCall[c]) /\ loginCall[c].nonce = n => binds[n] <= 0
    /\ binds[n] > 0 => \/ \E c \in LoginCalls : Bound(loginCall[c]) /\ loginCall[c].nonce = n
                       \/ \A u \in UserIds : ~HasNonce(u, n)

BindOnce == OneHolder /\ OwnRow /\ UngivenUnbound /\ Standing

LEMMA BoundBinds == \A k : Bound(k) => Binds(k) /\ k.at # "idle"
BY DEF Bound, Binds, Binding

LEMMA BindsRuns == \A k : Binds(k) => k.at # "idle"
BY DEF Binds, Binding

\* What a row has after a step it had before, or is a nonce given out by it.
RowsFresh ==
  /\ nonces \in Nat /\ nonces' \in Nat /\ nonces <= nonces'
  /\ \A u \in UserIds, n \in NonceNo : HasNonce(u, n)' => HasNonce(u, n) \/ n > nonces

LEMMA RowsStayFresh ==
  ASSUME TypeInv, TypeInv', Once, [LoginNext]_loginVars
  PROVE  RowsFresh
<1>1. nonces \in Nat /\ nonces' \in Nat
  BY LoginAssumption DEF LoginAssumption, TypeInv, LoginTypeOK
<1>2. ASSUME UNCHANGED nonces, RowsKeep
      PROVE  RowsFresh
  BY <1>1, <1>2 DEF RowsFresh, RowsKeep
<1>3. ASSUME UNCHANGED <<nonces, users>>
      PROVE  RowsFresh
  BY <1>1, <1>3 DEF RowsFresh, HasNonce
<1>4. CASE UNCHANGED loginVars
  BY <1>3, <1>4 DEF loginVars
<1>5. ASSUME NEW a \in Addresses, IssueLoginNonce(a)
      PROVE  RowsFresh
  <2>1. nonces' \in NonceNo /\ nonces' = nonces + 1
    BY <1>5, NewNonce DEF IssueLoginNonce
  <2>2. ASSUME NEW u \in UserIds
        PROVE  users'[u] = users[u] \/ users'[u].nonce = nonces'
    <3>1. CASE Having(a) # {} /\ u \in Having(a)
      <4>1. users'[u] = [users[u] EXCEPT !.nonce = nonces'] /\ users[u] \in User
        BY <1>5, <3>1 DEF IssueLoginNonce, Having, HasRow, TypeInv, LoginTypeOK
      <4> QED
        BY <4>1 DEF User
    <3>2. CASE Having(a) # {} /\ u \notin Having(a)
      BY <1>5, <3>2 DEF IssueLoginNonce
    <3>3. CASE Having(a) = {}
      <4>1. users' = [users EXCEPT ![Temp(a)] = [address |-> a, nonce |-> nonces']]
        BY <1>5, <3>3 DEF IssueLoginNonce
      <4> QED
        BY <4>1, IdsTyped DEF TypeInv, LoginTypeOK
    <3> QED
      BY <3>1, <3>2, <3>3
  <2> QED
    BY <1>1, <2>1, <2>2 DEF RowsFresh, HasNonce
<1>6. ASSUME NEW u \in Members, IssueBindNonce(u)
      PROVE  RowsFresh
  <2>1. u \in UserIds
    BY IdsTyped DEF Members, TypeInv, LoginTypeOK
  <2>2. nonces' \in NonceNo /\ nonces' = nonces + 1 /\ PutNonce(u, nonces')
    BY <1>6, NewNonce DEF IssueBindNonce
  <2>3. /\ users'[u] # NoUser => users'[u].nonce = nonces'
        /\ \A v \in UserIds \ {u} : users'[v] = users[v]
    BY <2>1, <2>2, NonceWritten
  <2> QED
    BY <1>1, <2>2, <2>3 DEF RowsFresh, HasNonce
<1>7. ASSUME NEW u \in UserIds, NEW n \in {NullNonce, HiddenNonce}, PutNonce(u, n), UNCHANGED nonces
      PROVE  RowsFresh
  <2>1. /\ users'[u] # NoUser => users'[u].nonce = n
        /\ \A v \in UserIds \ {u} : users'[v] = users[v]
    BY <1>7, NonceWritten
  <2>2. RowsKeep
    BY <2>1 DEF RowsKeep, HasNonce, NonceNo, NullNonce, HiddenNonce
  <2> QED
    BY <1>2, <1>7, <2>2
<1>8. ASSUME NEW a \in Addresses, NEW c \in LoginCalls, Login(c, a)
      PROVE  RowsFresh
  BY <1>3, <1>8 DEF Login
<1>9. ASSUME NEW u \in Members, NEW c \in LoginCalls, NEW a \in Addresses, Bind(c, u, a)
      PROVE  RowsFresh
  <2>1. u \in UserIds
    BY IdsTyped DEF Members, TypeInv, LoginTypeOK
  <2>2. CASE HasRow(u) /\ users[u].nonce > 0
    BY <1>3, <1>9, <2>2 DEF Bind
  <2>3. CASE ~(HasRow(u) /\ users[u].nonce > 0)
    <3>1. RowOf(u).nonce \in {NullNonce, HiddenNonce}
      BY <2>1, <2>3 DEF RowOf, HasRow, TypeInv, LoginTypeOK, User, NonceNo, NullNonce, HiddenNonce
    <3> QED
      BY <1>7, <1>9, <2>1, <2>3, <3>1 DEF Bind
  <2> QED
    BY <2>2, <2>3
<1>10. ASSUME NEW c \in LoginCalls, LoginStep(c)
       PROVE  RowsFresh
  <2> DEFINE k == loginCall[c]
  <2>0. k.at # "idle" => k.address \in Addresses /\ k.user \in UserIds
    BY DEF TypeInv, CallsFull
  <2>1. CASE Consume(c)
    <3>1. CASE StillHas(k)
      BY <1>7, <2>0, <2>1, <3>1 DEF Consume
    <3>2. CASE ~StillHas(k)
      BY <1>3, <2>1, <3>2 DEF Consume
    <3> QED
      BY <3>1, <3>2
  <2>2. CASE Clear(c)
    <3>1. \A u \in UserIds : users'[u] # NoUser => users'[u] = users[u]
      BY <2>2 DEF Clear
    <3> QED
      BY <1>2, <2>2, <3>1 DEF Clear, RowsKeep, HasNonce
  <2>3. CASE Claim(c)
    <3>1. k.address \in Addresses /\ Wallet(k.address) \in UserIds
      BY <2>0, <2>3, IdsTyped DEF Claim
    <3>2. CASE Having(k.address) \subseteq {Wallet(k.address)}
      BY <1>2, <2>3, <3>1, <3>2, AddressWritten DEF Claim
    <3>3. CASE ~(Having(k.address) \subseteq {Wallet(k.address)})
      BY <1>3, <2>3, <3>3 DEF Claim
    <3> QED
      BY <3>2, <3>3
  <2>4. CASE Mirror(c)
    <3>1. CASE HasRow(k.user) /\ Having(k.address) = {}
      <4>1. PutAddress(k.user, k.address) /\ k.user \in UserIds /\ k.address \in Addresses
        BY <2>0, <2>4, <3>1 DEF Mirror, PutAddress, RowOf
      <4> QED
        BY <1>2, <2>4, <3>1, <4>1, AddressWritten DEF Mirror
    <3>2. CASE ~(HasRow(k.user) /\ Having(k.address) = {})
      BY <1>3, <2>4, <3>2 DEF Mirror
    <3> QED
      BY <3>1, <3>2
  <2>5. CASE Rotate(c)
    <3>1. CASE HasRow(k.user)
      <4>1. PutNonce(k.user, HiddenNonce) /\ k.user \in UserIds
        BY <2>0, <2>5, <3>1 DEF Rotate, Rotated, PutNonce, RowOf
      <4> QED
        BY <1>7, <2>5, <4>1 DEF Rotate
    <3>2. CASE ~HasRow(k.user)
      BY <1>3, <2>5, <3>2 DEF Rotate
    <3> QED
      BY <3>1, <3>2
  <2>6. CASE UNCHANGED <<users, nonces>>
    BY <1>3, <2>6
  <2> QED
    BY <1>10, <2>1, <2>2, <2>3, <2>4, <2>5, <2>6
    DEF LoginStep, Own, OpenSession, CountWallets, InsertWallet, Cleanup, LoginIgnores, RotateFails, LoginDies
<1>11. ASSUME NEW a \in Addresses, CreateAccount(a)
      PROVE  RowsFresh
  BY <1>2, <1>11, CreatingKeeps
<1> QED
  BY <1>4, <1>5, <1>6, <1>8, <1>9, <1>10, <1>11 DEF LoginNext

\* Most steps begin and end no binding: each goes on with its nonce and row, and
\* one that has bound ends only where its nonce is doubled.
BindingsGoOn ==
  /\ doubled \subseteq doubled'
  /\ \A c \in LoginCalls :
       /\ Binds(loginCall'[c]) =>
            /\ Binds(loginCall[c]) /\ (Bound(loginCall'[c]) <=> Bound(loginCall[c]))
            /\ loginCall'[c].nonce = loginCall[c].nonce /\ loginCall'[c].user = loginCall[c].user
       /\ Bound(loginCall[c]) =>
            \/ loginCall[c].nonce \in doubled'
            \/ Bound(loginCall'[c]) /\ loginCall'[c].nonce = loginCall[c].nonce

\* Rows and calls that go on, in the terms of the invariant.
LEMMA OwnRowKept ==
  ASSUME TypeInv, Once, OwnRow, RowsFresh,
         \A c \in LoginCalls : Binds(loginCall'[c]) =>
           /\ Binds(loginCall[c])
           /\ loginCall'[c].nonce = loginCall[c].nonce /\ loginCall'[c].user = loginCall[c].user
  PROVE  OwnRow'
<1> SUFFICES ASSUME NEW c \in LoginCalls, Binds(loginCall'[c]), NEW u \in UserIds,
                    HasNonce(u, loginCall[c].nonce)'
             PROVE  u = loginCall'[c].user
  BY DEF OwnRow, HasNonce
<1>1. /\ Binds(loginCall[c]) /\ loginCall'[c].nonce = loginCall[c].nonce
      /\ loginCall'[c].user = loginCall[c].user
  OBVIOUS
<1>2. loginCall[c].nonce \in NonceNo /\ loginCall[c].nonce \in 1..nonces
  BY <1>1, BindsRuns DEF TypeInv, CallsFull, Once, CallNonces
<1>3. HasNonce(u, loginCall[c].nonce)
  BY <1>1, <1>2 DEF RowsFresh, HasNonce
<1> QED
  BY <1>1, <1>3 DEF OwnRow

LEMMA BindOnceKept ==
  ASSUME TypeInv, TypeInv', Once, BindOnce, RowsFresh, BindingsGoOn, UNCHANGED binds
  PROVE  BindOnce'
<1>1. OneHolder'
  BY DEF BindOnce, OneHolder, BindingsGoOn
<1>2. OwnRow'
  BY OwnRowKept DEF BindOnce, BindingsGoOn
<1>3. UngivenUnbound'
  BY DEF BindOnce, UngivenUnbound, RowsFresh, NonceNo
<1>4. ASSUME NEW n \in NonceNo, n \notin doubled'
      PROVE  /\ binds'[n] <= 1
             /\ \A c \in LoginCalls :
                  Binds(loginCall'[c]) /\ ~Bound(loginCall'[c]) /\ loginCall'[c].nonce = n => binds'[n] <= 0
             /\ binds'[n] > 0 => \/ \E c \in LoginCalls : Bound(loginCall'[c]) /\ loginCall'[c].nonce = n
                                 \/ \A u \in UserIds : ~HasNonce(u, n)'
  <2>1. n \notin doubled /\ binds'[n] = binds[n]
    BY <1>4 DEF BindingsGoOn
  <2>2. binds'[n] <= 1
    BY <2>1 DEF BindOnce, Standing
  <2>3. \A c \in LoginCalls :
          Binds(loginCall'[c]) /\ ~Bound(loginCall'[c]) /\ loginCall'[c].nonce = n => binds'[n] <= 0
    BY <2>1 DEF BindOnce, Standing, BindingsGoOn
  <2>4. ASSUME binds'[n] > 0
        PROVE  \/ \E c \in LoginCalls : Bound(loginCall'[c]) /\ loginCall'[c].nonce = n
               \/ \A u \in UserIds : ~HasNonce(u, n)'
    <3>1. CASE \E c \in LoginCalls : Bound(loginCall[c]) /\ loginCall[c].nonce = n
      BY <1>4, <3>1 DEF BindingsGoOn
    <3>2. CASE \A u \in UserIds : ~HasNonce(u, n)
      <4>1. ~(n > nonces)
        BY <2>1, <2>4 DEF BindOnce, UngivenUnbound, TypeInv, LoginTypeOK
      <4>2. \A u \in UserIds : ~HasNonce(u, n)'
        BY <3>2, <4>1 DEF RowsFresh, HasNonce
      <4> QED
        BY <4>2
    <3> QED
      BY <2>1, <2>4, <3>1, <3>2 DEF BindOnce, Standing
  <2> QED
    BY <2>2, <2>3, <2>4
<1>5. Standing'
  <2>1. \A n \in NonceNo, u \in UserIds : HasNonce(u, n)' <=> users'[u] # NoUser /\ users'[u].nonce = n
    BY DEF HasNonce
  <2> QED
    BY <1>4, <2>1 DEF Standing, HasNonce
<1> QED
  BY <1>1, <1>2, <1>3, <1>5 DEF BindOnce

\* A binding starts with a nonce that no call has; it is that of its row.
LEMMA BindStarts ==
  ASSUME TypeInv, TypeInv', Once, BindOnce, RowsFresh, NEW u \in UserIds, NEW c \in LoginCalls,
         NEW a \in Addresses, Bind(c, u, a), HasRow(u), users[u].nonce > 0
  PROVE  BindOnce'
<1> DEFINE n0 == users[u].nonce
<1>1. /\ loginCall[c].at = "idle" /\ Starts(c, "count", u, a)
      /\ doubled' = IF Uses(n0) THEN doubled \cup {n0} ELSE doubled
      /\ UNCHANGED <<users, nonces, binds>>
  BY DEF Bind
<1>2. n0 \in NonceNo /\ HasNonce(u, n0)
  BY DEF TypeInv, LoginTypeOK, User, HasRow, HasNonce, NullNonce, HiddenNonce
<1>3. /\ loginCall'[c].at = "count" /\ loginCall'[c].user = u /\ loginCall'[c].nonce = n0
      /\ \A d \in LoginCalls \ {c} : loginCall'[d] = loginCall[d]
  <2> DEFINE k == [LoginIdle EXCEPT !.at = "count", !.address = a, !.user = u, !.nonce = users[u].nonce]
  <2>1. k.at = "count" /\ k.user = u /\ k.nonce = n0
    BY DEF LoginIdle
  <2>2. loginCall' = [loginCall EXCEPT ![c] = k]
    BY <1>1 DEF Starts
  <2> HIDE DEF k
  <2> QED
    BY <2>1, <2>2 DEF TypeInv, LoginTypeOK
<1>4. /\ Binds(loginCall'[c]) /\ ~Bound(loginCall'[c]) /\ ~Binds(loginCall[c]) /\ ~Bound(loginCall[c])
  BY <1>1, <1>3 DEF Binds, Bound, Binding
<1>5. n0 \notin doubled' => \A d \in LoginCalls : loginCall[d].nonce # n0
  BY <1>1 DEF Uses
<1>6. doubled \subseteq doubled'
  BY <1>1
<1> HIDE DEF n0
<1>7. OneHolder'
  BY <1>3, <1>4, <1>5, <1>6 DEF BindOnce, OneHolder
<1>8. OwnRow'
  <2> SUFFICES ASSUME NEW d \in LoginCalls, Binds(loginCall'[d]), NEW v \in UserIds,
                      HasNonce(v, loginCall[d].nonce)'
               PROVE  v = loginCall'[d].user
    BY DEF OwnRow, HasNonce
  <2>1. HasNonce(v, loginCall'[d].nonce)
    BY <1>1 DEF HasNonce
  <2>2. CASE d = c
    BY <1>2, <1>3, <2>1, <2>2 DEF Once, RowNonces
  <2>3. CASE d # c
    BY <1>3, <2>1, <2>3 DEF BindOnce, OwnRow
  <2> QED
    BY <2>2, <2>3
<1>9. UngivenUnbound'
  BY <1>1 DEF BindOnce, UngivenUnbound
<1>10. ASSUME NEW n \in NonceNo, n \notin doubled'
       PROVE  /\ binds'[n] <= 1
              /\ \A d \in LoginCalls :
                   Binds(loginCall'[d]) /\ ~Bound(loginCall'[d]) /\ loginCall'[d].nonce = n => binds'[n] <= 0
              /\ binds'[n] > 0 => \/ \E d \in LoginCalls : Bound(loginCall'[d]) /\ loginCall'[d].nonce = n
                                  \/ \A v \in UserIds : ~(users'[v] # NoUser /\ users'[v].nonce = n)
  <2>1. n \notin doubled /\ binds'[n] = binds[n]
    BY <1>1, <1>10, <1>6
  <2>2. binds[n] <= 1
    BY <2>1 DEF BindOnce, Standing
  <2>3. n = n0 => ~(binds[n] > 0)
    BY <1>2, <1>5, <1>10, <2>1 DEF BindOnce, Standing
  <2>4. binds[n] \in Int
    BY DEF TypeInv, LoginTypeOK
  <2>5. n = n0 => binds[n] <= 0
    BY <2>3, <2>4
  <2>6. \A d \in LoginCalls :
          Binds(loginCall'[d]) /\ ~Bound(loginCall'[d]) /\ loginCall'[d].nonce = n => binds'[n] <= 0
    BY <1>3, <2>1, <2>5 DEF BindOnce, Standing
  <2>7. binds'[n] > 0 => \/ \E d \in LoginCalls : Bound(loginCall'[d]) /\ loginCall'[d].nonce = n
                         \/ \A v \in UserIds : ~(users'[v] # NoUser /\ users'[v].nonce = n)
    BY <1>1, <1>3, <1>4, <2>1 DEF BindOnce, Standing, HasNonce
  <2> QED
    BY <2>1, <2>2, <2>6, <2>7
<1>11. Standing'
  BY <1>10 DEF Standing, HasNonce
<1> QED
  BY <1>7, <1>8, <1>9, <1>11 DEF BindOnce

\* A binding goes on or ends; the other calls stay.
OneMoves(c) ==
  /\ \A d \in LoginCalls \ {c} : loginCall'[d] = loginCall[d]
  /\ Binds(loginCall'[c]) => /\ loginCall'[c].nonce = loginCall[c].nonce
                             /\ loginCall'[c].user = loginCall[c].user

\* Its nonce, n, has bound m wallets after it.
BindsNow(c, n, m) ==
  /\ n = loginCall[c].nonce /\ m \in Int /\ binds' = [binds EXCEPT ![n] = m]
  /\ n \notin doubled =>
       /\ m <= 1
       /\ Binds(loginCall'[c]) /\ ~Bound(loginCall'[c]) => m <= 0
       /\ m > 0 => \/ Bound(loginCall'[c])
                   \/ \A u \in UserIds : ~(users'[u] # NoUser /\ users'[u].nonce = n)

LEMMA BindingMoves ==
  ASSUME TypeInv, TypeInv', Once, BindOnce, RowsFresh, NEW c \in LoginCalls, Binds(loginCall[c]),
         UNCHANGED <<nonces, doubled>>, OneMoves(c), NEW n0, NEW m, BindsNow(c, n0, m)
  PROVE  BindOnce'
<1>0. /\ n0 = loginCall[c].nonce /\ m \in Int /\ binds' = [binds EXCEPT ![n0] = m]
      /\ n0 \notin doubled =>
           /\ m <= 1
           /\ Binds(loginCall'[c]) /\ ~Bound(loginCall'[c]) => m <= 0
           /\ m > 0 => \/ Bound(loginCall'[c])
                       \/ \A u \in UserIds : ~(users'[u] # NoUser /\ users'[u].nonce = n0)
      /\ \A d \in LoginCalls \ {c} : loginCall'[d] = loginCall[d]
      /\ Binds(loginCall'[c]) => /\ loginCall'[c].nonce = loginCall[c].nonce
                                 /\ loginCall'[c].user = loginCall[c].user
  BY DEF OneMoves, BindsNow
<1>1. n0 \in NonceNo /\ n0 \in 1..nonces
  BY <1>0, BindsRuns DEF TypeInv, CallsFull, Once, CallNonces
<1>2. binds'[n0] = m /\ \A n \in NonceNo \ {n0} : binds'[n] = binds[n]
  BY <1>0, <1>1 DEF TypeInv, LoginTypeOK
<1>3. \A d \in LoginCalls : Binds(loginCall'[d]) =>
        /\ Binds(loginCall[d])
        /\ loginCall'[d].nonce = loginCall[d].nonce /\ loginCall'[d].user = loginCall[d].user
  BY <1>0
<1>4. OneHolder'
  BY <1>3 DEF BindOnce, OneHolder
<1>5. OwnRow'
  BY <1>3, OwnRowKept DEF BindOnce
<1>6. UngivenUnbound'
  <2>1. \A n \in NonceNo : n > nonces => n # n0
    BY <1>1 DEF RowsFresh
  <2> QED
    BY <1>2, <2>1 DEF BindOnce, UngivenUnbound
<1>7. ASSUME NEW n \in NonceNo, n \notin doubled'
      PROVE  /\ binds'[n] <= 1
             /\ \A d \in LoginCalls :
                  Binds(loginCall'[d]) /\ ~Bound(loginCall'[d]) /\ loginCall'[d].nonce = n => binds'[n] <= 0
             /\ binds'[n] > 0 => \/ \E d \in LoginCalls : Bound(loginCall'[d]) /\ loginCall'[d].nonce = n
                                 \/ \A u \in UserIds : ~(users'[u] # NoUser /\ users'[u].nonce = n)
  <2>1. CASE n = n0
    <3>1. \A d \in LoginCalls \ {c} : ~(Binds(loginCall'[d]) /\ loginCall'[d].nonce = n)
      BY <1>0, <1>7, <2>1 DEF BindOnce, OneHolder
    <3>2. Bound(loginCall'[c]) => loginCall'[c].nonce = n
      BY <1>0, <2>1, BoundBinds
    <3>3. binds'[n] = m
      BY <1>2, <2>1
    <3> QED
      BY <1>0, <1>7, <2>1, <3>1, <3>2, <3>3
  <2>2. CASE n # n0
    <3>1. binds'[n] = binds[n] /\ n \notin doubled
      BY <1>2, <1>7, <2>2
    <3>2. binds[n] <= 1
      BY <3>1 DEF BindOnce, Standing
    <3>3. \A d \in LoginCalls :
            Binds(loginCall'[d]) /\ ~Bound(loginCall'[d]) /\ loginCall'[d].nonce = n => binds'[n] <= 0
      BY <1>0, <2>2, <3>1 DEF BindOnce, Standing
    <3>4. ASSUME binds[n] > 0
          PROVE  \/ \E d \in LoginCalls : Bound(loginCall'[d]) /\ loginCall'[d].nonce = n
                 \/ \A u \in UserIds : ~(users'[u] # NoUser /\ users'[u].nonce = n)
      <4>1. CASE \E d \in LoginCalls : Bound(loginCall[d]) /\ loginCall[d].nonce = n
        BY <1>0, <2>2, <4>1, BoundBinds
      <4>2. CASE \A u \in UserIds : ~HasNonce(u, n)
        <5>1. ~(n > nonces)
          BY <3>4 DEF BindOnce, UngivenUnbound, TypeInv, LoginTypeOK
        <5> QED
          BY <4>2, <5>1 DEF RowsFresh, HasNonce
      <4> QED
        BY <3>1, <3>4, <4>1, <4>2 DEF BindOnce, Standing
    <3> QED
      BY <3>1, <3>2, <3>3, <3>4
  <2> QED
    BY <2>1, <2>2
<1>8. Standing'
  BY <1>7 DEF Standing, HasNonce
<1> QED
  BY <1>4, <1>5, <1>6, <1>8 DEF BindOnce

LEMMA InsertBinds ==
  ASSUME TypeInv, TypeInv', Once, BindOnce, RowsFresh, NEW c \in LoginCalls, InsertWallet(c),
         Moves(c, IF loginCall[c].primary THEN "mirror" ELSE "rotate"),
         binds' = [binds EXCEPT ![loginCall[c].nonce] = @ + 1]
  PROVE  BindOnce'
<1>1. PICK n0 : n0 = loginCall[c].nonce
  OBVIOUS
<1>2. PICK m : m = binds[n0] + 1
  OBVIOUS
<1>3. /\ loginCall[c].at = "insert" /\ UNCHANGED <<nonces, doubled>>
      /\ binds' = [binds EXCEPT ![n0] = m]
  BY <1>1, <1>2 DEF InsertWallet
<1>4. Binds(loginCall[c]) /\ ~Bound(loginCall[c]) /\ n0 \in NonceNo
  BY <1>1, <1>3 DEF Binds, Bound, Binding, TypeInv, CallsFull
<1>5. /\ loginCall'[c].at \in {"mirror", "rotate"}
      /\ loginCall'[c].nonce = loginCall[c].nonce /\ loginCall'[c].user = loginCall[c].user
      /\ \A d \in LoginCalls \ {c} : loginCall'[d] = loginCall[d]
  BY DEF Moves, TypeInv, LoginTypeOK, LoginRecord
<1>6. Bound(loginCall'[c])
  BY <1>5 DEF Bound
<1>7. m \in Int /\ (n0 \notin doubled => m <= 1)
  <2>1. binds[n0] \in Int /\ (n0 \notin doubled => binds[n0] <= 0)
    BY <1>1, <1>4 DEF TypeInv, LoginTypeOK, BindOnce, Standing
  <2> QED
    BY <1>2, <2>1
<1>8. OneMoves(c) /\ BindsNow(c, n0, m)
  BY <1>1, <1>3, <1>5, <1>6, <1>7 DEF OneMoves, BindsNow
<1> QED
  BY <1>3, <1>4, <1>8, BindingMoves

\* A nonce is rotated where it was read, and no other row has it.
LEMMA RotateBinds ==
  ASSUME TypeInv, TypeInv', Once, BindOnce, RowsFresh, NEW c \in LoginCalls, Rotate(c)
  PROVE  BindOnce'
<1> DEFINE k == loginCall[c]
<1>1. PICK n0 : n0 = loginCall[c].nonce
  OBVIOUS
<1>2. k.at = "rotate" /\ UNCHANGED <<nonces, doubled, binds>> /\ Stops(c)
  BY DEF Rotate
<1>3. Binds(k) /\ n0 \in NonceNo /\ k.user \in UserIds
  BY <1>1, <1>2 DEF Binds, Binding, TypeInv, CallsFull
<1>4. /\ ~Binds(loginCall'[c]) /\ ~Bound(loginCall'[c])
      /\ \A d \in LoginCalls \ {c} : loginCall'[d] = loginCall[d]
  BY <1>2 DEF Stops, LoginIdle, Binds, Bound, Binding, TypeInv, LoginTypeOK
<1>5. PICK m : m = binds[n0]
  OBVIOUS
<1>6. m \in Int /\ binds' = [binds EXCEPT ![n0] = m]
  BY <1>2, <1>3, <1>5 DEF TypeInv, LoginTypeOK
<1>7. n0 \notin doubled => m <= 1
  BY <1>3, <1>5 DEF BindOnce, Standing
<1>8. \A u \in UserIds : ~(users'[u] # NoUser /\ users'[u].nonce = n0)
  <2>1. \A u \in UserIds \ {k.user} : users'[u] = users[u] /\ ~HasNonce(u, n0)
    BY <1>1, <1>3 DEF Rotate, TypeInv, LoginTypeOK, BindOnce, OwnRow
  <2>2. users'[k.user] = NoUser \/ users'[k.user].nonce = HiddenNonce
    <3>1. CASE HasRow(k.user)
      <4>1. users'[k.user] = [users[k.user] EXCEPT !.nonce = HiddenNonce] /\ users[k.user] \in User
        BY <1>3, <3>1 DEF Rotate, Rotated, HasRow, TypeInv, LoginTypeOK
      <4> QED
        BY <4>1 DEF User
    <3>2. CASE ~HasRow(k.user)
      BY <3>2 DEF Rotate, HasRow
    <3> QED
      BY <3>1, <3>2
  <2> QED
    BY <1>3, <2>1, <2>2 DEF HasNonce, HiddenNonce, NonceNo
<1>9. OneMoves(c) /\ BindsNow(c, n0, m)
  BY <1>1, <1>4, <1>6, <1>7, <1>8 DEF OneMoves, BindsNow
<1> QED
  BY <1>2, <1>3, <1>9, BindingMoves

LEMMA CleanupBinds ==
  ASSUME TypeInv, TypeInv', Once, BindOnce, RowsFresh, NEW c \in LoginCalls, Cleanup(c)
  PROVE  BindOnce'
<1>1. PICK n0 : n0 = loginCall[c].nonce
  OBVIOUS
<1>2. PICK m : m = binds[n0] - 1
  OBVIOUS
<1>3. /\ loginCall[c].at = "cleanup" /\ UNCHANGED <<nonces, doubled>> /\ Stops(c)
      /\ binds' = [binds EXCEPT ![n0] = m]
  BY <1>1, <1>2 DEF Cleanup
<1>4. Binds(loginCall[c]) /\ n0 \in NonceNo
  BY <1>1, <1>3 DEF Binds, Binding, TypeInv, CallsFull
<1>5. /\ ~Binds(loginCall'[c]) /\ ~Bound(loginCall'[c])
      /\ \A d \in LoginCalls \ {c} : loginCall'[d] = loginCall[d]
  BY <1>3 DEF Stops, LoginIdle, Binds, Bound, Binding, TypeInv, LoginTypeOK
<1>6. m \in Int /\ (n0 \notin doubled => m <= 1 /\ ~(m > 0))
  <2>1. binds[n0] \in Int /\ (n0 \notin doubled => binds[n0] <= 1)
    BY <1>4 DEF TypeInv, LoginTypeOK, BindOnce, Standing
  <2> QED
    BY <1>2, <2>1
<1>7. OneMoves(c) /\ BindsNow(c, n0, m)
  BY <1>1, <1>3, <1>5, <1>6 DEF OneMoves, BindsNow
<1> QED
  BY <1>3, <1>4, <1>7, BindingMoves

-----------------------------------------------------------------------------
LEMMA MovesGoOn ==
  ASSUME TypeInv, NEW c \in LoginCalls, loginCall[c].at # "idle", NEW at, Moves(c, at),
         at \in Binding <=> Binds(loginCall[c]),
         at \in {"mirror", "rotate", "cleanup"} <=> Bound(loginCall[c]), UNCHANGED doubled
  PROVE  BindingsGoOn
<1>1. /\ loginCall'[c].at = at /\ loginCall'[c].nonce = loginCall[c].nonce
      /\ loginCall'[c].user = loginCall[c].user
      /\ \A d \in LoginCalls \ {c} : loginCall'[d] = loginCall[d]
  BY DEF Moves, TypeInv, LoginTypeOK, LoginRecord
<1> QED
  BY <1>1 DEF BindingsGoOn, Binds, Bound

LEMMA StopsGoOn ==
  ASSUME TypeInv, NEW c \in LoginCalls, Stops(c), doubled \subseteq doubled',
         Bound(loginCall[c]) => loginCall[c].nonce \in doubled'
  PROVE  BindingsGoOn
<1>1. loginCall'[c].at = "idle" /\ \A d \in LoginCalls \ {c} : loginCall'[d] = loginCall[d]
  BY DEF Stops, LoginIdle, TypeInv, LoginTypeOK
<1>2. ~Binds(loginCall'[c])
  BY <1>1 DEF Binds, Binding
<1> QED
  BY <1>1, <1>2 DEF BindingsGoOn

LEMMA BindOnceStep ==
  ASSUME TypeInv, TypeInv', Once, BindOnce, [LoginNext]_loginVars
  PROVE  BindOnce'
<1>1. RowsFresh
  BY RowsStayFresh
<1>2. ASSUME UNCHANGED <<loginCall, doubled, binds>>
      PROVE  BindOnce'
  <2>1. BindingsGoOn
    BY <1>2 DEF BindingsGoOn
  <2> QED
    BY <1>1, <1>2, <2>1, BindOnceKept
<1>3. CASE UNCHANGED loginVars
  BY <1>2, <1>3 DEF loginVars
<1>4. ASSUME NEW a \in Addresses, IssueLoginNonce(a)
      PROVE  BindOnce'
  BY <1>2, <1>4 DEF IssueLoginNonce
<1>5. ASSUME NEW u \in Members, IssueBindNonce(u)
      PROVE  BindOnce'
  BY <1>2, <1>5 DEF IssueBindNonce
<1>6. ASSUME NEW a \in Addresses, NEW c \in LoginCalls, Login(c, a)
      PROVE  BindOnce'
  <2>1. PICK u \in UserIds : Starts(c, "consume", u, a)
    BY <1>6 DEF Login, Having
  <2>2. loginCall'[c].at = "consume" /\ \A d \in LoginCalls \ {c} : loginCall'[d] = loginCall[d]
    <3> DEFINE k == [LoginIdle EXCEPT !.at = "consume", !.address = a, !.user = u, !.nonce = users[u].nonce]
    <3>1. k.at = "consume" /\ loginCall' = [loginCall EXCEPT ![c] = k]
      BY <2>1 DEF Starts, LoginIdle
    <3> HIDE DEF k
    <3> QED
      BY <3>1 DEF TypeInv, LoginTypeOK
  <2>3. ~Binds(loginCall'[c]) /\ ~Bound(loginCall[c]) /\ UNCHANGED <<doubled, binds>>
    BY <1>6, <2>2 DEF Login, Binds, Bound, Binding
  <2>4. BindingsGoOn
    BY <2>2, <2>3 DEF BindingsGoOn
  <2> QED
    BY <1>1, <2>3, <2>4, BindOnceKept
<1>7. ASSUME NEW u \in Members, NEW c \in LoginCalls, NEW a \in Addresses, Bind(c, u, a)
      PROVE  BindOnce'
  <2>1. u \in UserIds
    BY IdsTyped DEF Members, TypeInv, LoginTypeOK
  <2>2. CASE HasRow(u) /\ users[u].nonce > 0
    BY <1>1, <1>7, <2>1, <2>2, BindStarts
  <2>3. CASE ~(HasRow(u) /\ users[u].nonce > 0)
    BY <1>2, <1>7, <2>3 DEF Bind
  <2> QED
    BY <2>2, <2>3
<1>8. ASSUME NEW c \in LoginCalls, LoginStep(c)
      PROVE  BindOnce'
  <2> DEFINE k == loginCall[c]
  <2>1. ASSUME BindingsGoOn, UNCHANGED binds
        PROVE  BindOnce'
    BY <1>1, <2>1, BindOnceKept
  <2>2. CASE Consume(c)
    <3>1. BindingsGoOn
      BY <2>2, MovesGoOn, StopsGoOn DEF Consume, Binds, Bound, Binding
    <3> QED
      BY <2>1, <2>2, <3>1 DEF Consume
  <2>3. CASE Clear(c)
    <3>1. BindingsGoOn
      BY <2>3, MovesGoOn DEF Clear, Binds, Bound, Binding
    <3> QED
      BY <2>1, <2>3, <3>1 DEF Clear
  <2>4. CASE Claim(c)
    <3>1. BindingsGoOn
      BY <2>4, MovesGoOn DEF Claim, Binds, Bound, Binding
    <3> QED
      BY <2>1, <2>4, <3>1 DEF Claim
  <2>5. CASE Own(c)
    <3>1. BindingsGoOn
      BY <2>5, MovesGoOn DEF Own, Binds, Bound, Binding
    <3> QED
      BY <2>1, <2>5, <3>1 DEF Own
  <2>6. CASE OpenSession(c)
    <3>1. BindingsGoOn
      BY <2>6, StopsGoOn DEF OpenSession, Bound
    <3> QED
      BY <2>1, <2>6, <3>1 DEF OpenSession
  <2>7. CASE CountWallets(c)
    <3>1. /\ loginCall'[c].at = "insert" /\ loginCall'[c].nonce = k.nonce /\ k.at = "count"
          /\ loginCall'[c].user = k.user /\ \A d \in LoginCalls \ {c} : loginCall'[d] = loginCall[d]
      BY <2>7 DEF CountWallets, TypeInv, LoginTypeOK, LoginRecord
    <3>2. BindingsGoOn
      BY <2>7, <3>1 DEF BindingsGoOn, CountWallets, Binds, Bound, Binding
    <3> QED
      BY <2>1, <2>7, <3>2 DEF CountWallets
  <2>8. CASE InsertWallet(c)
    <3>1. CASE Stops(c) /\ UNCHANGED binds
      <4>1. BindingsGoOn
        BY <2>8, <3>1, StopsGoOn DEF InsertWallet, Bound
      <4> QED
        BY <2>1, <3>1, <4>1
    <3>2. CASE /\ Moves(c, IF k.primary THEN "mirror" ELSE "rotate")
               /\ binds' = [binds EXCEPT ![k.nonce] = @ + 1]
      BY <1>1, <2>8, <3>2, InsertBinds
    <3> QED
      BY <2>8, <3>1, <3>2 DEF InsertWallet
  <2>9. CASE Mirror(c)
    <3>1. BindingsGoOn
      BY <2>9, MovesGoOn DEF Mirror, Binds, Bound, Binding
    <3> QED
      BY <2>1, <2>9, <3>1 DEF Mirror
  <2>10. CASE Rotate(c)
    BY <1>1, <2>10, RotateBinds
  <2>11. CASE Cleanup(c)
    BY <1>1, <2>11, CleanupBinds
  <2>12. CASE LoginIgnores(c)
    <3>1. BindingsGoOn
      BY <2>12, MovesGoOn DEF LoginIgnores, Steps, Binds, Bound, Binding
    <3> QED
      BY <2>1, <2>12, <3>1 DEF LoginIgnores
  <2>13. CASE RotateFails(c)
    <3>1. BindingsGoOn
      BY <2>13, MovesGoOn DEF RotateFails, Steps, Binds, Bound, Binding
    <3> QED
      BY <2>1, <2>13, <3>1 DEF RotateFails
  <2>14. CASE LoginDies(c)
    <3>1. BindingsGoOn
      BY <2>14, StopsGoOn DEF LoginDies, Steps, Bound
    <3> QED
      BY <2>1, <2>14, <3>1 DEF LoginDies
  <2> QED
    BY <1>8, <2>2, <2>3, <2>4, <2>5, <2>6, <2>7, <2>8, <2>9, <2>10, <2>11, <2>12, <2>13, <2>14 DEF LoginStep
<1>9. ASSUME NEW a \in Addresses, CreateAccount(a)
      PROVE  BindOnce'
  BY <1>2, <1>9 DEF CreateAccount
<1> QED
  BY <1>3, <1>4, <1>5, <1>6, <1>7, <1>8, <1>9 DEF LoginNext

LEMMA InitBindOnce == LoginInit => BindOnce
BY DEF LoginInit, BindOnce, OneHolder, OwnRow, UngivenUnbound, Standing, Binds, Bound, Binding, LoginIdle,
       HasNonce

\* A nonce binds one wallet (wallet-bind:58-110): of the bindings that were made
\* with it no two stand, unless two calls held it at once or one died after it had
\* bound; for any number of accounts, addresses, calls, nonces and faults.
THEOREM NonceGoodForOneBinding == LoginSpec => []OneBindingPerNonce
<1>1. LoginInit => TypeInv /\ Once /\ BindOnce
  BY InitTyped, InitOnce, InitBindOnce
<1>2. TypeInv /\ Once /\ BindOnce /\ [LoginNext]_loginVars => (TypeInv /\ Once /\ BindOnce)'
  BY TypesKept, OnceKept, BindOnceStep
<1>3. BindOnce => OneBindingPerNonce
  BY DEF BindOnce, Standing, OneBindingPerNonce
<1> QED
  BY <1>1, <1>2, <1>3, PTL DEF LoginSpec

-----------------------------------------------------------------------------
\* That a login has its wallet.  For an address that is not troubled, Home says
\* what each access of a login leaves to the next one, and to the sessions: the
\* row of the account, then its wallet; and that no binding takes either away.

RowHome(a) == HasRow(Wallet(a)) /\ users[Wallet(a)].address = a
WalletHome(a) == wallets[a] # NoWallet /\ wallets[a].user = Wallet(a) /\ wallets[a].primary

\* Another wallet of the account is not its primary one.
OthersMinor(a) ==
  \A b \in Addresses \ {a} :
    wallets[b] # NoWallet /\ wallets[b].user = Wallet(a) => ~wallets[b].primary

\* Nor is one that the account binds.
BindsMinor(a) ==
  \A c \in LoginCalls :
    Binds(loginCall[c]) /\ loginCall[c].user = Wallet(a) =>
      /\ a \in sessions /\ loginCall[c].at # "mirror"
      /\ loginCall[c].at = "insert" => ~loginCall[c].primary

Apart(a) == ~(Busy(a, LoggingIn) /\ Busy(a, Binding))

Home(a) ==
  /\ Apart(a)
  /\ Busy(a, {"claim"}) => Having(a) \subseteq {Wallet(a)}
  /\ a \in sessions \/ Busy(a, {"own", "session"}) => RowHome(a)
  /\ a \in sessions \/ Busy(a, {"session"}) => WalletHome(a)
  /\ a \in sessions => ~Busy(a, {"mirror", "rotate", "cleanup"})
  /\ BindsMinor(a)
  /\ OthersMinor(a)

AtHome == \A a \in Addresses \ troubled : Home(a)

LEMMA IdsDiffer ==
  /\ \A a, b : Wallet(a) = Wallet(b) => a = b
  /\ \A a, b : Wallet(a) # Temp(b)
  /\ \A a, x : Wallet(a) # Social(x)
BY DEF Wallet, Temp, Social

\* The calls with the address, and the bindings of its account, begin nothing
\* that Home speaks of.
CallsHome(a) ==
  \A c \in LoginCalls :
    /\ loginCall'[c].address = a =>
         /\ loginCall'[c].at # "idle" => loginCall[c].address = a
         /\ loginCall'[c].at \in LoggingIn => loginCall[c].at \in LoggingIn
         /\ loginCall'[c].at \in Binding => loginCall[c].at \in Binding
         /\ loginCall'[c].at = "claim" => loginCall[c].at = "claim"
         /\ loginCall'[c].at \in {"own", "session"} => loginCall[c].at \in {"own", "session"}
         /\ loginCall'[c].at = "session" => loginCall[c].at = "session"
         /\ loginCall'[c].at \in {"mirror", "rotate", "cleanup"} =>
              loginCall[c].at \in {"mirror", "rotate", "cleanup"}
    /\ Binds(loginCall'[c]) /\ loginCall'[c].user = Wallet(a) =>
         /\ Binds(loginCall[c]) /\ loginCall[c].user = Wallet(a)
         /\ loginCall'[c].at = "mirror" => loginCall[c].at = "mirror"
         /\ loginCall'[c].at = "insert" =>
              loginCall[c].at = "insert" /\ loginCall'[c].primary = loginCall[c].primary

\* The tables keep what Home says of them.
TablesHome(a) ==
  /\ Busy(a, {"claim"}) => Having(a)' \subseteq Having(a) \cup {Wallet(a)}
  /\ (a \in sessions \/ Busy(a, {"own", "session"})) /\ RowHome(a) => RowHome(a)'
  /\ (a \in sessions \/ Busy(a, {"session"})) /\ WalletHome(a) => WalletHome(a)'
  /\ OthersMinor(a) => OthersMinor(a)'

LEMMA HomeKept ==
  ASSUME NEW a \in Addresses, Home(a), CallsHome(a), TablesHome(a), UNCHANGED sessions
  PROVE  Home(a)'
<1>1. ASSUME NEW S, \A c \in LoginCalls : loginCall'[c].address = a /\ loginCall'[c].at \in S =>
                                            loginCall[c].address = a /\ loginCall[c].at \in S
      PROVE  Busy(a, S)' => Busy(a, S)
  BY <1>1 DEF Busy, Steps
<1>2. \A c \in LoginCalls :
        loginCall'[c].address = a =>
          /\ loginCall'[c].at \in LoggingIn => loginCall[c].address = a /\ loginCall[c].at \in LoggingIn
          /\ loginCall'[c].at \in Binding => loginCall[c].address = a /\ loginCall[c].at \in Binding
          /\ loginCall'[c].at = "claim" => loginCall[c].address = a /\ loginCall[c].at = "claim"
          /\ loginCall'[c].at \in {"own", "session"} =>
               loginCall[c].address = a /\ loginCall[c].at \in {"own", "session"}
          /\ loginCall'[c].at = "session" => loginCall[c].address = a /\ loginCall[c].at = "session"
          /\ loginCall'[c].at \in {"mirror", "rotate", "cleanup"} =>
               loginCall[c].address = a /\ loginCall[c].at \in {"mirror", "rotate", "cleanup"}
  BY DEF CallsHome, LoggingIn, Binding
<1>3. /\ Busy(a, LoggingIn)' => Busy(a, LoggingIn)
      /\ Busy(a, Binding)' => Busy(a, Binding)
      /\ Busy(a, {"claim"})' => Busy(a, {"claim"})
      /\ Busy(a, {"own", "session"})' => Busy(a, {"own", "session"})
      /\ Busy(a, {"session"})' => Busy(a, {"session"})
      /\ Busy(a, {"mirror", "rotate", "cleanup"})' => Busy(a, {"mirror", "rotate", "cleanup"})
  BY <1>2 DEF Busy, Steps, LoggingIn, Binding
<1>4. BindsMinor(a)'
  BY DEF Home, BindsMinor, CallsHome
<1>5. Apart(a)'
  BY <1>3 DEF Home, Apart
<1> QED
  BY <1>3, <1>4, <1>5 DEF Home, TablesHome

LEMMA SomeMoves ==
  ASSUME TypeInv, NEW c \in LoginCalls, NEW at, Moves(c, at)
  PROVE  /\ loginCall'[c] = [loginCall[c] EXCEPT !.at = at]
         /\ loginCall'[c].at = at /\ loginCall'[c].address = loginCall[c].address
         /\ loginCall'[c].user = loginCall[c].user /\ loginCall'[c].primary = loginCall[c].primary
         /\ \A d \in LoginCalls \ {c} : loginCall'[d] = loginCall[d]
BY DEF Moves, TypeInv, LoginTypeOK, LoginRecord

LEMMA StopHome ==
  ASSUME TypeInv, NEW c \in LoginCalls, Stops(c), NEW a \in Addresses
  PROVE  CallsHome(a)
<1>1. /\ loginCall'[c].at = "idle" /\ loginCall'[c].address = NoAddress
      /\ \A d \in LoginCalls \ {c} : loginCall'[d] = loginCall[d]
  BY DEF Stops, LoginIdle, TypeInv, LoginTypeOK
<1>2. ~Binds(loginCall'[c]) /\ loginCall'[c].address # a
  BY <1>1, LoginAssumption DEF Binds, Binding, LoginAssumption
<1> QED
  BY <1>1, <1>2 DEF CallsHome

\* A login goes on: of another address, or to its first access.
LEMMA LoginMovesHome ==
  ASSUME TypeInv, NEW c \in LoginCalls, loginCall[c].at \in LoggingIn, NEW at \in LoggingIn, Moves(c, at),
         NEW a \in Addresses, loginCall[c].address # a \/ at = "clear"
  PROVE  CallsHome(a)
<1>1. /\ loginCall'[c].at = at /\ loginCall'[c].address = loginCall[c].address
      /\ \A d \in LoginCalls \ {c} : loginCall'[d] = loginCall[d]
  BY SomeMoves
<1>2. ~Binds(loginCall'[c]) /\ at \notin Binding
  BY <1>1 DEF Binds, Binding, LoggingIn
<1>3. loginCall[c].at # "idle"
  BY DEF LoggingIn
<1> QED
  BY <1>1, <1>2, <1>3 DEF CallsHome

\* A binding goes on after it has bound.
LEMMA BindMovesHome ==
  ASSUME TypeInv, NEW c \in LoginCalls, Bound(loginCall[c]), NEW at \in {"rotate", "cleanup"}, Moves(c, at),
         NEW a \in Addresses
  PROVE  CallsHome(a)
<1>1. /\ loginCall'[c].at = at /\ loginCall'[c].address = loginCall[c].address
      /\ loginCall'[c].user = loginCall[c].user
      /\ \A d \in LoginCalls \ {c} : loginCall'[d] = loginCall[d]
  BY SomeMoves
<1>2. /\ loginCall[c].at \in {"mirror", "rotate", "cleanup"} /\ loginCall[c].at \in Binding
      /\ at \notin LoggingIn
  BY DEF Bound, Binding, LoggingIn
<1> QED
  BY <1>1, <1>2 DEF CallsHome, Binds

\* A login of this address goes on.
LEMMA OwnMovesHome ==
  ASSUME TypeInv, NEW a \in Addresses, Home(a), NEW c \in LoginCalls, loginCall[c].at \in LoggingIn,
         loginCall[c].address = a, NEW at \in {"claim", "own", "session"}, Moves(c, at),
         UNCHANGED sessions, TablesHome(a),
         at = "claim" => Having(a)' \subseteq {Wallet(a)},
         at \in {"own", "session"} => RowHome(a)',
         at = "session" => WalletHome(a)'
  PROVE  Home(a)'
<1>1. /\ loginCall'[c].at = at
      /\ \A d \in LoginCalls \ {c} : loginCall'[d] = loginCall[d]
  BY SomeMoves
<1>2. Busy(a, LoggingIn) /\ ~Busy(a, Binding)
  BY DEF Home, Apart, Busy, Steps
<1>3. ~Busy(a, Binding)' /\ ~Busy(a, {"mirror", "rotate", "cleanup"})'
  BY <1>1, <1>2 DEF Busy, Steps, Binding
<1>4. /\ Busy(a, {"claim"})' => Busy(a, {"claim"}) \/ at = "claim"
      /\ Busy(a, {"own", "session"})' => Busy(a, {"own", "session"}) \/ at \in {"own", "session"}
      /\ Busy(a, {"session"})' => Busy(a, {"session"}) \/ at = "session"
  BY <1>1 DEF Busy, Steps
<1>5. BindsMinor(a)'
  <2>1. ~Binds(loginCall'[c])
    BY <1>1 DEF Binds, Binding
  <2> QED
    BY <1>1, <2>1 DEF Home, BindsMinor
<1> QED
  BY <1>3, <1>4, <1>5 DEF Home, Apart, TablesHome

-----------------------------------------------------------------------------
LEMMA TablesStay ==
  ASSUME UNCHANGED <<users, wallets>>, NEW a \in Addresses
  PROVE  TablesHome(a)
BY DEF TablesHome, Having, HasRow, RowHome, WalletHome, OthersMinor

\* A nonce is written by id.
LEMMA NonceHome ==
  ASSUME TypeInv, NEW u \in UserIds, NEW n \in NonceNo \cup {NullNonce, HiddenNonce},
         PutNonce(u, n), UNCHANGED wallets, NEW a \in Addresses
  PROVE  TablesHome(a)
<1>1. RowOf(u) \in User /\ users'[u] = [RowOf(u) EXCEPT !.nonce = n]
  BY RowTyped DEF PutNonce, TypeInv, LoginTypeOK
<1>2. users'[u].address = RowOf(u).address
  BY <1>1 DEF User
<1>0. users'[u] # NoUser
  BY <1>1, LoginAssumption DEF User, LoginAssumption
<1>3. \A v \in UserIds \ {u} : users'[v] = users[v]
  BY DEF PutNonce, TypeInv, LoginTypeOK
<1>4. users'[u].address = a => HasRow(u) /\ users[u].address = a
  BY <1>2, LoginAssumption DEF RowOf, LoginAssumption
<1>5. Having(a)' \subseteq Having(a)
  BY <1>3, <1>4 DEF Having, HasRow
<1>6. ASSUME RowHome(a)
      PROVE  RowHome(a)'
  <2>1. CASE u = Wallet(a)
    <3>0. users'[u] # NoUser
      BY <1>0
    <3>1. users'[u].address = a
      BY <1>2, <1>6, <2>1 DEF RowHome, RowOf
    <3> QED
      BY <2>1, <3>0, <3>1 DEF RowHome, HasRow
  <2>2. CASE u # Wallet(a)
    BY <1>3, <1>6, <2>2, IdsTyped DEF RowHome, HasRow
  <2> QED
    BY <2>1, <2>2
<1> QED
  BY <1>5, <1>6 DEF TablesHome, WalletHome, OthersMinor

\* A row is made only for an address that has none.
LEMMA MadeHome ==
  ASSUME TypeInv, NEW b \in Addresses, NEW n, Having(b) = {},
         users' = [users EXCEPT ![Temp(b)] = [address |-> b, nonce |-> n]],
         UNCHANGED <<wallets, loginCall, sessions>>,
         NEW a \in Addresses, Home(a), a = b => ~Busy(a, LoggingIn)
  PROVE  Home(a)'
<1>1. Temp(b) \in UserIds /\ Wallet(a) \in UserIds /\ Wallet(a) # Temp(b)
  BY IdsTyped, IdsDiffer
<1>2. RowHome(a) => RowHome(a)'
  BY <1>1 DEF RowHome, HasRow, TypeInv, LoginTypeOK
<1>3. a # b => Having(a)' \subseteq Having(a)
  BY <1>1 DEF Having, HasRow, TypeInv, LoginTypeOK
<1>4. a = b => ~Busy(a, {"claim"})
  BY DEF Busy, Steps, LoggingIn
<1>5. TablesHome(a)
  BY <1>1, <1>2, <1>3, <1>4 DEF TablesHome, WalletHome, OthersMinor
<1>6. CallsHome(a)
  BY DEF CallsHome
<1> QED
  BY <1>5, <1>6, HomeKept

LEMMA CreateHome ==
  ASSUME TypeInv, NEW b \in Addresses, CreateAccount(b), NEW a \in Addresses \ troubled', Home(a)
  PROVE  Home(a)'
<1>1. a = b => ~Busy(a, LoggingIn)
  BY DEF CreateAccount
<1> QED
  BY <1>1, MadeHome DEF CreateAccount

\* A nonce is written by address.
LEMMA IssueHome ==
  ASSUME TypeInv, NEW b \in Addresses, IssueLoginNonce(b), NEW a \in Addresses \ troubled', Home(a)
  PROVE  Home(a)'
<1>1. UNCHANGED <<wallets, loginCall, sessions>>
  BY DEF IssueLoginNonce
<1>2. Wallet(a) \in UserIds
  BY IdsTyped
<1>3. CASE Having(b) # {}
  <2>1. \A u \in UserIds : /\ HasRow(u)' <=> HasRow(u)
                           /\ HasRow(u) => users'[u].address = users[u].address
    <3> SUFFICES ASSUME NEW u \in UserIds
                 PROVE  /\ users'[u] # NoUser <=> users[u] # NoUser
                        /\ users[u] # NoUser => users'[u].address = users[u].address
      BY DEF HasRow
    <3>1. CASE u \in Having(b)
      <4>1. users[u] \in User /\ users[u] # NoUser
        BY <3>1 DEF Having, HasRow, TypeInv, LoginTypeOK
      <4>2. users'[u] = [users[u] EXCEPT !.nonce = nonces']
        BY <1>3, <3>1 DEF IssueLoginNonce
      <4>3. users'[u].address = users[u].address
        BY <4>1, <4>2 DEF User
      <4>4. nonces' \in NonceNo
        BY LoginAssumption DEF LoginAssumption, IssueLoginNonce, GivesNonce, TypeInv, LoginTypeOK, NonceNo
      <4>5. users'[u] \in User
        BY <4>1, <4>2, <4>4 DEF User
      <4>6. users'[u] # NoUser
        BY <4>5, LoginAssumption DEF LoginAssumption
      <4> QED
        BY <4>1, <4>3, <4>6
    <3>2. CASE u \notin Having(b)
      BY <1>3, <3>2 DEF IssueLoginNonce
    <3> QED
      BY <3>1, <3>2
  <2>2. Having(a)' \subseteq Having(a) /\ (RowHome(a) => RowHome(a)')
    BY <1>2, <2>1 DEF Having, RowHome
  <2>3. TablesHome(a)
    BY <1>1, <2>2 DEF TablesHome, WalletHome, OthersMinor
  <2>4. CallsHome(a)
    BY <1>1 DEF CallsHome
  <2> QED
    BY <1>1, <2>3, <2>4, HomeKept
<1>4. CASE Having(b) = {}
  <2>1. a = b => ~Busy(a, LoggingIn)
    BY DEF IssueLoginNonce
  <2> QED
    BY <1>4, <2>1, MadeHome DEF IssueLoginNonce
<1> QED
  BY <1>3, <1>4

\* A login clears, claims and owns: for its address and for the others.
LEMMA ClearHome ==
  ASSUME TypeInv, NEW c \in LoginCalls, Clear(c), NEW a \in Addresses, Home(a)
  PROVE  Home(a)'
<1> DEFINE b == loginCall[c].address
<1> DEFINE gone == Stale(b)
<1>1. /\ loginCall[c].at = "clear" /\ loginCall[c].at \in LoggingIn
      /\ users' = [u \in UserIds |-> IF u \in gone THEN NoUser ELSE users[u]]
      /\ wallets' = [x \in Addresses |-> IF x \in UNION {OwnedBy(u) : u \in gone} THEN NoWallet ELSE wallets[x]]
      /\ Moves(c, "claim") /\ UNCHANGED sessions
  BY DEF Clear, LoggingIn
<1>2. Wallet(a) \in UserIds
  BY IdsTyped
<1>3. Having(a)' \subseteq Having(a)
  BY <1>1 DEF Having, HasRow
<1>4. RowHome(a) => Wallet(a) \notin gone
  BY DEF RowHome, Stale, Having
<1>5. RowHome(a) => RowHome(a)'
  BY <1>1, <1>2, <1>4 DEF RowHome, HasRow
<1>6. RowHome(a) /\ WalletHome(a) => WalletHome(a)'
  <2> SUFFICES ASSUME RowHome(a), WalletHome(a)
               PROVE  WalletHome(a)'
    OBVIOUS
  <2>1. \A u \in gone : a \notin OwnedBy(u)
    BY <1>4 DEF OwnedBy, WalletHome
  <2>2. wallets'[a] = wallets[a]
    BY <1>1, <2>1
  <2> QED
    BY <2>2 DEF WalletHome
<1>7. OthersMinor(a) => OthersMinor(a)'
  BY <1>1 DEF OthersMinor
<1>8. TablesHome(a)
  <2>1. a \in sessions \/ Busy(a, {"session"}) => RowHome(a)
    BY DEF Home, Busy, Steps
  <2> HIDE DEF gone
  <2> QED
    BY <1>3, <1>5, <1>6, <1>7, <2>1 DEF TablesHome
<1>9. CASE b # a
  <2>1. CallsHome(a)
    BY <1>1, <1>9, LoginMovesHome DEF LoggingIn
  <2> QED
    BY <1>1, <1>8, <2>1, HomeKept
<1>10. CASE b = a
  <2>1. Having(a)' \subseteq {Wallet(a)}
    BY <1>1, <1>10 DEF Having, HasRow, Stale
  <2> QED
    BY <1>1, <1>8, <1>10, <2>1, OwnMovesHome
<1> QED
  BY <1>9, <1>10

LEMMA ClaimHome ==
  ASSUME TypeInv, NEW c \in LoginCalls, Claim(c), NEW a \in Addresses, Home(a)
  PROVE  Home(a)'
<1>0. PICK b : b = loginCall[c].address
  OBVIOUS
<1>1. /\ loginCall[c].at = "claim" /\ loginCall[c].at \in LoggingIn
      /\ Moves(c, "own") /\ UNCHANGED <<wallets, sessions>>
      /\ IF Having(b) \subseteq {Wallet(b)} THEN PutAddress(Wallet(b), b) ELSE UNCHANGED users
  BY <1>0 DEF Claim, LoggingIn
<1>2. Wallet(a) \in UserIds /\ b \in Addresses /\ Wallet(b) \in UserIds
  BY <1>0, <1>1, IdsTyped DEF TypeInv, CallsFull
<1>3. CASE ~(Having(b) \subseteq {Wallet(b)})
  <2>1. UNCHANGED users
    BY <1>1, <1>3
  <2>2. b # a
    BY <1>0, <1>1, <1>3 DEF Home, Busy, Steps
  <2>3. CallsHome(a) /\ TablesHome(a)
    BY <1>0, <1>1, <2>1, <2>2, LoginMovesHome, TablesStay DEF LoggingIn
  <2> QED
    BY <1>1, <2>3, HomeKept
<1>4. CASE Having(b) \subseteq {Wallet(b)}
  <2>1. RowOf(Wallet(b)) \in User /\ PutAddress(Wallet(b), b)
    BY <1>1, <1>2, <1>4, RowTyped
  <2>2. /\ users'[Wallet(b)] = [RowOf(Wallet(b)) EXCEPT !.address = b]
        /\ \A v \in UserIds \ {Wallet(b)} : users'[v] = users[v]
    BY <1>2, <2>1 DEF PutAddress, TypeInv, LoginTypeOK
  <2>3. users'[Wallet(b)] \in User /\ users'[Wallet(b)].address = b
    BY <1>2, <2>1, <2>2 DEF User
  <2>4. users'[Wallet(b)] # NoUser
    BY <2>3, LoginAssumption DEF LoginAssumption
  <2>5. RowHome(b)'
    BY <2>3, <2>4 DEF RowHome, HasRow
  <2>6. CASE b = a
    <3>1. Having(a)' \subseteq Having(a) \cup {Wallet(a)}
      BY <1>2, <2>2, <2>6 DEF Having, HasRow
    <3>2. RowHome(a)'
      BY <2>5, <2>6
    <3>3. TablesHome(a)
      BY <1>1, <3>1, <3>2 DEF TablesHome, WalletHome, OthersMinor
    <3> QED
      BY <1>0, <1>1, <2>6, <3>2, <3>3, OwnMovesHome
  <2>7. CASE b # a
    <3>1. Wallet(a) # Wallet(b)
      BY <2>7, IdsDiffer
    <3>2. Having(a)' \subseteq Having(a)
      BY <2>2, <2>3, <2>7 DEF Having, HasRow
    <3>3. RowHome(a) => RowHome(a)'
      BY <1>2, <2>2, <3>1 DEF RowHome, HasRow
    <3>4. TablesHome(a)
      BY <1>1, <3>2, <3>3 DEF TablesHome, WalletHome, OthersMinor
    <3>5. CallsHome(a)
      BY <1>0, <1>1, <2>7, LoginMovesHome DEF LoggingIn
    <3> QED
      BY <1>1, <3>4, <3>5, HomeKept
  <2> QED
    BY <2>6, <2>7
<1> QED
  BY <1>3, <1>4

LEMMA OwnHome ==
  ASSUME TypeInv, NEW c \in LoginCalls, Own(c), NEW a \in Addresses, Home(a)
  PROVE  Home(a)'
<1> DEFINE b == loginCall[c].address
<1> DEFINE row == [user |-> Wallet(b), primary |-> TRUE,
                   made |-> IF wallets[b] = NoWallet THEN "login" ELSE wallets[b].made]
<1>1. /\ loginCall[c].at = "own" /\ loginCall[c].at \in LoggingIn
      /\ Moves(c, "session") /\ UNCHANGED <<users, sessions>>
      /\ wallets' = IF HasRow(Wallet(b)) /\ PrimaryIsFree(Wallet(b), b)
                    THEN [wallets EXCEPT ![b] = row] ELSE wallets
  BY DEF Own, LoggingIn
<1>2. b \in Addresses
  BY <1>1 DEF TypeInv, CallsFull
<1>3. row \in WalletRow /\ row.user = Wallet(b) /\ row.primary /\ row # NoWallet
  <2>1. row \in WalletRow
    BY <1>2, IdsTyped DEF WalletRow, TypeInv, LoginTypeOK
  <2> QED
    BY <2>1, LoginAssumption DEF LoginAssumption
<1> HIDE DEF row
<1>4. CASE b = a
  <2>1. HasRow(Wallet(a)) /\ RowHome(a) /\ OthersMinor(a)
    BY <1>1, <1>4 DEF Home, Busy, Steps, RowHome
  <2>2. PrimaryIsFree(Wallet(a), a)
    BY <2>1 DEF PrimaryIsFree, OwnedBy, OthersMinor
  <2>3. wallets' = [wallets EXCEPT ![a] = row]
    BY <1>1, <1>4, <2>1, <2>2
  <2>4. wallets'[a] = row /\ \A x \in Addresses \ {a} : wallets'[x] = wallets[x]
    BY <2>3 DEF TypeInv, LoginTypeOK
  <2>5. WalletHome(a)'
    BY <1>3, <1>4, <2>4 DEF WalletHome
  <2>6. OthersMinor(a)' /\ RowHome(a)' /\ Having(a)' = Having(a)
    BY <1>1, <2>1, <2>4 DEF OthersMinor, RowHome, HasRow, Having
  <2>7. TablesHome(a)
    BY <2>5, <2>6 DEF TablesHome
  <2> QED
    BY <1>1, <1>4, <2>5, <2>6, <2>7, OwnMovesHome
<1>5. CASE b # a
  <2>1. CallsHome(a)
    BY <1>1, <1>5, LoginMovesHome DEF LoggingIn
  <2>2. \A x \in Addresses : wallets'[x] = wallets[x] \/ (x = b /\ wallets'[x] = row)
    <3>1. CASE wallets' = wallets
      BY <3>1
    <3>2. CASE wallets' = [wallets EXCEPT ![b] = row]
      BY <1>2, <3>2 DEF TypeInv, LoginTypeOK
    <3> QED
      BY <1>1, <3>1, <3>2
  <2>3. Wallet(b) # Wallet(a)
    BY <1>5, IdsDiffer
  <2>4. OthersMinor(a) => OthersMinor(a)'
    BY <1>3, <2>2, <2>3 DEF OthersMinor
  <2>5. TablesHome(a)
    BY <1>1, <1>5, <2>2, <2>4 DEF TablesHome, Having, HasRow, RowHome, WalletHome
  <2> QED
    BY <1>1, <2>1, <2>5, HomeKept
<1> QED
  BY <1>4, <1>5

LEMMA SessionHome ==
  ASSUME TypeInv, NEW c \in LoginCalls, OpenSession(c), NEW a \in Addresses, Home(a)
  PROVE  Home(a)'
<1>1. /\ loginCall[c].at = "session" /\ Stops(c) /\ UNCHANGED <<users, wallets>>
      /\ sessions' = sessions \cup {loginCall[c].address}
  BY DEF OpenSession
<1>2. /\ loginCall'[c].at = "idle" /\ loginCall'[c].address = NoAddress
      /\ \A d \in LoginCalls \ {c} : loginCall'[d] = loginCall[d]
  BY <1>1 DEF Stops, LoginIdle, TypeInv, LoginTypeOK
<1>3. /\ Busy(a, LoggingIn)' => Busy(a, LoggingIn)
      /\ Busy(a, Binding)' => Busy(a, Binding)
      /\ Busy(a, {"claim"})' => Busy(a, {"claim"})
      /\ Busy(a, {"own", "session"})' => Busy(a, {"own", "session"})
      /\ Busy(a, {"session"})' => Busy(a, {"session"})
      /\ Busy(a, {"mirror", "rotate", "cleanup"})' => Busy(a, {"mirror", "rotate", "cleanup"})
  BY <1>2, LoginAssumption DEF Busy, Steps, LoginAssumption
<1>4. loginCall[c].address = a =>
        /\ Busy(a, {"own", "session"}) /\ Busy(a, {"session"})
        /\ ~Busy(a, {"mirror", "rotate", "cleanup"})
  BY <1>1 DEF Home, Apart, Busy, Steps, LoggingIn, Binding
<1>5. a \in sessions' => a \in sessions \/ loginCall[c].address = a
  BY <1>1
<1>6. ~Binds(loginCall'[c])
  BY <1>2 DEF Binds, Binding
<1>7. BindsMinor(a)'
  BY <1>1, <1>2, <1>6 DEF Home, BindsMinor
<1>8. /\ RowHome(a) => RowHome(a)'
      /\ WalletHome(a) => WalletHome(a)'
      /\ OthersMinor(a) => OthersMinor(a)'
      /\ Having(a)' = Having(a)
  BY <1>1 DEF RowHome, HasRow, WalletHome, OthersMinor, Having
<1>9. Apart(a)'
  BY <1>3 DEF Home, Apart
<1> QED
  BY <1>3, <1>4, <1>5, <1>7, <1>8, <1>9 DEF Home

-----------------------------------------------------------------------------
\* A binding counts its wallets, inserts one, mirrors it, rotates and cleans up.
LEMMA CountHome ==
  ASSUME TypeInv, NEW c \in LoginCalls, CountWallets(c), NEW a \in Addresses, Home(a)
  PROVE  Home(a)'
<1>1. /\ loginCall[c].at = "count" /\ UNCHANGED <<users, wallets, sessions>>
      /\ loginCall' = [loginCall EXCEPT ![c].at = "insert", ![c].primary = OwnedBy(loginCall[c].user) = {}]
  BY DEF CountWallets
<1>2. PICK none : none = (OwnedBy(loginCall[c].user) = {})
  OBVIOUS
<1>3. /\ loginCall'[c].at = "insert" /\ loginCall'[c].address = loginCall[c].address
      /\ loginCall'[c].user = loginCall[c].user /\ loginCall'[c].primary = none
      /\ \A d \in LoginCalls \ {c} : loginCall'[d] = loginCall[d]
  BY <1>1, <1>2 DEF TypeInv, LoginTypeOK, LoginRecord
<1>4. /\ Busy(a, LoggingIn)' => Busy(a, LoggingIn)
      /\ Busy(a, Binding)' => Busy(a, Binding)
      /\ Busy(a, {"claim"})' => Busy(a, {"claim"})
      /\ Busy(a, {"own", "session"})' => Busy(a, {"own", "session"})
      /\ Busy(a, {"session"})' => Busy(a, {"session"})
      /\ Busy(a, {"mirror", "rotate", "cleanup"})' => Busy(a, {"mirror", "rotate", "cleanup"})
  BY <1>1, <1>3 DEF Busy, Steps, LoggingIn, Binding
<1>5. loginCall[c].user = Wallet(a) => a \in sessions /\ ~none
  <2> SUFFICES ASSUME loginCall[c].user = Wallet(a)
               PROVE  a \in sessions /\ ~none
    OBVIOUS
  <2>1. a \in sessions
    BY <1>1 DEF Home, BindsMinor, Binds, Binding
  <2>2. a \in OwnedBy(loginCall[c].user)
    BY <2>1 DEF Home, WalletHome, OwnedBy
  <2> QED
    BY <1>2, <2>1, <2>2
<1>6. BindsMinor(a)'
  BY <1>1, <1>3, <1>5 DEF Home, BindsMinor
<1>7. /\ RowHome(a) => RowHome(a)'
      /\ WalletHome(a) => WalletHome(a)'
      /\ OthersMinor(a) => OthersMinor(a)'
      /\ Having(a)' = Having(a)
  BY <1>1 DEF RowHome, HasRow, WalletHome, OthersMinor, Having
<1>8. Apart(a)'
  BY <1>4 DEF Home, Apart
<1> QED
  BY <1>1, <1>4, <1>6, <1>7, <1>8 DEF Home

LEMMA InsertHome ==
  ASSUME TypeInv, NEW c \in LoginCalls, InsertWallet(c), NEW a \in Addresses, Home(a)
  PROVE  Home(a)'
<1>0. PICK b : b = loginCall[c].address
  OBVIOUS
<1>1. loginCall[c].at = "insert" /\ UNCHANGED <<users, sessions>> /\ b \in Addresses
  BY <1>0 DEF InsertWallet, TypeInv, CallsFull
<1>2. CASE Stops(c) /\ UNCHANGED wallets
  <2>1. CallsHome(a) /\ TablesHome(a)
    BY <1>1, <1>2, StopHome, TablesStay
  <2> QED
    BY <1>1, <2>1, HomeKept
<1>3. CASE /\ wallets[b] = NoWallet /\ Moves(c, IF loginCall[c].primary THEN "mirror" ELSE "rotate")
           /\ wallets' = [wallets EXCEPT ![b] =
                           [user |-> loginCall[c].user, primary |-> loginCall[c].primary, made |-> c]]
  <2>1. PICK at : at = IF loginCall[c].primary THEN "mirror" ELSE "rotate"
    OBVIOUS
  <2>2. /\ loginCall'[c].at = at /\ loginCall'[c].address = b
        /\ loginCall'[c].user = loginCall[c].user
        /\ \A d \in LoginCalls \ {c} : loginCall'[d] = loginCall[d]
    BY <1>0, <1>3, <2>1, SomeMoves
  <2>3. /\ wallets'[b].user = loginCall[c].user /\ wallets'[b].primary = loginCall[c].primary
        /\ \A x \in Addresses \ {b} : wallets'[x] = wallets[x]
    BY <1>1, <1>3 DEF TypeInv, LoginTypeOK
  <2>4. at \in {"mirror", "rotate"}
    BY <2>1
  <2>5. /\ Busy(a, LoggingIn)' => Busy(a, LoggingIn)
        /\ Busy(a, Binding)' => Busy(a, Binding)
        /\ Busy(a, {"claim"})' => Busy(a, {"claim"})
        /\ Busy(a, {"own", "session"})' => Busy(a, {"own", "session"})
        /\ Busy(a, {"session"})' => Busy(a, {"session"})
        /\ Busy(a, {"mirror", "rotate", "cleanup"})' => Busy(a, {"mirror", "rotate", "cleanup"}) \/ a = b
    BY <1>0, <1>1, <2>2, <2>4 DEF Busy, Steps, LoggingIn, Binding
  <2>6. a = b => a \notin sessions /\ ~Busy(a, {"session"})
    BY <1>3 DEF Home, WalletHome
  <2>7. loginCall[c].user = Wallet(a) => a \in sessions /\ ~loginCall[c].primary
    BY <1>1 DEF Home, BindsMinor, Binds, Binding
  <2>8. BindsMinor(a)'
    BY <1>1, <2>1, <2>2, <2>4, <2>7 DEF Home, BindsMinor
  <2>9. OthersMinor(a)'
    BY <2>3, <2>7 DEF Home, OthersMinor
  <2>10. /\ RowHome(a) => RowHome(a)'
         /\ a # b /\ WalletHome(a) => WalletHome(a)'
         /\ Having(a)' = Having(a)
    BY <1>1, <2>3 DEF RowHome, HasRow, WalletHome, Having
  <2>11. Apart(a)'
    BY <2>5 DEF Home, Apart
  <2> QED
    BY <1>1, <2>5, <2>6, <2>8, <2>9, <2>10, <2>11 DEF Home
<1> QED
  BY <1>0, <1>2, <1>3 DEF InsertWallet

LEMMA MirrorHome ==
  ASSUME TypeInv, NEW c \in LoginCalls, Mirror(c), NEW a \in Addresses, Home(a)
  PROVE  Home(a)'
<1> DEFINE k == loginCall[c]
<1>1. /\ k.at = "mirror" /\ Moves(c, "rotate") /\ UNCHANGED <<wallets, sessions>>
      /\ users' = IF HasRow(k.user) /\ Having(k.address) = {}
                  THEN [users EXCEPT ![k.user].address = k.address] ELSE users
  BY DEF Mirror
<1>2. Bound(k) /\ Binds(k) /\ k.user \in UserIds /\ Wallet(a) \in UserIds
  BY <1>1, IdsTyped DEF Bound, Binds, Binding, TypeInv, CallsFull
<1>3. CallsHome(a)
  BY <1>1, <1>2, BindMovesHome
<1>4. k.user # Wallet(a)
  BY <1>1, <1>2 DEF Home, BindsMinor
<1>5. k.address = a => ~Busy(a, {"claim"})
  BY <1>1 DEF Home, Apart, Busy, Steps, Binding, LoggingIn
<1>6. CASE users' = users
  BY <1>1, <1>3, <1>6, TablesStay, HomeKept
<1>7. CASE HasRow(k.user) /\ users' = [users EXCEPT ![k.user].address = k.address]
  <2>1. users[k.user] \in User
    BY <1>2, <1>7 DEF HasRow, TypeInv, LoginTypeOK
  <2>2. /\ users'[k.user].address = k.address
        /\ \A u \in UserIds \ {k.user} : users'[u] = users[u]
    BY <1>2, <1>7, <2>1 DEF User, TypeInv, LoginTypeOK
  <2>3. RowHome(a) => RowHome(a)'
    BY <1>2, <1>4, <2>2 DEF RowHome, HasRow
  <2>4. k.address # a => Having(a)' \subseteq Having(a)
    BY <2>2 DEF Having, HasRow
  <2>5. TablesHome(a)
    BY <1>1, <1>5, <2>3, <2>4 DEF TablesHome, WalletHome, OthersMinor
  <2> QED
    BY <1>1, <1>3, <2>5, HomeKept
<1> QED
  BY <1>1, <1>6, <1>7

LEMMA RotateHome ==
  ASSUME TypeInv, NEW c \in LoginCalls, Rotate(c), NEW a \in Addresses, Home(a)
  PROVE  Home(a)'
<1> DEFINE u == loginCall[c].user
<1>1. /\ loginCall[c].at = "rotate" /\ Stops(c) /\ UNCHANGED <<wallets, sessions>>
      /\ users' = IF HasRow(u) THEN [users EXCEPT ![u] = Rotated(@)] ELSE users
  BY DEF Rotate
<1>2. u \in UserIds
  BY <1>1 DEF TypeInv, CallsFull
<1>3. CASE users' = users
  <2>1. TablesHome(a)
    BY <1>1, <1>3, TablesStay
  <2> QED
    BY <1>1, <2>1, StopHome, HomeKept
<1>4. CASE HasRow(u) /\ users' = [users EXCEPT ![u] = Rotated(@)]
  <2>1. HiddenNonce \in NonceNo \cup {NullNonce, HiddenNonce} /\ RowOf(u) = users[u]
    BY <1>4 DEF RowOf
  <2>2. PutNonce(u, HiddenNonce)
    BY <1>2, <1>4, <2>1 DEF PutNonce, Rotated, TypeInv, LoginTypeOK
  <2>3. TablesHome(a)
    BY <1>1, <1>2, <2>1, <2>2, NonceHome
  <2> QED
    BY <1>1, <2>3, StopHome, HomeKept
<1> QED
  BY <1>1, <1>3, <1>4

LEMMA CleanupHome ==
  ASSUME TypeInv, NEW c \in LoginCalls, Cleanup(c), NEW a \in Addresses, Home(a)
  PROVE  Home(a)'
<1> DEFINE b == loginCall[c].address
<1>1. /\ loginCall[c].at = "cleanup" /\ Stops(c) /\ UNCHANGED <<users, sessions>>
      /\ wallets' = wallets \/ wallets' = [wallets EXCEPT ![b] = NoWallet]
  BY DEF Cleanup
<1>2. a = b => a \notin sessions /\ ~Busy(a, {"session"})
  BY <1>1 DEF Home, Apart, Busy, Steps, Binding, LoggingIn
<1>3. \A x \in Addresses : wallets'[x] = wallets[x] \/ (x = b /\ wallets'[x] = NoWallet)
  BY <1>1 DEF TypeInv, LoginTypeOK
<1>4. /\ a # b /\ WalletHome(a) => WalletHome(a)'
      /\ OthersMinor(a) => OthersMinor(a)'
  BY <1>3 DEF WalletHome, OthersMinor
<1>5. TablesHome(a)
  BY <1>1, <1>2, <1>4 DEF TablesHome, RowHome, HasRow, Having
<1> QED
  BY <1>1, <1>5, StopHome, HomeKept

-----------------------------------------------------------------------------
\* A login starts, or a binding, for an address that no call of the other kind
\* has: else it is troubled.
LEMMA StartHome ==
  ASSUME TypeInv, NEW c \in LoginCalls, loginCall[c].at = "idle", NEW at \in {"consume", "count"},
         NEW u \in UserIds, NEW b \in Addresses, Starts(c, at, u, b), UNCHANGED <<users, wallets, sessions>>,
         NEW a \in Addresses, Home(a),
         a = b /\ at = "consume" => ~Busy(a, Binding),
         a = b /\ at = "count" => ~Busy(a, LoggingIn),
         at = "count" /\ u = Wallet(a) => a \in sessions
  PROVE  Home(a)'
<1>1. /\ loginCall'[c].at = at /\ loginCall'[c].address = b /\ loginCall'[c].user = u
      /\ \A d \in LoginCalls \ {c} : loginCall'[d] = loginCall[d]
  <2> DEFINE k == [LoginIdle EXCEPT !.at = at, !.address = b, !.user = u, !.nonce = users[u].nonce]
  <2>1. k.at = at /\ k.address = b /\ k.user = u
    BY DEF LoginIdle
  <2>2. loginCall' = [loginCall EXCEPT ![c] = k]
    BY DEF Starts
  <2> HIDE DEF k
  <2> QED
    BY <2>1, <2>2 DEF TypeInv, LoginTypeOK
<1>2. /\ Busy(a, LoggingIn)' => Busy(a, LoggingIn) \/ (a = b /\ at = "consume")
      /\ Busy(a, Binding)' => Busy(a, Binding) \/ (a = b /\ at = "count")
      /\ Busy(a, {"claim"})' => Busy(a, {"claim"})
      /\ Busy(a, {"own", "session"})' => Busy(a, {"own", "session"})
      /\ Busy(a, {"session"})' => Busy(a, {"session"})
      /\ Busy(a, {"mirror", "rotate", "cleanup"})' => Busy(a, {"mirror", "rotate", "cleanup"})
  BY <1>1 DEF Busy, Steps, LoggingIn, Binding
<1>3. Apart(a)'
  BY <1>2 DEF Home, Apart
<1>4. BindsMinor(a)'
  <2>1. Binds(loginCall'[c]) => at = "count"
    BY <1>1 DEF Binds, Binding
  <2> QED
    BY <1>1, <2>1 DEF Home, BindsMinor
<1>5. /\ RowHome(a) => RowHome(a)'
      /\ WalletHome(a) => WalletHome(a)'
      /\ OthersMinor(a) => OthersMinor(a)'
      /\ Having(a)' = Having(a)
  BY DEF RowHome, HasRow, WalletHome, OthersMinor, Having
<1> QED
  BY <1>2, <1>3, <1>4, <1>5 DEF Home

\* Every step keeps Home, for the addresses that are not troubled after it.
LEMMA HomeStep ==
  ASSUME TypeInv, AtHome, [LoginNext]_loginVars
  PROVE  AtHome'
<1>1. troubled \subseteq troubled'
  BY DEF LoginNext, LoginStep, loginVars, CreateAccount, IssueLoginNonce, Login, IssueBindNonce, Bind, Consume,
         Clear, Claim, Own, OpenSession, CountWallets, InsertWallet, Mirror, Rotate, Cleanup, LoginIgnores, RotateFails,
         LoginDies
<1> SUFFICES ASSUME NEW a \in Addresses, a \notin troubled'
             PROVE  Home(a)'
  BY DEF AtHome
<1>2. a \notin troubled /\ Home(a)
  BY <1>1 DEF AtHome
<1>3. CASE UNCHANGED loginVars
  <2>1. CallsHome(a) /\ TablesHome(a) /\ UNCHANGED sessions
    BY <1>3, TablesStay DEF loginVars, CallsHome
  <2> QED
    BY <1>2, <2>1, HomeKept
<1>4. ASSUME NEW b \in Addresses, IssueLoginNonce(b)
      PROVE  Home(a)'
  BY <1>2, <1>4, IssueHome
<1>5. ASSUME NEW u \in Members, IssueBindNonce(u)
      PROVE  Home(a)'
  <2>1. u \in UserIds
    BY IdsTyped DEF Members, TypeInv, LoginTypeOK
  <2>2. nonces' \in NonceNo \cup {NullNonce, HiddenNonce}
    BY <1>5, LoginAssumption DEF LoginAssumption, IssueBindNonce, GivesNonce, TypeInv, LoginTypeOK, NonceNo
  <2>3. PICK n \in NonceNo \cup {NullNonce, HiddenNonce} : n = nonces'
    BY <2>2
  <2>4. PutNonce(u, n) /\ UNCHANGED <<wallets, loginCall, sessions>>
    BY <1>5, <2>3 DEF IssueBindNonce
  <2>5. TablesHome(a) /\ CallsHome(a)
    BY <2>1, <2>4, NonceHome DEF CallsHome
  <2> QED
    BY <1>2, <2>4, <2>5, HomeKept
<1>6. ASSUME NEW b \in Addresses, NEW c \in LoginCalls, Login(c, b)
      PROVE  Home(a)'
  <2>1. PICK u \in UserIds : Starts(c, "consume", u, b)
    BY <1>6 DEF Login, Having
  <2>2. a = b => ~Busy(a, Binding)
    BY <1>6 DEF Login
  <2>3. loginCall[c].at = "idle" /\ UNCHANGED <<users, wallets, sessions>>
    BY <1>6 DEF Login
  <2> QED
    BY <1>2, <2>1, <2>2, <2>3, StartHome
<1>7. ASSUME NEW u \in Members, NEW c \in LoginCalls, NEW b \in Addresses, Bind(c, u, b)
      PROVE  Home(a)'
  <2>1. u \in UserIds
    BY IdsTyped DEF Members, TypeInv, LoginTypeOK
  <2>2. u = Wallet(a) => a \in sessions
    BY IdsDiffer DEF Members
  <2>3. CASE HasRow(u) /\ users[u].nonce > 0
    <3>1. a = b => ~Busy(a, LoggingIn)
      BY <1>7, <2>3 DEF Bind
    <3>2. loginCall[c].at = "idle" /\ Starts(c, "count", u, b) /\ UNCHANGED <<users, wallets, sessions>>
      BY <1>7, <2>3 DEF Bind
    <3> QED
      BY <1>2, <2>1, <2>2, <3>1, <3>2, StartHome
  <2>4. CASE ~(HasRow(u) /\ users[u].nonce > 0)
    <3>1. RowOf(u).nonce \in NonceNo \cup {NullNonce, HiddenNonce}
      BY <2>1, RowTyped DEF User
    <3>2. PICK n \in NonceNo \cup {NullNonce, HiddenNonce} : n = RowOf(u).nonce
      BY <3>1
    <3>3. PutNonce(u, n) /\ UNCHANGED <<wallets, loginCall, sessions>>
      BY <1>7, <2>4, <3>2 DEF Bind
    <3>4. TablesHome(a) /\ CallsHome(a)
      BY <2>1, <3>3, NonceHome DEF CallsHome
    <3> QED
      BY <1>2, <3>3, <3>4, HomeKept
  <2> QED
    BY <2>3, <2>4
<1>8. ASSUME NEW c \in LoginCalls, LoginStep(c)
      PROVE  Home(a)'
  <2> DEFINE k == loginCall[c]
  <2>1. CASE Consume(c)
    <3>1. k.at \in LoggingIn /\ k.user \in UserIds /\ UNCHANGED <<wallets, sessions>>
      BY <2>1 DEF Consume, LoggingIn, TypeInv, CallsFull
    <3>2. CASE PutNonce(k.user, NullNonce) /\ Moves(c, "clear")
      <4>1. TablesHome(a)
        BY <3>1, <3>2, NonceHome
      <4>2. CallsHome(a)
        BY <3>1, <3>2, LoginMovesHome DEF LoggingIn
      <4> QED
        BY <1>2, <3>1, <4>1, <4>2, HomeKept
    <3>3. CASE Stops(c) /\ UNCHANGED users
      <4>1. TablesHome(a) /\ CallsHome(a)
        BY <3>1, <3>3, TablesStay, StopHome
      <4> QED
        BY <1>2, <3>1, <4>1, HomeKept
    <3> QED
      BY <2>1, <3>2, <3>3 DEF Consume
  <2>2. CASE Clear(c)
    BY <1>2, <2>2, ClearHome
  <2>3. CASE Claim(c)
    BY <1>2, <2>3, ClaimHome
  <2>4. CASE Own(c)
    BY <1>2, <2>4, OwnHome
  <2>5. CASE OpenSession(c)
    BY <1>2, <2>5, SessionHome
  <2>6. CASE CountWallets(c)
    BY <1>2, <2>6, CountHome
  <2>7. CASE InsertWallet(c)
    BY <1>2, <2>7, InsertHome
  <2>8. CASE Mirror(c)
    BY <1>2, <2>8, MirrorHome
  <2>9. CASE Rotate(c)
    BY <1>2, <2>9, RotateHome
  <2>10. CASE Cleanup(c)
    BY <1>2, <2>10, CleanupHome
  <2>11. CASE LoginIgnores(c)
    <3>1. a # k.address /\ UNCHANGED <<users, wallets, sessions>>
      BY <2>11 DEF LoginIgnores
    <3>2. CASE \E at \in {"claim", "own", "session"} : k.at \in LoggingIn /\ Moves(c, at)
      BY <3>1, <3>2, <1>2, LoginMovesHome, TablesStay, HomeKept DEF LoggingIn
    <3>3. CASE k.at = "mirror" /\ Moves(c, "rotate")
      BY <3>1, <3>3, <1>2, BindMovesHome, TablesStay, HomeKept DEF Bound
    <3> QED
      BY <2>11, <3>2, <3>3 DEF LoginIgnores, Steps, LoggingIn
  <2>12. CASE RotateFails(c)
    <3>1. k.at = "rotate" /\ Moves(c, "cleanup") /\ UNCHANGED <<users, wallets, sessions>>
      BY <2>12 DEF RotateFails, Steps
    <3>2. CallsHome(a) /\ TablesHome(a)
      BY <3>1, BindMovesHome, TablesStay DEF Bound
    <3> QED
      BY <1>2, <3>1, <3>2, HomeKept
  <2>13. CASE LoginDies(c)
    <3>1. CallsHome(a) /\ TablesHome(a) /\ UNCHANGED sessions
      BY <2>13, StopHome, TablesStay DEF LoginDies
    <3> QED
      BY <1>2, <3>1, HomeKept
  <2> QED
    BY <1>8, <2>1, <2>2, <2>3, <2>4, <2>5, <2>6, <2>7, <2>8, <2>9, <2>10, <2>11, <2>12, <2>13 DEF LoginStep
<1>9. ASSUME NEW b \in Addresses, CreateAccount(b)
      PROVE  Home(a)'
  BY <1>2, <1>9, CreateHome
<1> QED
  BY <1>3, <1>4, <1>5, <1>6, <1>7, <1>8, <1>9 DEF LoginNext

LEMMA InitHome == LoginInit => AtHome
BY DEF LoginInit, AtHome, Home, Apart, Busy, Steps, LoginIdle, LoggingIn, Binding, BindsMinor, Binds, OthersMinor

\* A session has its wallet (auth-wallet:88-142): the row of its account has the
\* address, and the address is that account's primary wallet, from the login on and
\* whatever is bound later, unless another call for the address or an ignored
\* error came between the writes; for any number of accounts, addresses and calls.
THEOREM LoginKeepsWallet == LoginSpec => []LoginOwnsWallet
<1>1. LoginInit => TypeInv /\ AtHome
  BY InitTyped, InitHome
<1>2. TypeInv /\ AtHome /\ [LoginNext]_loginVars => (TypeInv /\ AtHome)'
  BY TypesKept, HomeStep
<1>3. TypeInv /\ AtHome => LoginOwnsWallet
  BY DEF TypeInv, LoginTypeOK, AtHome, Home, RowHome, WalletHome, LoginOwnsWallet
<1> QED
  BY <1>1, <1>2, <1>3, PTL DEF LoginSpec
=============================================================================
