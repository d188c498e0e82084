---------------------------- MODULE WalletLogin ----------------------------
(***************************************************************************)
(* Signing in with a wallet, and binding wallets to an account, in the     *)
(* edge functions auth-wallet-nonce, auth-wallet, wallet-nonce and         *)
(* wallet-bind.                                                            *)
(*                                                                         *)
(* Both check a signature of a nonce, which is kept in the one column of   *)
(* the row in users, and both go on to write users and user_wallets access *)
(* by access, mostly without a look at what failed.  An account of its own *)
(* is given to each address by the auth service (external); the row that   *)
(* the nonce of a first login is kept in has another id and is removed by  *)
(* the login.  Signatures are valid, and what is answered before the first *)
(* write is left out.                                                      *)
(***************************************************************************)
EXTENDS Integers, FiniteSets

CONSTANTS
  Addresses,
  Socials,      \* accounts that signed up otherwise
  LoginCalls,   \* calls in progress
  MaxNonces, MaxLogins, MaxLoginFaults, \* bounds; of logins and bindings begun in all
  NoUser, NoWallet \* no row

VARIABLES
  users, wallets, \* the tables, by id and by address
  nonces,         \* number of nonces given out
  loginCall,
  loginBegun,     \* number of calls begun
  sessions,       \* addresses that have logged in
  logins, binds,  \* history: what each nonce was good for
  troubled,       \* history: addresses that other calls or faults got at meanwhile,
  doubled,        \*   and nonces that two calls, or one that died, have used
  loginFaults

loginVars == <<users, wallets, nonces, loginCall, loginBegun, sessions, logins, binds, troubled, doubled,
               loginFaults>>

\* The ids in users: of an account of the auth service, of the row that is made
\* for a nonce, of other accounts.
Wallet(a) == <<"wallet", a>>
Temp(a) == <<"temp", a>>
Social(x) == <<"social", x>>
UserIds == {Wallet(a) : a \in Addresses} \cup {Temp(a) : a \in Addresses} \cup {Social(x) : x \in Socials}

\* A nonce is a number from 1 when it was given out, or one of these.
NullNonce == 0
HiddenNonce == -1
NonceNo == 1..MaxNonces
NoAddress == "none"
NoId == <<"none", NoAddress>>

User == [address : Addresses \cup {NoAddress}, nonce : NonceNo \cup {NullNonce, HiddenNonce}]
\* made: the binding call that inserted the row.
WalletRow == [user : UserIds, primary : BOOLEAN, made : LoginCalls \cup {"login"}]

ASSUME LoginAssumption ==
  /\ {MaxNonces, MaxLogins, MaxLoginFaults} \subseteq Nat
  /\ NoAddress \notin Addresses
  /\ NoUser \notin User /\ NoWallet \notin WalletRow

LoginIdle == [at |-> "idle", address |-> NoAddress, user |-> NoId, nonce |-> 0, primary |-> FALSE]
LoginRecord ==
  [at : {"idle", "consume", "clear", "claim", "own", "session",
         "count", "insert", "mirror", "rotate", "cleanup"},
   address : Addresses \cup {NoAddress}, user : UserIds \cup {NoId}, nonce : NonceNo \cup {0},
   primary : BOOLEAN]

LoginTypeOK ==
  /\ users \in [UserIds -> User \cup {NoUser}]
  /\ wallets \in [Addresses -> WalletRow \cup {NoWallet}]
  /\ nonces \in 0..MaxNonces
  /\ loginCall \in [LoginCalls -> LoginRecord]
  /\ sessions \subseteq Addresses
  /\ logins \in [NonceNo -> Nat] /\ binds \in [NonceNo -> Int]
  /\ troubled \subseteq Addresses /\ doubled \subseteq NonceNo
  /\ loginBegun \in 0..MaxLogins /\ loginFaults \in 0..MaxLoginFaults

LoginInit ==
  /\ users = [u \in UserIds |-> NoUser]
  /\ wallets = [a \in Addresses |-> NoWallet]
  /\ nonces = 0
  /\ loginCall = [c \in LoginCalls |-> LoginIdle]
  /\ sessions = {}
  /\ logins = [n \in NonceNo |-> 0] /\ binds = [n \in NonceNo |-> 0]
  /\ troubled = {} /\ doubled = {}
  /\ loginBegun = 0 /\ loginFaults = 0

-----------------------------------------------------------------------------
HasRow(u) == users[u] # NoUser
Having(a) == {u \in UserIds : HasRow(u) /\ users[u].address = a}
OwnedBy(u) == {a \in Addresses : wallets[a] # NoWallet /\ wallets[a].user = u}

\* The row of u, which an upsert inserts if it is not there.
RowOf(u) == IF HasRow(u) THEN users[u] ELSE [address |-> NoAddress, nonce |-> NullNonce]
PutNonce(u, n) == users' = [users EXCEPT ![u] = [RowOf(u) EXCEPT !.nonce = n]]
PutAddress(u, a) == users' = [users EXCEPT ![u] = [RowOf(u) EXCEPT !.address = a]]

Moves(c, at) == loginCall' = [loginCall EXCEPT ![c].at = at] /\ UNCHANGED loginBegun
Stops(c) == loginCall' = [loginCall EXCEPT ![c] = LoginIdle] /\ UNCHANGED loginBegun
Starts(c, at, u, a) ==
  /\ loginBegun < MaxLogins /\ loginBegun' = loginBegun + 1
  /\ loginCall' = [loginCall EXCEPT ![c] = [LoginIdle EXCEPT
                     !.at = at, !.address = a, !.user = u, !.nonce = users[u].nonce]]

GivesNonce == nonces < MaxNonces /\ nonces' = nonces + 1

Steps(c, S) == loginCall[c].at \in S
LoggingIn == {"consume", "clear", "claim", "own", "session"}
Binding == {"count", "insert", "mirror", "rotate", "cleanup"}
Busy(a, S) == \E c \in LoginCalls : Steps(c, S) /\ loginCall[c].address = a

\* auth-wallet-nonce makes a row for an address that has none,
CreateAccount(a) ==
  /\ Having(a) = {}
  /\ users' = [users EXCEPT ![Temp(a)] = [address |-> a, nonce |-> NullNonce]]
  /\ troubled' = IF Busy(a, LoggingIn) THEN troubled \cup {a} ELSE troubled
  /\ UNCHANGED <<wallets, nonces, loginCall, loginBegun, sessions, logins, binds, doubled, loginFaults>>

\* and upserts the row that has the address by then, if any.
IssueLoginNonce(a) ==
  /\ GivesNonce
  /\ IF Having(a) # {}
     THEN users' = [u \in UserIds |-> IF u \in Having(a) THEN [users[u] EXCEPT !.nonce = nonces'] ELSE users[u]]
     ELSE users' = [users EXCEPT ![Temp(a)] = [address |-> a, nonce |-> nonces']]
  /\ troubled' = IF Busy(a, LoggingIn) THEN troubled \cup {a} ELSE troubled
  /\ UNCHANGED <<wallets, loginCall, loginBegun, sessions, logins, binds, doubled, loginFaults>>

Members == {Social(x) : x \in Socials} \cup {Wallet(a) : a \in sessions}

\* wallet-nonce
IssueBindNonce(u) ==
  /\ GivesNonce
  /\ PutNonce(u, nonces')
  /\ UNCHANGED <<wallets, loginCall, loginBegun, sessions, logins, binds, troubled, doubled, loginFaults>>

-----------------------------------------------------------------------------
\* auth-wallet

Login(c, a) ==
  /\ loginCall[c].at = "idle"
  /\ \E u \in Having(a) :
       /\ users[u].nonce > 0
       /\ Starts(c, "consume", u, a)
  /\ troubled' = IF Busy(a, Binding) THEN troubled \cup {a} ELSE troubled
  /\ UNCHANGED <<users, wallets, nonces, sessions, logins, binds, doubled, loginFaults>>

\* mutant: the nonce is cleared whatever it is by now
StillHasAny(k) == HasRow(k.user)
StillHas(k) == HasRow(k.user) /\ users[k.user].nonce = k.nonce

\* The condition is that of the update, so only one call takes a nonce.
Consume(c) ==
  LET k == loginCall[c]
  IN  /\ k.at = "consume"
      /\ IF StillHas(k)
         THEN PutNonce(k.user, NullNonce) /\ Moves(c, "clear")
         ELSE Stops(c) /\ UNCHANGED users
      /\ UNCHANGED <<wallets, nonces, sessions, logins, binds, troubled, doubled, loginFaults>>

\* mutant: the row of the nonce is left
StaleNone(a) == {}
Stale(a) == Having(a) \ {Wallet(a)}

\* Wallets go with their user.
Clear(c) ==
  LET gone == Stale(loginCall[c].address)
  IN  /\ loginCall[c].at = "clear"
      /\ users' = [u \in UserIds |-> IF u \in gone THEN NoUser ELSE users[u]]
      /\ wallets' = [a \in Addresses |-> IF a \in UNION {OwnedBy(u) : u \in gone} THEN NoWallet
                                         ELSE wallets[a]]
      /\ Moves(c, "claim")
      /\ UNCHANGED <<nonces, sessions, logins, binds, troubled, doubled, loginFaults>>

\* The error of a taken address is not looked at.
Claim(c) ==
  LET a == loginCall[c].address
  IN  /\ loginCall[c].at = "claim"
      /\ IF Having(a) \subseteq {Wallet(a)} THEN PutAddress(Wallet(a), a) ELSE UNCHANGED users
      /\ Moves(c, "own")
      /\ UNCHANGED <<wallets, nonces, sessions, logins, binds, troubled, doubled, loginFaults>>

PrimaryIsFree(u, a) == \A b \in OwnedBy(u) \ {a} : ~wallets[b].primary

\* Nor is that of a missing user or of a second primary wallet.
Own(c) ==
  LET a == loginCall[c].address
  IN  /\ loginCall[c].at = "own"
      /\ wallets' = IF HasRow(Wallet(a)) /\ PrimaryIsFree(Wallet(a), a)
                    THEN [wallets EXCEPT ![a] =
                           [user |-> Wallet(a), primary |-> TRUE,
                            made |-> IF wallets[a] = NoWallet THEN "login" ELSE wallets[a].made]]
                    ELSE wallets
      /\ Moves(c, "session")
      /\ UNCHANGED <<users, nonces, sessions, logins, binds, troubled, doubled, loginFaults>>

OpenSession(c) ==
  /\ loginCall[c].at = "session"
  /\ sessions' = sessions \cup {loginCall[c].address}
  /\ logins' = [logins EXCEPT ![loginCall[c].nonce] = @ + 1]
  /\ Stops(c)
  /\ UNCHANGED <<users, wallets, nonces, binds, troubled, doubled, loginFaults>>

-----------------------------------------------------------------------------
\* wallet-bind

Uses(n) == \E c \in LoginCalls : loginCall[c].nonce = n

\* The row of the user is made if it is not there.
Bind(c, u, a) ==
  /\ loginCall[c].at = "idle"
  /\ IF HasRow(u) /\ users[u].nonce > 0
     THEN /\ Starts(c, "count", u, a)
          /\ troubled' = IF Busy(a, LoggingIn) THEN troubled \cup {a} ELSE troubled
          /\ doubled' = IF Uses(users[u].nonce) THEN doubled \cup {users[u].nonce} ELSE doubled
          /\ UNCHANGED users
     ELSE /\ PutNonce(u, RowOf(u).nonce)
          /\ UNCHANGED <<loginCall, loginBegun, troubled, doubled>>
  /\ UNCHANGED <<wallets, nonces, sessions, logins, binds, loginFaults>>

CountWallets(c) ==
  /\ loginCall[c].at = "count"
  /\ loginCall' = [loginCall EXCEPT ![c].at = "insert", ![c].primary = OwnedBy(loginCall[c].user) = {}]
  /\ UNCHANGED <<loginBegun, users, wallets, nonces, sessions, logins, binds, troubled, doubled, loginFaults>>

InsertWallet(c) ==
  LET k == loginCall[c]
  IN  /\ k.at = "insert"
      /\ IF /\ wallets[k.address] = NoWallet /\ HasRow(k.user)
            /\ k.primary => PrimaryIsFree(k.user, k.address)
         THEN /\ wallets' = [wallets EXCEPT ![k.address] =
                              [user |-> k.user, primary |-> k.primary, made |-> c]]
              /\ binds' = [binds EXCEPT ![k.nonce] = @ + 1]
              /\ Moves(c, IF k.primary THEN "mirror" ELSE "rotate")
         ELSE Stops(c) /\ UNCHANGED <<wallets, binds>>
      /\ UNCHANGED <<users, nonces, sessions, logins, troubled, doubled, loginFaults>>

Mirror(c) ==
  LET k == loginCall[c]
  IN  /\ k.at = "mirror"
      /\ users' = IF HasRow(k.user) /\ Having(k.address) = {}
                  THEN [users EXCEPT ![k.user].address = k.address] ELSE users
      /\ Moves(c, "rotate")
      /\ UNCHANGED <<wallets, nonces, sessions, logins, binds, troubled, doubled, loginFaults>>

\* mutant: the nonce stays
RotatedKept(user) == user
Rotated(user) == [user EXCEPT !.nonce = HiddenNonce]

Rotate(c) ==
  LET u == loginCall[c].user
  IN  /\ loginCall[c].at = "rotate"
      /\ users' = IF HasRow(u) THEN [users EXCEPT ![u] = Rotated(@)] ELSE users
      /\ Stops(c)
      /\ UNCHANGED <<wallets, nonces, sessions, logins, binds, troubled, doubled, loginFaults>>

\* After a rotation that failed the row of this call is deleted, by its id, if
\* it is still there; what the call had bound no longer counts either way.
Cleanup(c) ==
  LET k == loginCall[c]
  IN  /\ k.at = "cleanup"
      /\ wallets' = IF wallets[k.address] # NoWallet /\ wallets[k.address].made = c
                    THEN [wallets EXCEPT ![k.address] = NoWallet] ELSE wallets
      /\ binds' = [binds EXCEPT ![k.nonce] = @ - 1]
      /\ Stops(c)
      /\ UNCHANGED <<users, nonces, sessions, logins, troubled, doubled, loginFaults>>

-----------------------------------------------------------------------------
LoginFault == loginFaults < MaxLoginFaults /\ loginFaults' = loginFaults + 1

\* An access fails that the handler does not look at.
LoginIgnores(c) ==
  /\ LoginFault
  /\ \/ Steps(c, {"clear"}) /\ Moves(c, "claim")
     \/ Steps(c, {"claim"}) /\ Moves(c, "own")
     \/ Steps(c, {"own"}) /\ Moves(c, "session")
     \/ Steps(c, {"mirror"}) /\ Moves(c, "rotate")
  /\ troubled' = troubled \cup {loginCall[c].address}
  /\ UNCHANGED <<users, wallets, nonces, sessions, logins, binds, doubled>>

RotateFails(c) ==
  /\ LoginFault
  /\ Steps(c, {"rotate"})
  /\ Moves(c, "cleanup")
  /\ UNCHANGED <<users, wallets, nonces, sessions, logins, binds, troubled, doubled>>

\* The call ends: it dies, or an access fails that it does look at.
LoginDies(c) ==
  /\ LoginFault
  /\ ~Steps(c, {"idle"})
  /\ Stops(c)
  /\ doubled' = IF Steps(c, {"mirror", "rotate", "cleanup"}) THEN doubled \cup {loginCall[c].nonce}
                ELSE doubled
  /\ UNCHANGED <<users, wallets, nonces, sessions, logins, binds, troubled>>

LoginStep(c) ==
  \/ Consume(c) \/ Clear(c) \/ Claim(c) \/ Own(c) \/ OpenSession(c)
  \/ CountWallets(c) \/ InsertWallet(c) \/ Mirror(c) \/ Rotate(c) \/ Cleanup(c)
  \/ LoginIgnores(c) \/ RotateFails(c) \/ LoginDies(c)

LoginNext ==
  \/ \E a \in Addresses :
       CreateAccount(a) \/ IssueLoginNonce(a) \/ \E c \in LoginCalls : Login(c, a)
  \/ \E u \in Members : IssueBindNonce(u) \/ \E c \in LoginCalls, a \in Addresses : Bind(c, u, a)
  \/ \E c \in LoginCalls : LoginStep(c)

LoginSpec == LoginInit /\ [][LoginNext]_loginVars

-----------------------------------------------------------------------------
\* Correctness.

\* "only ONE concurrent request can null a given nonce" (auth-wallet:78-81): a
\* nonce opens one session at most, however the calls that carry it interleave
\* with each other and with the bindings that share its column.
OneLoginPerNonce == \A n \in NonceNo : logins[n] <= 1

\* requirePrimaryWallet finds the address of a wallet login for the account of
\* the session, from then on and whatever is bound or logged in later, unless
\* another call for the address or an ignored error came between the writes.
LoginOwnsWallet ==
  \A a \in sessions \ troubled :
    /\ HasRow(Wallet(a)) /\ users[Wallet(a)].address = a
    /\ wallets[a] # NoWallet /\ wallets[a].user = Wallet(a) /\ wallets[a].primary

\* "Rotate nonce to prevent replay" (wallet-bind:102): a nonce binds one wallet,
\* except where two calls held it at once or one died after it had bound.
OneBindingPerNonce == \A n \in NonceNo \ doubled : binds[n] <= 1
=============================================================================
