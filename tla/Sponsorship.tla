---------------------------- MODULE Sponsorship ----------------------------
(***************************************************************************)
(* The two ways to get GAS sponsored: the edge function sends GAS against  *)
(* a daily quota of the user, the host app signs as a fee payer against a  *)
(* daily budget of all users, and gives its share back when it ends        *)
(* without a signature.                                                    *)
(*                                                                         *)
(* Both count in a row of one day, which the SQL function locks; the first *)
(* call of a day finds no row to lock and inserts one.  Calls run in       *)
(* serverless functions and may die anywhere.  What is rejected before the *)
(* row is touched (amount, chain balance, witness, fee) changes nothing    *)
(* and is left out.                                                        *)
(***************************************************************************)
EXTENDS Integers, FiniteSetsExt

CONSTANTS
  Sponsored,    \* users
  Fees,         \* amounts
  DailyLimit,   \* of a user's quota and of the global budget
  MaxPerWindow, \* signatures for a user in a window
  SponsorCalls, \* calls in progress
  LastDay, MaxSponsorCalls, MaxSponsorFaults, \* bounds; of calls, on those made in all
  NoUsage       \* no row

ASSUME SponsorAssumption ==
  /\ Fees \subseteq Nat \ {0}
  /\ {DailyLimit, MaxPerWindow, LastDay, MaxSponsorCalls, MaxSponsorFaults} \subseteq Nat
  /\ LastDay > 0
  /\ NoUsage \notin Int /\ "global" \notin Sponsored

VARIABLES
  day,
  usage,         \* used_amount of gas_sponsor_quotas and sponsor_global_budget
  asked,         \* request_count of rate_limits in the current window
  transfers,     \* gas_sponsor_requests that are not in progress any more
  sponsorCall,
  sponsorBegun,  \* number of calls made
  tally,         \* history: what became of the amounts that were counted
  sponsorFaults

sponsorVars == <<day, usage, asked, transfers, sponsorCall, sponsorBegun, tally, sponsorFaults>>

Scopes == Sponsored \cup {"global"}
Days == 1..LastDay

\* at: the access that comes next; scope: the row it counts in; day: that day;
\* back: the day on which it is given back.
SponsorIdle == [at |-> "idle", scope |-> "global", user |-> "global", fee |-> 0, day |-> 0, back |-> 0]
SponsorRecord ==
  [at : {"idle", "bump", "insert", "limit", "sign", "release", "reinsert", "record", "transfer", "reply"},
   scope : Scopes, user : Scopes, fee : Fees \cup {0}, day : Days \cup {0}, back : Days \cup {0}]

\* spent: signed or sent; leaked: counted for nothing; late: given back on a
\* later day than it was counted on.
Tally == [spent : Nat, leaked : Nat, late : Nat]

SponsorTypeOK ==
  /\ day \in Days
  /\ usage \in [Scopes -> [Days -> Int \cup {NoUsage}]]
  /\ asked \in [Sponsored -> Nat]
  /\ transfers \subseteq [status : {"processing", "completed", "failed"}, sent : BOOLEAN]
  /\ sponsorCall \in [SponsorCalls -> SponsorRecord]
  /\ tally \in [Scopes -> [Days -> Tally]]
  /\ sponsorBegun \in 0..MaxSponsorCalls /\ sponsorFaults \in 0..MaxSponsorFaults

SponsorInit ==
  /\ day = 1
  /\ usage = [s \in Scopes |-> [d \in Days |-> NoUsage]]
  /\ asked = [u \in Sponsored |-> 0]
  /\ transfers = {}
  /\ sponsorCall = [c \in SponsorCalls |-> SponsorIdle]
  /\ tally = [s \in Scopes |-> [d \in Days |-> [spent |-> 0, leaked |-> 0, late |-> 0]]]
  /\ sponsorBegun = 0 /\ sponsorFaults = 0

\* A window of the rate limit ends, and with every other one, or more, a day.
NextWindow ==
  /\ asked' = [u \in Sponsored |-> 0]
  /\ day' \in {day, day + 1} \cap Days
  /\ UNCHANGED <<usage, transfers, sponsorCall, sponsorBegun, tally, sponsorFaults>>

-----------------------------------------------------------------------------
Goes(c, at) == sponsorCall' = [sponsorCall EXCEPT ![c].at = at] /\ UNCHANGED sponsorBegun
Ends(c) == sponsorCall' = [sponsorCall EXCEPT ![c] = SponsorIdle] /\ UNCHANGED sponsorBegun
SponsorFault == sponsorFaults < MaxSponsorFaults /\ sponsorFaults' = sponsorFaults + 1

\* The share of a call goes to a field of its day's tally.
Tallied(c, field) ==
  LET k == sponsorCall[c]
  IN  tally' = [tally EXCEPT ![k.scope][k.day][field] = @ + k.fee]

Ask(c, scope, u, fee) ==
  /\ sponsorCall[c].at = "idle"
  /\ sponsorBegun < MaxSponsorCalls /\ sponsorBegun' = sponsorBegun + 1
  /\ sponsorCall' = [sponsorCall EXCEPT ![c] = [SponsorIdle EXCEPT
                       !.at = "bump", !.scope = scope, !.user = u, !.fee = fee]]
  /\ UNCHANGED <<day, usage, asked, transfers, tally, sponsorFaults>>

AskSignature(c, u, fee) == Ask(c, "global", u, fee)
AskTransfer(c, u, fee) == Ask(c, u, u, fee)

-----------------------------------------------------------------------------
\* gas_sponsor_bump_quota and sponsor_global_budget_bump.

Exceeds(used, fee) == used + fee > DailyLimit

Today(c) == usage[sponsorCall[c].scope][day]
Counted(c) == IF sponsorCall[c].scope = "global" THEN "limit" ELSE "record"
Sets(c, d, amount) == usage' = [usage EXCEPT ![sponsorCall[c].scope][d] = amount]

Dated(c, at) ==
  sponsorCall' = [sponsorCall EXCEPT ![c].at = at, ![c].day = day] /\ UNCHANGED sponsorBegun

\* The limit is checked and the row of today updated under its lock.
Bump(c) ==
  LET k == sponsorCall[c]
      used == IF Today(c) = NoUsage THEN 0 ELSE Today(c)
  IN  /\ k.at = "bump"
      /\ IF Exceeds(used, k.fee)
         THEN Ends(c) /\ UNCHANGED usage
         ELSE IF Today(c) = NoUsage
              THEN Dated(c, "insert") /\ UNCHANGED usage
              ELSE Dated(c, Counted(c)) /\ Sets(c, day, used + k.fee)
      /\ UNCHANGED <<day, asked, transfers, tally, sponsorFaults>>

Found(c) == usage[sponsorCall[c].scope][sponsorCall[c].day]

\* mutant: a row that is there by now is added to (as migration 039 did)
InsertedAdds(c, amount) ==
  /\ Sets(c, sponsorCall[c].day, (IF Found(c) = NoUsage THEN 0 ELSE Found(c)) + amount)
  /\ Goes(c, Counted(c))
\* Another call has made the row meanwhile: the unique key refuses this one.
Inserted(c, amount) ==
  IF Found(c) = NoUsage
  THEN Sets(c, sponsorCall[c].day, amount) /\ Goes(c, Counted(c))
  ELSE Ends(c) /\ UNCHANGED usage

InsertUsage(c) ==
  /\ sponsorCall[c].at = "insert"
  /\ Inserted(c, sponsorCall[c].fee)
  /\ UNCHANGED <<day, asked, transfers, tally, sponsorFaults>>

\* releaseGlobalDailyBudget: a negative bump without a limit, of the row of
\* today, whatever day the share was counted on.
GiveBack(c) ==
  LET k == sponsorCall[c]
  IN  /\ k.at = "release"
      /\ IF Today(c) = NoUsage
         THEN /\ sponsorCall' = [sponsorCall EXCEPT ![c].at = "reinsert", ![c].back = day]
              /\ UNCHANGED <<usage, tally, sponsorBegun>>
         ELSE /\ Sets(c, day, Today(c) - k.fee)
              /\ tally' = IF k.day = day THEN tally
                          ELSE [tally EXCEPT ![k.scope][day].late = @ + k.fee,
                                             ![k.scope][k.day].leaked = @ + k.fee]
              /\ Ends(c)
      /\ UNCHANGED <<day, asked, transfers, sponsorFaults>>

\* The first call of a day may be one that gives back; errors are logged only.
InsertRefund(c) ==
  LET k == sponsorCall[c]
  IN  /\ k.at = "reinsert"
      /\ IF usage[k.scope][k.back] = NoUsage
         THEN /\ Sets(c, k.back, -k.fee)
              /\ tally' = [tally EXCEPT ![k.scope][k.back].late = @ + k.fee,
                                        ![k.scope][k.day].leaked = @ + k.fee]
         ELSE Tallied(c, "leaked") /\ UNCHANGED usage
      /\ Ends(c)
      /\ UNCHANGED <<day, asked, transfers, sponsorFaults>>

-----------------------------------------------------------------------------
\* The sponsor handler of the host app.

\* mutant: the share of a call that is refused is kept
RefusedKept == "idle"
Refused == "release"

\* enforcePerUserLimit: every attempt counts, the refused ones too.
LimitUser(c) ==
  LET u == sponsorCall[c].user
  IN  /\ sponsorCall[c].at = "limit"
      /\ asked' = [asked EXCEPT ![u] = @ + 1]
      /\ Goes(c, IF asked[u] + 1 > MaxPerWindow THEN Refused ELSE "sign")
      /\ UNCHANGED <<day, usage, transfers, tally, sponsorFaults>>

LimitFails(c) ==
  /\ sponsorCall[c].at = "limit"
  /\ SponsorFault
  /\ Goes(c, Refused)
  /\ UNCHANGED <<day, usage, asked, transfers, tally>>

Sign(c) ==
  /\ sponsorCall[c].at = "sign"
  /\ Tallied(c, "spent")
  /\ Ends(c)
  /\ UNCHANGED <<day, usage, asked, transfers, sponsorFaults>>

SignFails(c) ==
  /\ sponsorCall[c].at = "sign"
  /\ Goes(c, Refused)
  /\ UNCHANGED <<day, usage, asked, transfers, tally, sponsorFaults>>

-----------------------------------------------------------------------------
\* gas-sponsor-request: nothing is given back.

RecordRequest(c) ==
  /\ sponsorCall[c].at = "record"
  /\ Goes(c, "transfer")
  /\ UNCHANGED <<day, usage, asked, transfers, tally, sponsorFaults>>

Closed(status, sent) == transfers' = transfers \cup {[status |-> status, sent |-> sent]}

Transfer(c) ==
  /\ sponsorCall[c].at = "transfer"
  /\ Tallied(c, "spent")
  /\ Goes(c, "reply")
  /\ UNCHANGED <<day, usage, asked, transfers, sponsorFaults>>

TransferRefused(c) ==
  /\ sponsorCall[c].at = "transfer"
  /\ Tallied(c, "leaked")
  /\ Closed("failed", FALSE)
  /\ Ends(c)
  /\ UNCHANGED <<day, usage, asked, sponsorFaults>>

TransferReply(c) ==
  /\ sponsorCall[c].at = "reply"
  /\ Closed("completed", TRUE)
  /\ Ends(c)
  /\ UNCHANGED <<day, usage, asked, tally, sponsorFaults>>

\* The transfer has been made and its call times out.
TransferLost(c) ==
  /\ sponsorCall[c].at = "reply"
  /\ SponsorFault
  /\ Closed("failed", TRUE)
  /\ Ends(c)
  /\ UNCHANGED <<day, usage, asked, tally>>

Holding == {"limit", "sign", "release", "reinsert", "record", "transfer"}

\* The call dies, or the answer to what it has last done is lost.
SponsorDies(c) ==
  /\ sponsorCall[c].at # "idle"
  /\ SponsorFault
  /\ IF sponsorCall[c].at \in Holding THEN Tallied(c, "leaked") ELSE UNCHANGED tally
  /\ IF sponsorCall[c].at = "reply" THEN Closed("processing", TRUE)
     ELSE IF sponsorCall[c].at = "transfer" THEN Closed("processing", FALSE)
     ELSE UNCHANGED transfers
  /\ Ends(c)
  /\ UNCHANGED <<day, usage, asked>>

-----------------------------------------------------------------------------
SponsorStep(c) ==
  \/ Bump(c) \/ InsertUsage(c) \/ GiveBack(c) \/ InsertRefund(c)
  \/ LimitUser(c) \/ Sign(c) \/ SignFails(c)
  \/ RecordRequest(c) \/ Transfer(c) \/ TransferRefused(c) \/ TransferReply(c)
  \/ LimitFails(c) \/ TransferLost(c) \/ SponsorDies(c)

SponsorNext ==
  \/ NextWindow
  \/ \E c \in SponsorCalls :
       \/ SponsorStep(c)
       \/ \E u \in Sponsored, fee \in Fees : AskSignature(c, u, fee) \/ AskTransfer(c, u, fee)

SponsorSpec == SponsorInit /\ [][SponsorNext]_sponsorVars

-----------------------------------------------------------------------------
\* Correctness.

\* "every instance enforces the same daily ceiling" (077:8): what is signed or
\* sent of a day's budget or quota is within the limit, but for what calls of the
\* day before have given back after midnight.
BudgetKept ==
  \A s \in Scopes, d \in Days : tally[s][d].spent <= DailyLimit + tally[s][d].late

HeldBy(s, d) ==
  {c \in SponsorCalls : /\ sponsorCall[c].at \in Holding
                        /\ sponsorCall[c].scope = s /\ sponsorCall[c].day = d}
Held(s, d) == SumFunctionOnSet([c \in SponsorCalls |-> sponsorCall[c].fee], HeldBy(s, d))

\* Every share that is counted was spent, is held by a call that goes on, or was
\* lost by a fault or an ending that keeps it; and none is given back twice.  In
\* particular a quota is never below what was sent, whatever the request says.
BudgetBalances ==
  \A s \in Scopes, d \in Days :
    (IF usage[s][d] = NoUsage THEN 0 ELSE usage[s][d]) + tally[s][d].late
      = tally[s][d].spent + tally[s][d].leaked + Held(s, d)
=============================================================================
