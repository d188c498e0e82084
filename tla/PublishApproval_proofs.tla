----------------------- MODULE PublishApproval_proofs -----------------------
(***************************************************************************)
(* That versions are numbered in their order, that an active app is what   *)
(* its published version says, that a publish request is decided once, not *)
(* left approved, and applied only when its version is published, and that *)
(* audit logs verify, for any number of calls, contents, admins, faults.   *)
(*                                                                         *)
(* A call is known by the accesses it still has to make: Ordered says what *)
(* comes before what, and Shape what the call has in hand for the next     *)
(* one.  A step of a call is summed up as Begun, Stopped or Moved, which   *)
(* is all that the invariants need to know of it.                          *)
(***************************************************************************)
EXTENDS PublishApproval, FiniteSetTheorems, SequenceTheorems, TLAPS

Has(s, access) == \E i \in DOMAIN s : s[i] = access
\* The access that a call makes next.
Faces(k, access) == k.todo # <<>> /\ k.todo[1] = access

\* What comes once, and what comes directly before what.
Ordered(s) ==
  /\ \A i, j \in DOMAIN s : s[i] = s[j] /\ s[i] \in {"request", "apply"} => i = j
  /\ \A i \in DOMAIN s :
       i > 1 => /\ s[i] = "insert" => s[i - 1] = "number"
                /\ s[i] = "chain" => s[i - 1] = "fetch"
                /\ s[i] = "fetch" => s[i - 1] \in {"request", "decide", "apply"}
                /\ s[i] # "decide"

\* A call: n and m are the numbers of requests and of versions.
Shape(k, n, m) ==
  /\ Ordered(k.todo)
  /\ Faces(k, "insert") => k.no \in 1..(m + 1)
  /\ Faces(k, "fetch") \/ Faces(k, "chain") => k.req \in 1..n
  /\ k.todo # <<>> /\ k.decision # "none" => k.req \in 1..n
  /\ Has(k.todo, "request") => k.decision = "none"
  /\ Has(k.todo, "apply") => k.decision = "approved"
  /\ Has(k.todo, "decide") =>
       /\ k.decision \in Decisions
       /\ k.decision = "approved" => Has(k.todo, "apply")

\* Types, as far as they are needed: numbers are not bounded.
Rowish == [content : Contents \cup {"none"}, status : AppStatuses \cup {"none"}]
Versionish == [no : Nat, channel : Channels, row : Rowish]
Requestish == [status : RequestStatuses, by : Admins, version : Nat, applied : Nat]
Callish ==
  [todo : Seq(Accesses), actor : Admins, row : Rowish, channel : Channels, no : Nat, req : Nat,
   decision : Decisions \cup {"none"}, event : Events, prev : Nat]
Pastish ==
  [mixed : BOOLEAN, contested : SUBSET Nat, forked : SUBSET Nat, abandoned : SUBSET Nat]
RowsTyped ==
  /\ app \in Rowish
  /\ versions \in Seq(Versionish)
  /\ requests \in Seq(Requestish)
  /\ audit \in [RequestId -> Seq(AuditRow)]
CallsTyped ==
  /\ adminCall \in [AdminCalls -> Callish]
  /\ past \in Pastish
  /\ begun \in 0..MaxAdminCalls

\* A request takes a call of its own, so that its number is in RequestId.
Asking == {c \in AdminCalls : Has(adminCall[c].todo, "request")}
AskingCounted == IsFiniteSet(Asking) /\ Len(requests) + Cardinality(Asking) <= begun

Shaped == \A c \in AdminCalls : Shape(adminCall[c], Len(requests), Len(versions))

Basis == RowsTyped /\ CallsTyped /\ AskingCounted /\ Shaped

\* One review has a request that is not contested, and the request has the
\* status that the review has come to.
OneReview ==
  \A c, d \in AdminCalls : \A r \in Nat \ past.contested :
    r \in Reviewing(adminCall[c]) /\ r \in Reviewing(adminCall[d]) => c = d
Reached(k) ==
  IF Has(k.todo, "decide") THEN "pending"
  ELSE IF Has(k.todo, "apply") THEN "approved"
  ELSE IF k.decision = "approved" THEN "applied" ELSE k.decision
StatusReached ==
  \A c \in AdminCalls : \A r \in Nat \ past.contested :
    r \in Reviewing(adminCall[c]) => requests[r].status = Reached(adminCall[c])

\* The one call that is about to append to a log has seen its head.
HeadSeen ==
  \A c \in AdminCalls : \A r \in RequestId \ past.forked :
    Faces(adminCall[c], "chain") /\ adminCall[c].req = r =>
      /\ adminCall[c].prev = Len(audit[r])
      /\ \A d \in AdminCalls : Faces(adminCall[d], "chain") /\ adminCall[d].req = r => c = d

Reviewed == OneReview /\ StatusReached /\ ApprovedMeansApplying
Audited == HeadSeen /\ AuditVerifies

IInv == Basis /\ VersionsNumbered /\ Reviewed /\ Audited

-----------------------------------------------------------------------------
\* The lists of accesses.

LEMMA Constants ==
  /\ ApiKey \in Admins /\ Reviewers \subseteq Admins
  /\ MaxAdminCalls \in Nat /\ MaxAdminFaults \in Nat
BY PublishAssumption DEF PublishAssumption

LEMMA Joined ==
  ASSUME NEW T, NEW s \in Seq(T), NEW t \in Seq(T), NEW u \in Seq(T), Len(u) = Len(s) + Len(t),
         \A i \in 1..Len(s) : u[i] = s[i], \A i \in 1..Len(t) : u[Len(s) + i] = t[i]
  PROVE  s \o t = u
<1>1. /\ s \o t \in Seq(T) /\ Len(s \o t) = Len(s) + Len(t)
      /\ \A i \in 1 .. Len(s) + Len(t) : (s \o t)[i] = IF i <= Len(s) THEN s[i] ELSE t[i - Len(s)]
  BY ConcatProperties
<1>2. ASSUME NEW i \in 1..Len(u) PROVE u[i] = (s \o t)[i]
  <2>1. CASE i <= Len(s)
    BY <1>1, <2>1
  <2>2. CASE i > Len(s)
    <3>1. i - Len(s) \in 1..Len(t) /\ Len(s) + (i - Len(s)) = i
      BY <2>2
    <3> QED
      BY <1>1, <2>2, <3>1
  <2> QED
    BY <2>1, <2>2
<1> QED
  BY <1>1, <1>2, SeqEqual

LEMMA SavingList == <<"write">> \o Recording = <<"write", "number", "insert", "point">>
<1> DEFINE s == <<"write">>
           u == <<"write", "number", "insert", "point">>
<1>1. /\ s \in Seq(Accesses) /\ Recording \in Seq(Accesses) /\ u \in Seq(Accesses)
      /\ Len(u) = Len(s) + Len(Recording)
      /\ \A i \in 1..Len(s) : u[i] = s[i]
      /\ \A i \in 1..Len(Recording) : u[Len(s) + i] = Recording[i]
  BY DEF Accesses, Recording
<1> QED
  BY <1>1, Joined

LEMMA RollbackList == Recording \o <<"write">> = <<"number", "insert", "point", "write">>
<1> DEFINE t == <<"write">>
           u == <<"number", "insert", "point", "write">>
<1>1. /\ t \in Seq(Accesses) /\ Recording \in Seq(Accesses) /\ u \in Seq(Accesses)
      /\ Len(u) = Len(Recording) + Len(t)
      /\ \A i \in 1..Len(Recording) : u[i] = Recording[i]
      /\ \A i \in 1..Len(t) : u[Len(Recording) + i] = t[i]
  BY DEF Accesses, Recording
<1> QED
  BY <1>1, Joined

LEMMA AskingList ==
  Recording \o <<"request">> \o Auditing
    = <<"number", "insert", "point", "request", "fetch", "chain">>
<1> DEFINE t == <<"request">>
           u == <<"number", "insert", "point", "request">>
           v == <<"number", "insert", "point", "request", "fetch", "chain">>
<1>1. /\ t \in Seq(Accesses) /\ Recording \in Seq(Accesses) /\ u \in Seq(Accesses)
      /\ Len(u) = Len(Recording) + Len(t)
      /\ \A i \in 1..Len(Recording) : u[i] = Recording[i]
      /\ \A i \in 1..Len(t) : u[Len(Recording) + i] = t[i]
  BY DEF Accesses, Recording
<1>2. Recording \o t = u
  BY <1>1, Joined
<1>3. /\ Auditing \in Seq(Accesses) /\ u \in Seq(Accesses) /\ v \in Seq(Accesses)
      /\ Len(v) = Len(u) + Len(Auditing)
      /\ \A i \in 1..Len(u) : v[i] = u[i]
      /\ \A i \in 1..Len(Auditing) : v[Len(u) + i] = Auditing[i]
  BY DEF Accesses, Auditing
<1>4. u \o Auditing = v
  BY <1>3, Joined
<1> QED
  BY <1>2, <1>4

LEMMA ApprovingList ==
  Approving
    = <<"reload", "write", "number", "insert", "point", "apply", "fetch", "chain">>
<1> DEFINE s == <<"reload", "write">>
           t == <<"apply">>
           u == <<"reload", "write", "number", "insert", "point">>
           v == <<"reload", "write", "number", "insert", "point", "apply">>
           w == <<"reload", "write", "number", "insert", "point", "apply", "fetch", "chain">>
<1>1. s \o Recording = u
  <2>1. /\ s \in Seq(Accesses) /\ Recording \in Seq(Accesses) /\ u \in Seq(Accesses)
        /\ Len(u) = Len(s) + Len(Recording)
        /\ \A i \in 1..Len(s) : u[i] = s[i]
        /\ \A i \in 1..Len(Recording) : u[Len(s) + i] = Recording[i]
    BY DEF Accesses, Recording
  <2> QED
    BY <2>1, Joined
<1>2. u \o t = v
  <2>1. /\ u \in Seq(Accesses) /\ t \in Seq(Accesses) /\ v \in Seq(Accesses)
        /\ Len(v) = Len(u) + Len(t)
        /\ \A i \in 1..Len(u) : v[i] = u[i]
        /\ \A i \in 1..Len(t) : v[Len(u) + i] = t[i]
    BY DEF Accesses
  <2> QED
    BY <2>1, Joined
<1>3. v \o Auditing = w
  <2>1. /\ v \in Seq(Accesses) /\ Auditing \in Seq(Accesses) /\ w \in Seq(Accesses)
        /\ Len(w) = Len(v) + Len(Auditing)
        /\ \A i \in 1..Len(v) : w[i] = v[i]
        /\ \A i \in 1..Len(Auditing) : w[Len(v) + i] = Auditing[i]
    BY DEF Accesses, Auditing
  <2> QED
    BY <2>1, Joined
<1> QED
  BY <1>1, <1>2, <1>3 DEF Approving

LEMMA DecidingList == <<"decide">> \o Auditing = <<"decide", "fetch", "chain">>
<1> DEFINE s == <<"decide">>
           u == <<"decide", "fetch", "chain">>
<1>1. /\ s \in Seq(Accesses) /\ Auditing \in Seq(Accesses) /\ u \in Seq(Accesses)
      /\ Len(u) = Len(s) + Len(Auditing)
      /\ \A i \in 1..Len(s) : u[i] = s[i]
      /\ \A i \in 1..Len(Auditing) : u[Len(s) + i] = Auditing[i]
  BY DEF Accesses, Auditing
<1> QED
  BY <1>1, Joined

LEMMA ReviewLists ==
  /\ <<"decide">> \o Auditing \o <<>> = <<"decide", "fetch", "chain">>
  /\ <<"decide">> \o Auditing \o Approving
       = <<"decide", "fetch", "chain", "reload", "write", "number", "insert", "point", "apply",
           "fetch", "chain">>
<1> DEFINE u == <<"decide", "fetch", "chain">>
           v == <<"reload", "write", "number", "insert", "point", "apply", "fetch", "chain">>
           w == <<"decide", "fetch", "chain", "reload", "write", "number", "insert", "point",
                  "apply", "fetch", "chain">>
<1>1. u \in Seq(Accesses) /\ v \in Seq(Accesses) /\ w \in Seq(Accesses)
  BY DEF Accesses
<1>2. u \o <<>> = u
  BY <1>1, ConcatEmptySeq
<1>3. /\ Len(w) = Len(u) + Len(v)
      /\ \A i \in 1..Len(u) : w[i] = u[i]
      /\ \A i \in 1..Len(v) : w[Len(u) + i] = v[i]
  OBVIOUS
<1>4. u \o v = w
  BY <1>1, <1>3, Joined
<1> QED
  BY <1>2, <1>4, DecidingList, ApprovingList

\* What is left of a list after its first access.
LEMMA TailList ==
  ASSUME NEW s \in Seq(Accesses), s # <<>>, Ordered(s)
  PROVE  /\ Len(s) = 1 => \A access : Has(s, access) <=> s[1] = access
         /\ Len(s) # 1 =>
              /\ Tail(s) \in Seq(Accesses) /\ Tail(s) # <<>> /\ Ordered(Tail(s))
              /\ Tail(s)[1] = s[2]
              /\ \A access \in {"request", "decide", "apply"} :
                   Has(Tail(s), access) <=> Has(s, access) /\ s[1] # access
              /\ Tail(s)[1] = "insert" => s[1] = "number"
              /\ Tail(s)[1] = "chain" => s[1] = "fetch"
              /\ Tail(s)[1] = "fetch" => s[1] \in {"request", "decide", "apply"}
<1> DEFINE t == Tail(s)
<1>1. /\ t \in Seq(Accesses) /\ Len(t) = Len(s) - 1 /\ Len(s) \in Nat \ {0}
      /\ DOMAIN s = 1..Len(s) /\ DOMAIN t = 1..Len(t)
      /\ \A i \in DOMAIN t : t[i] = s[i + 1]
  <2>1. /\ t \in Seq(Accesses) /\ Len(t) = Len(s) - 1
        /\ \A i \in 1..Len(t) : t[i] = s[i + 1]
    BY HeadTailProperties
  <2>2. Len(s) \in Nat \ {0}
    BY EmptySeq
  <2> QED
    BY <2>1, <2>2, LenProperties
<1> HIDE DEF t
<1>2. ASSUME Len(s) = 1, NEW access PROVE Has(s, access) <=> s[1] = access
  BY <1>1, <1>2 DEF Has
<1>3. ASSUME Len(s) # 1
      PROVE  Len(t) >= 1 /\ t # <<>> /\ t[1] = s[2] /\ 1 \in DOMAIN t /\ 2 \in DOMAIN s
  BY <1>1, <1>3
<1>4. ASSUME Len(s) # 1 PROVE Ordered(t)
  <2>1. ASSUME NEW i \in DOMAIN t, NEW j \in DOMAIN t, t[i] = t[j], t[i] \in {"request", "apply"}
        PROVE  i = j
    <3>1. i + 1 \in DOMAIN s /\ j + 1 \in DOMAIN s
      BY <1>1
    <3>2. s[i + 1] = s[j + 1] /\ s[i + 1] \in {"request", "apply"}
      BY <1>1, <2>1
    <3>3. i + 1 = j + 1
      BY <3>1, <3>2 DEF Ordered
    <3> QED
      BY <3>3, <1>1
  <2>2. ASSUME NEW i \in DOMAIN t, i > 1
        PROVE  /\ t[i] = "insert" => t[i - 1] = "number"
               /\ t[i] = "chain" => t[i - 1] = "fetch"
               /\ t[i] = "fetch" => t[i - 1] \in {"request", "decide", "apply"}
               /\ t[i] # "decide"
    <3>1. /\ i + 1 \in DOMAIN s /\ i + 1 > 1 /\ (i + 1) - 1 = i
          /\ i - 1 \in DOMAIN t /\ (i - 1) + 1 = i
      BY <1>1, <2>2
    <3>2. t[i] = s[i + 1] /\ t[i - 1] = s[i]
      BY <1>1, <3>1
    <3> QED
      BY <3>1, <3>2 DEF Ordered
  <2> QED
    BY <2>1, <2>2 DEF Ordered
<1>5. ASSUME Len(s) # 1, NEW access \in {"request", "decide", "apply"}
      PROVE  Has(t, access) <=> Has(s, access) /\ s[1] # access
  <2>1. ASSUME Has(t, access) PROVE Has(s, access) /\ s[1] # access
    <3>1. PICK i \in DOMAIN t : t[i] = access
      BY <2>1 DEF Has
    <3>2. i + 1 \in DOMAIN s /\ s[i + 1] = access /\ i + 1 > 1 /\ 1 \in DOMAIN s /\ i + 1 # 1
      BY <3>1, <1>1
    <3>3. s[1] # access
      BY <3>2, <1>5 DEF Ordered
    <3> QED
      BY <3>2, <3>3 DEF Has
  <2>2. ASSUME Has(s, access), s[1] # access PROVE Has(t, access)
    <3>1. PICK i \in DOMAIN s : s[i] = access
      BY <2>2 DEF Has
    <3>2. i - 1 \in DOMAIN t /\ t[i - 1] = s[i]
      <4>1. i # 1 /\ i \in 1..Len(s)
        BY <3>1, <2>2, <1>1
      <4>2. i - 1 \in DOMAIN t /\ (i - 1) + 1 = i
        BY <4>1, <1>1
      <4> QED
        BY <4>2, <1>1
    <3> QED
      BY <3>1, <3>2 DEF Has
  <2> QED
    BY <2>1, <2>2
<1>6. ASSUME Len(s) # 1
      PROVE  /\ t[1] = "insert" => s[1] = "number"
             /\ t[1] = "chain" => s[1] = "fetch"
             /\ t[1] = "fetch" => s[1] \in {"request", "decide", "apply"}
  <2>1. 2 > 1 /\ 2 - 1 = 1
    OBVIOUS
  <2> QED
    BY <1>3, <1>6, <2>1 DEF Ordered
<1> QED
  BY <1>1, <1>2, <1>3, <1>4, <1>5, <1>6 DEF t

\* A list that is to make the release row first.
LEMMA CreatingList ==
  ASSUME NEW s \in Seq(Accesses), s # <<>>, s[1] = "number", Ordered(s)
  PROVE  LET t == <<"number", "create">> \o s
         IN  /\ t \in Seq(Accesses) /\ t # <<>> /\ Ordered(t) /\ t[1] = "number" /\ t[2] = "create"
             /\ \A access \in {"request", "decide", "apply"} : Has(t, access) <=> Has(s, access)
<1> DEFINE p == <<"number", "create">>
           t == p \o s
<1>1. p \in Seq(Accesses) /\ Len(p) = 2 /\ p[1] = "number" /\ p[2] = "create"
  BY DEF Accesses
<1> HIDE DEF p
<1>2. /\ t \in Seq(Accesses) /\ Len(t) = 2 + Len(s)
      /\ \A i \in 1..2 + Len(s) : t[i] = IF i <= 2 THEN p[i] ELSE s[i - 2]
  <2>1. /\ p \o s \in Seq(Accesses) /\ Len(p \o s) = Len(p) + Len(s)
        /\ \A i \in 1..Len(p) + Len(s) :
             (p \o s)[i] = IF i <= Len(p) THEN p[i] ELSE s[i - Len(p)]
    BY <1>1, ConcatProperties
  <2> QED
    BY <1>1, <2>1
<1> HIDE DEF t
<1>3. DOMAIN s = 1..Len(s) /\ DOMAIN t = 1..Len(s) + 2 /\ Len(s) \in Nat \ {0}
  <2>1. Len(s) \in Nat \ {0}
    BY EmptySeq
  <2> QED
    BY <1>2, <2>1, LenProperties
<1>4. t[1] = "number" /\ t[2] = "create" /\ t # <<>>
  <2>1. 1 \in 1..2 + Len(s) /\ 2 \in 1..2 + Len(s)
    BY <1>3
  <2>2. t[1] = p[1] /\ t[2] = p[2]
    BY <1>2, <2>1
  <2> QED
    BY <1>1, <1>2, <1>3, <2>2
<1>5. \A i \in DOMAIN t : i # 1 /\ i # 2 => i - 2 \in DOMAIN s /\ t[i] = s[i - 2]
  BY <1>2, <1>3
<1>6. \A i \in DOMAIN s : i + 2 \in DOMAIN t /\ t[i + 2] = s[i]
  BY <1>3, <1>5
<1>7. ASSUME NEW access \in {"request", "decide", "apply"}
      PROVE  Has(t, access) <=> Has(s, access)
  <2>1. Has(s, access) => Has(t, access)
    BY <1>6 DEF Has
  <2>2. ASSUME Has(t, access) PROVE Has(s, access)
    <3>1. PICK i \in DOMAIN t : t[i] = access
      BY <2>2 DEF Has
    <3>2. i # 1 /\ i # 2
      BY <3>1, <1>4, <1>7
    <3> QED
      BY <3>1, <3>2, <1>5 DEF Has
  <2> QED
    BY <2>1, <2>2
<1>8. ASSUME NEW i \in DOMAIN t, NEW j \in DOMAIN t, t[i] = t[j], t[i] \in {"request", "apply"}
      PROVE  i = j
  <2>1. i # 1 /\ i # 2 /\ j # 1 /\ j # 2
    BY <1>4, <1>8
  <2>2. /\ i - 2 \in DOMAIN s /\ j - 2 \in DOMAIN s
        /\ s[i - 2] = s[j - 2] /\ s[i - 2] \in {"request", "apply"}
    BY <2>1, <1>5, <1>8
  <2>3. i - 2 = j - 2
    BY <2>2 DEF Ordered
  <2> QED
    BY <2>3, <1>3
<1>9. ASSUME NEW i \in DOMAIN t, i > 1
      PROVE  /\ t[i] = "insert" => t[i - 1] = "number"
             /\ t[i] = "chain" => t[i - 1] = "fetch"
             /\ t[i] = "fetch" => t[i - 1] \in {"request", "decide", "apply"}
             /\ t[i] # "decide"
  <2>1. CASE i = 2
    BY <2>1, <1>4
  <2>2. CASE i = 3
    <3>1. t[i] = s[1]
      BY <2>2, <1>5
    <3> QED
      BY <3>1
  <2>3. CASE i # 2 /\ i # 3
    <3>1. i - 2 \in DOMAIN s /\ i - 2 > 1 /\ i - 1 \in DOMAIN t /\ i - 1 # 1 /\ i - 1 # 2
          /\ (i - 1) - 2 = (i - 2) - 1
      BY <2>3, <1>3, <1>9
    <3>2. t[i] = s[i - 2] /\ t[i - 1] = s[(i - 2) - 1]
      BY <3>1, <2>3, <1>5, <1>9
    <3> QED
      BY <3>1, <3>2 DEF Ordered
  <2> QED
    BY <2>1, <2>2, <2>3
<1>10. Ordered(t)
  BY <1>8, <1>9 DEF Ordered
<1> QED
  BY <1>2, <1>4, <1>7, <1>10 DEF t, p

-----------------------------------------------------------------------------
\* What one access makes of a call.

LEMMA IdleCall ==
  /\ AdminIdle \in Callish /\ AdminIdle.todo = <<>>
  /\ \A access : ~Has(AdminIdle.todo, access)
  /\ \A access : ~Faces(AdminIdle, access)
  /\ \A n, m \in Nat : Shape(AdminIdle, n, m)
<1>1. AdminIdle.todo = <<>>
  BY DEF AdminIdle
<1>2. AdminIdle \in Callish
  <2>1. <<>> \in Seq(Accesses)
    OBVIOUS
  <2> QED
    BY <2>1, Constants DEF AdminIdle, Callish, NoRow, Rowish, Channels, Events
<1>3. \A access : ~Has(AdminIdle.todo, access) /\ ~Faces(AdminIdle, access)
  BY <1>1 DEF Has, Faces
<1>4. \A n, m \in Nat : Shape(AdminIdle, n, m)
  BY <1>1, <1>3 DEF Shape, Ordered
<1> QED
  BY <1>1, <1>2, <1>3, <1>4

Advanced(k) == IF Len(k.todo) = 1 THEN AdminIdle ELSE [k EXCEPT !.todo = Tail(@)]

Becomes(k, j) ==
  /\ j \in Callish /\ Ordered(j.todo)
  /\ \A access \in {"request", "decide", "apply"} :
       Has(j.todo, access) <=> Has(k.todo, access) /\ ~Faces(k, access)
  /\ j.todo # <<>> =>
       /\ j.decision = k.decision
       /\ ~Faces(k, "request") => j.req = k.req
       /\ Faces(j, "insert") => Faces(k, "number")
       /\ Faces(j, "chain") => Faces(k, "fetch")
       /\ Faces(j, "fetch") => Faces(k, "request") \/ Faces(k, "decide") \/ Faces(k, "apply")

LEMMA Advances ==
  ASSUME NEW k \in Callish, k.todo # <<>>, Ordered(k.todo)
  PROVE  /\ Becomes(k, Advanced(k))
         /\ Advanced(k).todo # <<>> =>
              /\ Advanced(k).no = k.no /\ Advanced(k).req = k.req /\ Advanced(k).prev = k.prev
              /\ Advanced(k).todo[1] = k.todo[2]
<1> DEFINE s == k.todo
<1>1. s \in Seq(Accesses) /\ s # <<>> /\ Ordered(s)
  BY DEF Callish
<1>2. CASE Len(s) = 1
  <2>1. Advanced(k) = AdminIdle
    BY <1>2 DEF Advanced
  <2>2. \A access : Has(s, access) <=> s[1] = access
    BY <1>1, <1>2, TailList
  <2>3. Ordered(AdminIdle.todo)
    BY IdleCall DEF Ordered
  <2>4. \A access \in {"request", "decide", "apply"} :
          Has(AdminIdle.todo, access) <=> Has(s, access) /\ ~Faces(k, access)
    BY <2>2, <1>1, IdleCall DEF Faces
  <2> QED
    BY <2>1, <2>3, <2>4, IdleCall DEF Becomes
<1>3. CASE Len(s) # 1
  <2> DEFINE j == [k EXCEPT !.todo = Tail(s)]
  <2>1. Advanced(k) = j
    BY <1>3 DEF Advanced
  <2>2. /\ Tail(s) \in Seq(Accesses) /\ Tail(s) # <<>> /\ Ordered(Tail(s))
        /\ Tail(s)[1] = s[2]
        /\ \A access \in {"request", "decide", "apply"} :
             Has(Tail(s), access) <=> Has(s, access) /\ s[1] # access
        /\ Tail(s)[1] = "insert" => s[1] = "number"
        /\ Tail(s)[1] = "chain" => s[1] = "fetch"
        /\ Tail(s)[1] = "fetch" => s[1] \in {"request", "decide", "apply"}
    BY <1>1, <1>3, TailList
  <2>3. /\ j \in Callish /\ j.todo = Tail(s) /\ j.no = k.no /\ j.req = k.req /\ j.prev = k.prev
        /\ j.decision = k.decision
    BY <2>2 DEF Callish
  <2> HIDE DEF j
  <2>4. Becomes(k, j)
    BY <1>1, <2>2, <2>3 DEF Becomes, Faces
  <2> QED
    BY <2>1, <2>2, <2>3, <2>4
<1> QED
  BY <1>2, <1>3

LEMMA ShapeKept ==
  ASSUME NEW k \in Callish, NEW j, NEW n \in Nat, NEW m \in Nat, NEW n2 \in Nat, NEW m2 \in Nat,
         k.todo # <<>>, Shape(k, n, m), Becomes(k, j), n <= n2, m <= m2,
         Faces(j, "insert") => j.no \in 1..(m2 + 1),
         j.todo # <<>> /\ Faces(k, "request") => j.req \in 1..n2
  PROVE  Shape(j, n2, m2)
<1>1. Has(k.todo, "decide") \/ Has(k.todo, "apply") => k.decision # "none"
  BY DEF Shape, Decisions
<1>2. Faces(k, "decide") \/ Faces(k, "apply") => k.decision # "none" /\ k.todo # <<>>
  <2>1. \A access : Faces(k, access) => Has(k.todo, access) /\ k.todo # <<>>
    <3>1. k.todo # <<>> => 1 \in DOMAIN k.todo
      BY EmptySeq, LenProperties DEF Callish
    <3> QED
      BY <3>1 DEF Faces, Has
  <2> QED
    BY <1>1, <2>1
<1>3. 1..n \subseteq 1..n2
  OBVIOUS
<1>4. Faces(j, "fetch") \/ Faces(j, "chain") => j.req \in 1..n2
  <2>1. ASSUME Faces(j, "chain") PROVE j.req \in 1..n2
    <3>1. j.todo # <<>> /\ Faces(k, "fetch") /\ ~Faces(k, "request")
      BY <2>1 DEF Becomes, Faces
    <3>2. k.req \in 1..n /\ j.req = k.req
      BY <3>1 DEF Becomes, Shape
    <3> QED
      BY <3>2, <1>3
  <2>2. ASSUME Faces(j, "fetch") PROVE j.req \in 1..n2
    <3>1. j.todo # <<>> /\ (Faces(k, "request") \/ Faces(k, "decide") \/ Faces(k, "apply"))
      BY <2>2 DEF Becomes, Faces
    <3>2. CASE Faces(k, "request")
      BY <3>1, <3>2
    <3>3. CASE Faces(k, "decide") \/ Faces(k, "apply")
      <4>1. ~Faces(k, "request")
        BY <3>3 DEF Faces
      <4>2. k.req \in 1..n
        BY <1>2, <3>3 DEF Shape
      <4>3. j.req = k.req
        BY <3>1, <4>1 DEF Becomes
      <4> QED
        BY <4>2, <4>3, <1>3
    <3> QED
      BY <3>1, <3>2, <3>3
  <2> QED
    BY <2>1, <2>2
<1>5. j.todo # <<>> /\ j.decision # "none" => j.req \in 1..n2
  <2>1. ASSUME j.todo # <<>>, j.decision # "none" PROVE j.req \in 1..n2
    <3>1. CASE Faces(k, "request")
      BY <2>1, <3>1
    <3>2. CASE ~Faces(k, "request")
      <4>1. j.req = k.req /\ k.decision # "none"
        BY <2>1, <3>2 DEF Becomes
      <4> QED
        BY <4>1, <1>3 DEF Shape
    <3> QED
      BY <3>1, <3>2
  <2> QED
    BY <2>1
<1>6. \A access : Has(j.todo, access) => j.todo # <<>>
  BY DEF Has
<1>7. Has(j.todo, "request") => j.decision = "none"
  BY <1>6 DEF Becomes, Shape
<1>8. Has(j.todo, "apply") => j.decision = "approved"
  BY <1>6 DEF Becomes, Shape
<1>9. ~Has(j.todo, "decide")
  <2>1. SUFFICES ASSUME Has(k.todo, "decide") PROVE Faces(k, "decide")
    BY DEF Becomes
  <2>2. PICK i \in DOMAIN k.todo : k.todo[i] = "decide"
    BY <2>1 DEF Has
  <2>3. DOMAIN k.todo = 1..Len(k.todo)
    BY LenProperties DEF Callish
  <2>4. ~(i > 1)
    BY <2>2 DEF Shape, Ordered
  <2> QED
    BY <2>2, <2>3, <2>4 DEF Faces
<1>10. Ordered(j.todo)
  BY DEF Becomes
<1> QED
  BY <1>4, <1>5, <1>7, <1>8, <1>9, <1>10 DEF Shape

-----------------------------------------------------------------------------
\* A step of a call, summed up.

Others(c) ==
  /\ adminCall' \in [AdminCalls -> Callish]
  /\ \A d \in AdminCalls \ {c} : adminCall'[d] = adminCall[d]

Fresh(k) ==
  /\ k \in Callish /\ k.todo # <<>> /\ Shape(k, Len(requests), Len(versions))
  /\ ~Faces(k, "insert") /\ ~Faces(k, "chain")
  /\ k.decision # "none" => Has(k.todo, "decide") /\ requests[k.req].status = "pending"

Begun(c) ==
  /\ adminCall[c].todo = <<>> /\ Fresh(adminCall'[c]) /\ Others(c)
  /\ begun < MaxAdminCalls /\ begun' = begun + 1
  /\ UNCHANGED <<app, versions, requests, audit>>
  /\ past' \in Pastish /\ past'.forked = past.forked /\ past'.abandoned = past.abandoned
  /\ past.contested \subseteq past'.contested
  /\ \A d \in AdminCalls \ {c} : \A r \in Reviewing(adminCall'[c]) :
       r \in Reviewing(adminCall[d]) => r \in past'.contested

Stopped(c) ==
  /\ adminCall'[c] = AdminIdle /\ Others(c) /\ begun' = begun
  /\ UNCHANGED <<app, versions, requests, audit>>
  /\ past' \in Pastish /\ past'.forked = past.forked /\ past'.contested = past.contested
  /\ past'.abandoned = past.abandoned \cup Reviewing(adminCall[c])

Versioned(k, j) ==
  /\ Faces(j, "insert") => j.no = Max(Numbers \cup {0}) + 1
  /\ \/ versions' = versions
     \/ \E v \in Versionish : Faces(k, "insert") /\ k.no \notin Numbers /\ v.no = k.no
                              /\ versions' = Append(versions, v)
Requested(k, j) ==
  \/ /\ ~Faces(k, "request") /\ ~Faces(k, "decide") /\ ~Faces(k, "apply")
     /\ requests' = requests
  \/ /\ Faces(k, "request")
     /\ j.todo # <<>> => j.req = Len(requests) + 1
     /\ \E q \in Requestish : q.status = "pending" /\ requests' = Append(requests, q)
  \/ \E q \in Requestish :
       /\ \/ Faces(k, "decide") /\ q.status = k.decision
          \/ Faces(k, "apply") /\ q.status = "applied"
       /\ requests' = [requests EXCEPT ![k.req] = q]
Logged(k, j) ==
  /\ Faces(j, "chain") =>
       \/ k.req \in past'.forked
       \/ /\ j.prev = Len(audit[k.req])
          /\ \A d \in AdminCalls : ~(Faces(adminCall[d], "chain") /\ adminCall[d].req = k.req)
  /\ \/ audit' = audit
     \/ \E e \in AuditRow : Faces(k, "chain") /\ e.prev = k.prev
                            /\ audit' = [audit EXCEPT ![k.req] = Append(audit[k.req], e)]
Moved(c) ==
  /\ adminCall[c].todo # <<>> /\ Becomes(adminCall[c], adminCall'[c]) /\ Others(c)
  /\ begun' = begun /\ app' \in Rowish
  /\ past' \in Pastish /\ past.forked \subseteq past'.forked
  /\ past'.contested = past.contested /\ past'.abandoned = past.abandoned
  /\ Versioned(adminCall[c], adminCall'[c])
  /\ Requested(adminCall[c], adminCall'[c])
  /\ Logged(adminCall[c], adminCall'[c])

LEMMA AtNext ==
  ASSUME NEW c, NEW access
  PROVE  At(c, access) <=> Faces(adminCall[c], access)
BY DEF At, Faces

LEMMA ReqId ==
  ASSUME Basis, NEW n \in 1..Len(requests)
  PROVE  n \in RequestId
<1>1. Len(requests) \in Nat /\ Cardinality(Asking) \in Nat /\ begun \in 0..MaxAdminCalls
  BY FS_CardinalityType DEF Basis, AskingCounted, RowsTyped, CallsTyped
<1> QED
  BY <1>1, Constants DEF Basis, AskingCounted, RequestId

LEMMA QuitStops ==
  ASSUME Basis, NEW c \in AdminCalls, Quit(c), UNCHANGED <<app, versions, requests, audit>>
  PROVE  Stopped(c)
<1>1. past \in Pastish /\ adminCall \in [AdminCalls -> Callish]
  BY DEF Basis, CallsTyped
<1>2. adminCall' = [adminCall EXCEPT ![c] = AdminIdle] /\ begun' = begun
  BY DEF Quit
<1>3. adminCall'[c] = AdminIdle /\ Others(c)
  BY <1>1, <1>2, IdleCall DEF Others
<1>4. Reviewing(adminCall[c]) \subseteq Nat
  BY <1>1 DEF Reviewing, Callish
<1>5. PICK mixed \in BOOLEAN :
        past' = [past EXCEPT !.mixed = mixed,
                             !.abandoned = past.abandoned \cup Reviewing(adminCall[c])]
  <2>1. (past.mixed \/ Releases(adminCall[c])) \in BOOLEAN
    BY <1>1 DEF Pastish, Releases, Does
  <2> QED
    BY <2>1 DEF Quit
<1>6. /\ past' \in Pastish /\ past'.forked = past.forked /\ past'.contested = past.contested
      /\ past'.abandoned = past.abandoned \cup Reviewing(adminCall[c])
  BY <1>1, <1>4, <1>5 DEF Pastish
<1> QED
  BY <1>2, <1>3, <1>6 DEF Stopped

LEMMA BeginBegins ==
  ASSUME Basis, NEW c \in AdminCalls, NEW k, Fresh(k), Begin(c, k)
  PROVE  Begun(c)
<1>1. past \in Pastish /\ adminCall \in [AdminCalls -> Callish]
  BY DEF Basis, CallsTyped
<1>2. adminCall' = [adminCall EXCEPT ![c] = k] /\ k \in Callish
  BY DEF Begin, Fresh
<1>3. adminCall'[c] = k /\ Others(c)
  BY <1>1, <1>2 DEF Others
<1> DEFINE others == {adminCall[d] : d \in AdminCalls \ {c}}
           met == {r \in Reviewing(k) : \E d \in others : r \in Reviewing(d)}
<1>4. met \subseteq Nat
  BY <1>2 DEF Reviewing, Callish
<1>5. PICK mixed \in BOOLEAN :
        past' = [past EXCEPT !.mixed = mixed, !.contested = past.contested \cup met]
  <2>1. (past.mixed \/ (Releases(k) /\ \E d \in others : Releases(d))) \in BOOLEAN
    BY <1>1 DEF Pastish, Releases, Does
  <2> QED
    BY <2>1 DEF Begin
<1>6. \A d \in AdminCalls \ {c} : \A r \in Reviewing(k) : r \in Reviewing(adminCall[d]) => r \in met
  OBVIOUS
<1> HIDE DEF met
<1>7. /\ past' \in Pastish /\ past'.forked = past.forked /\ past'.abandoned = past.abandoned
      /\ past'.contested = past.contested \cup met
  BY <1>1, <1>4, <1>5 DEF Pastish
<1>8. /\ adminCall[c].todo = <<>> /\ begun < MaxAdminCalls /\ begun' = begun + 1
      /\ UNCHANGED <<app, versions, requests, audit>>
  BY DEF Begin
<1> QED
  BY <1>3, <1>6, <1>7, <1>8 DEF Begun

\* k is what the call is to be, but for the access that is made.
LEMMA ProceedAdvances ==
  ASSUME Basis, NEW c \in AdminCalls, adminCall[c].todo # <<>>, NEW k \in Callish,
         k.todo = adminCall[c].todo, k.decision = adminCall[c].decision,
         ~Faces(adminCall[c], "request") => k.req = adminCall[c].req, Proceed(c, k)
  PROVE  /\ Becomes(adminCall[c], adminCall'[c]) /\ Others(c) /\ begun' = begun
         /\ adminCall'[c].todo # <<>> =>
              /\ adminCall'[c].no = k.no /\ adminCall'[c].req = k.req /\ adminCall'[c].prev = k.prev
<1>1. adminCall \in [AdminCalls -> Callish] /\ Ordered(k.todo) /\ k.todo # <<>>
  BY DEF Basis, CallsTyped, Shaped, Shape
<1>2. /\ Becomes(k, Advanced(k))
      /\ Advanced(k).todo # <<>> =>
           Advanced(k).no = k.no /\ Advanced(k).req = k.req /\ Advanced(k).prev = k.prev
  BY <1>1, Advances
<1>3. adminCall' = [adminCall EXCEPT ![c] = Advanced(k)] /\ begun' = begun
  BY DEF Proceed, Advanced
<1>4. Advanced(k) \in Callish
  BY <1>2 DEF Becomes
<1>5. adminCall'[c] = Advanced(k) /\ Others(c)
  BY <1>1, <1>3, <1>4 DEF Others
<1>6. Becomes(adminCall[c], Advanced(k))
  BY <1>2 DEF Becomes, Faces
<1> QED
  BY <1>2, <1>3, <1>5, <1>6

LEMMA Here ==
  ASSUME Basis, NEW c \in AdminCalls
  PROVE  /\ adminCall[c] \in Callish /\ app \in Rowish /\ past \in Pastish
         /\ versions \in Seq(Versionish) /\ requests \in Seq(Requestish)
         /\ audit \in [RequestId -> Seq(AuditRow)]
         /\ Shape(adminCall[c], Len(requests), Len(versions))
BY DEF Basis, RowsTyped, CallsTyped, Shaped

LEMMA MaxNumber ==
  ASSUME versions \in Seq(Versionish), VersionsNumbered
  PROVE  Max(Numbers \cup {0}) = Len(versions)
<1>1. Len(versions) \in Nat /\ DOMAIN versions = 1..Len(versions)
  BY LenProperties
<1>2. Numbers \cup {0} = 0..Len(versions)
  BY <1>1 DEF Numbers, VersionsNumbered
<1> DEFINE S == Numbers \cup {0}
           x == Len(versions)
<1>3. x \in S /\ \A y \in S : x >= y
  BY <1>1, <1>2
<1>4. \A z \in S : (\A y \in S : z >= y) => z = x
  BY <1>1, <1>2
<1> HIDE DEF S, x
<1>5. Max(S) = x
  BY <1>3, <1>4 DEF Max
<1> QED
  BY <1>5 DEF S, x

\* An access that touches nothing that is summed up but the app.
LEMMA PlainMoves ==
  ASSUME Basis, NEW c \in AdminCalls, NEW access \in {"write", "create", "point", "reload"},
         Faces(adminCall[c], access), NEW k \in Callish, k.todo = adminCall[c].todo,
         k.decision = adminCall[c].decision, k.req = adminCall[c].req, Proceed(c, k),
         app' \in Rowish, UNCHANGED <<versions, requests, audit, past>>
  PROVE  Moved(c)
<1>1. adminCall[c].todo # <<>>
  BY DEF Faces
<1>2. Becomes(adminCall[c], adminCall'[c]) /\ Others(c) /\ begun' = begun
  BY <1>1, ProceedAdvances
<1>3. \A other \in {"number", "insert", "request", "decide", "apply", "fetch", "chain"} :
        ~Faces(adminCall[c], other)
  BY DEF Faces
<1>4. ~Faces(adminCall'[c], "insert") /\ ~Faces(adminCall'[c], "chain")
  BY <1>2, <1>3 DEF Becomes, Faces
<1>5. /\ Versioned(adminCall[c], adminCall'[c]) /\ Requested(adminCall[c], adminCall'[c])
      /\ Logged(adminCall[c], adminCall'[c])
  BY <1>3, <1>4 DEF Versioned, Requested, Logged
<1> QED
  BY <1>1, <1>2, <1>5, Here DEF Moved

LEMMA WriteMoves ==
  ASSUME Basis, NEW c \in AdminCalls, WriteApp(c)
  PROVE  Moved(c)
<1>1. app' \in Rowish
  BY Here DEF WriteApp, Callish
<1> QED
  BY <1>1, Here, AtNext, PlainMoves DEF WriteApp, Pass

LEMMA PointMoves ==
  ASSUME Basis, NEW c \in AdminCalls, PointRelease(c)
  PROVE  Moved(c)
BY Here, AtNext, PlainMoves DEF PointRelease, Pass

LEMMA ReloadMoves ==
  ASSUME Basis, NEW c \in AdminCalls, ReloadApp(c)
  PROVE  Moved(c)
<1> DEFINE k == [adminCall[c] EXCEPT !.row = [content |-> app.content, status |-> "active"],
                                     !.channel = "published"]
<1>1. /\ k \in Callish /\ k.todo = adminCall[c].todo /\ k.decision = adminCall[c].decision
      /\ k.req = adminCall[c].req
  <2>1. [content |-> app.content, status |-> "active"] \in Rowish
    BY Here DEF Rowish, AppStatuses
  <2> QED
    BY <2>1, Here DEF Callish, Channels
<1>2. Proceed(c, k) /\ app' \in Rowish /\ UNCHANGED <<versions, requests, audit, past>>
  BY Here DEF ReloadApp, Rows
<1> HIDE DEF k
<1> QED
  BY <1>1, <1>2, AtNext, PlainMoves DEF ReloadApp

LEMMA CreateSteps ==
  ASSUME Basis, NEW c \in AdminCalls, CreateRelease(c)
  PROVE  Moved(c) \/ Stopped(c)
<1>1. CASE app = NoRow \/ release # NoRelease
  BY <1>1, QuitStops DEF CreateRelease
<1>2. CASE ~(app = NoRow \/ release # NoRelease)
  BY <1>2, Here, AtNext, PlainMoves DEF CreateRelease, Pass
<1> QED
  BY <1>1, <1>2

LEMMA NumberMoves ==
  ASSUME Basis, VersionsNumbered, NEW c \in AdminCalls, NextVersionNo(c)
  PROVE  Moved(c)
<1>1. Faces(adminCall[c], "number") /\ adminCall[c].todo # <<>>
  BY AtNext DEF NextVersionNo, Faces
<1>2. \A other \in {"insert", "request", "decide", "apply", "fetch", "chain"} :
        ~Faces(adminCall[c], other)
  BY <1>1 DEF Faces
<1>3. app' \in Rowish /\ UNCHANGED <<versions, requests, audit, past>>
  BY Here DEF NextVersionNo, Rows
<1>4. ASSUME Becomes(adminCall[c], adminCall'[c]), Others(c), begun' = begun,
             Faces(adminCall'[c], "insert") => adminCall'[c].no = Max(Numbers \cup {0}) + 1
      PROVE  Moved(c)
  <2>1. ~Faces(adminCall'[c], "chain")
    BY <1>2, <1>4 DEF Becomes, Faces
  <2>2. /\ Versioned(adminCall[c], adminCall'[c]) /\ Requested(adminCall[c], adminCall'[c])
        /\ Logged(adminCall[c], adminCall'[c])
    BY <1>2, <1>3, <1>4, <2>1 DEF Versioned, Requested, Logged
  <2> QED
    BY <1>1, <1>3, <1>4, <2>2, Here DEF Moved
<1>5. CASE release = NoRelease
  <2> DEFINE s == adminCall[c].todo
             t == <<"number", "create">> \o s
             k == [adminCall[c] EXCEPT !.todo = t]
  <2>1. s \in Seq(Accesses) /\ s # <<>> /\ s[1] = "number" /\ Ordered(s)
    BY <1>1, Here DEF Callish, Shape, Faces
  <2>2. /\ t \in Seq(Accesses) /\ t # <<>> /\ Ordered(t) /\ t[1] = "number" /\ t[2] = "create"
        /\ \A access \in {"request", "decide", "apply"} : Has(t, access) <=> Has(s, access)
    BY <2>1, CreatingList
  <2> HIDE DEF t
  <2>3. /\ k \in Callish /\ k.todo = t
        /\ k.decision = adminCall[c].decision /\ k.req = adminCall[c].req
    BY <2>2, Here DEF Callish
  <2>4. Proceed(c, k)
    BY <1>5 DEF NextVersionNo, t
  <2> HIDE DEF k
  <2>5. /\ Becomes(k, Advanced(k))
        /\ Advanced(k).todo # <<>> => Advanced(k).todo[1] = "create" /\ Advanced(k).req = k.req
    BY <2>2, <2>3, Advances
  <2>6. adminCall' = [adminCall EXCEPT ![c] = Advanced(k)] /\ begun' = begun
    BY <2>4 DEF Proceed, Advanced
  <2>7. adminCall'[c] = Advanced(k) /\ Others(c)
    BY <2>5, <2>6 DEF Others, Becomes, Basis, CallsTyped
  <2>8. Faces(k, "number") /\ \A other \in {"request", "decide", "apply", "fetch"} : ~Faces(k, other)
    BY <2>2, <2>3 DEF Faces
  <2>9. Becomes(adminCall[c], Advanced(k)) /\ ~Faces(Advanced(k), "insert")
    BY <1>1, <1>2, <2>2, <2>3, <2>5, <2>8 DEF Becomes, Faces
  <2> QED
    BY <1>4, <2>6, <2>7, <2>9
<1>6. CASE release # NoRelease
  <2> DEFINE k == [adminCall[c] EXCEPT !.no = Max(Numbers \cup {0}) + 1]
  <2>1. Max(Numbers \cup {0}) + 1 \in Nat
    BY MaxNumber, Here, LenProperties
  <2>2. /\ k \in Callish /\ k.todo = adminCall[c].todo /\ k.decision = adminCall[c].decision
        /\ k.req = adminCall[c].req /\ k.no = Max(Numbers \cup {0}) + 1
    BY <2>1, Here DEF Callish
  <2>3. Proceed(c, k)
    BY <1>6 DEF NextVersionNo
  <2> HIDE DEF k
  <2>4. /\ Becomes(adminCall[c], adminCall'[c]) /\ Others(c) /\ begun' = begun
        /\ adminCall'[c].todo # <<>> => adminCall'[c].no = k.no
    BY <1>1, <2>2, <2>3, ProceedAdvances
  <2> QED
    BY <1>4, <2>2, <2>4 DEF Faces
<1> QED
  BY <1>5, <1>6

LEMMA InsertSteps ==
  ASSUME Basis, NEW c \in AdminCalls, InsertVersion(c)
  PROVE  Moved(c) \/ Stopped(c)
<1>1. Faces(adminCall[c], "insert") /\ adminCall[c].todo # <<>>
  BY AtNext DEF InsertVersion, Faces
<1>2. \A other \in {"number", "request", "decide", "apply", "fetch", "chain"} :
        ~Faces(adminCall[c], other)
  BY <1>1 DEF Faces
<1>3. CASE Taken(adminCall[c].no)
  BY <1>3, QuitStops DEF InsertVersion
<1>4. CASE ~Taken(adminCall[c].no)
  <2> DEFINE v == [no |-> adminCall[c].no, row |-> adminCall[c].row, channel |-> adminCall[c].channel]
  <2>1. v \in Versionish /\ v.no = adminCall[c].no
    BY Here DEF Versionish, Callish
  <2>2. versions' = Append(versions, v) /\ Pass(c) /\ UNCHANGED <<app, requests, audit>>
    BY <1>4 DEF InsertVersion
  <2> HIDE DEF v
  <2>3. Becomes(adminCall[c], adminCall'[c]) /\ Others(c) /\ begun' = begun
    BY <1>1, <2>2, Here, ProceedAdvances DEF Pass
  <2>4. ~Faces(adminCall'[c], "insert") /\ ~Faces(adminCall'[c], "chain")
    BY <1>2, <2>3 DEF Becomes, Faces
  <2>5. Versioned(adminCall[c], adminCall'[c])
    BY <1>1, <1>4, <2>1, <2>2, <2>4 DEF Versioned, Taken
  <2>6. Requested(adminCall[c], adminCall'[c]) /\ Logged(adminCall[c], adminCall'[c])
    BY <1>2, <2>2, <2>4 DEF Requested, Logged, Pass
  <2> QED
    BY <1>1, <2>2, <2>3, <2>5, <2>6, Here DEF Moved, Pass
<1> QED
  BY <1>3, <1>4

LEMMA RequestSteps ==
  ASSUME Basis, NEW c \in AdminCalls, CreateRequest(c)
  PROVE  Moved(c) \/ Stopped(c)
<1>1. Faces(adminCall[c], "request") /\ adminCall[c].todo # <<>>
  BY AtNext DEF CreateRequest, Faces
<1>2. \A other \in {"number", "insert", "decide", "apply", "fetch", "chain"} :
        ~Faces(adminCall[c], other)
  BY <1>1 DEF Faces
<1>3. CASE ~NonePending
  BY <1>3, QuitStops DEF CreateRequest
<1>4. CASE NonePending
  <2> DEFINE q == [status |-> "pending", by |-> adminCall[c].actor, version |-> adminCall[c].no,
                   applied |-> 0]
             n == Len(requests) + 1
             k == [adminCall[c] EXCEPT !.req = n]
  <2>1. q \in Requestish /\ q.status = "pending"
    BY Here DEF Requestish, Callish, RequestStatuses
  <2>2. n \in Nat
    BY Here, LenProperties
  <2> HIDE DEF n
  <2>3. /\ k \in Callish /\ k.todo = adminCall[c].todo /\ k.decision = adminCall[c].decision
        /\ k.req = n
    BY <2>2, Here DEF Callish
  <2>4. /\ requests' = Append(requests, q) /\ Proceed(c, k)
        /\ UNCHANGED <<app, versions, audit, past>>
    BY <1>4 DEF CreateRequest, n
  <2> HIDE DEF q, k
  <2>5. /\ Becomes(adminCall[c], adminCall'[c]) /\ Others(c) /\ begun' = begun
        /\ adminCall'[c].todo # <<>> => adminCall'[c].req = k.req
    BY <1>1, <2>3, <2>4, ProceedAdvances
  <2>6. ~Faces(adminCall'[c], "insert") /\ ~Faces(adminCall'[c], "chain")
    BY <1>2, <2>5 DEF Becomes, Faces
  <2>7. Requested(adminCall[c], adminCall'[c])
    BY <1>1, <2>1, <2>3, <2>4, <2>5 DEF Requested, n
  <2>8. Versioned(adminCall[c], adminCall'[c]) /\ Logged(adminCall[c], adminCall'[c])
    BY <2>4, <2>6 DEF Versioned, Logged
  <2> QED
    BY <1>1, <2>4, <2>5, <2>7, <2>8, Here DEF Moved
<1> QED
  BY <1>3, <1>4

\* A call that decides or applies has a request.
LEMMA Marking ==
  ASSUME Basis, NEW c \in AdminCalls, Faces(adminCall[c], "decide") \/ Faces(adminCall[c], "apply")
  PROVE  /\ adminCall[c].todo # <<>> /\ adminCall[c].decision \in Decisions
         /\ Faces(adminCall[c], "apply") => adminCall[c].decision = "approved"
         /\ adminCall[c].req \in 1..Len(requests) /\ adminCall[c].req \in DOMAIN requests
         /\ requests[adminCall[c].req] \in Requestish
<1>1. adminCall[c].todo # <<>> /\ 1 \in DOMAIN adminCall[c].todo
  BY EmptySeq, LenProperties, Here DEF Faces, Callish
<1>2. \A access : Faces(adminCall[c], access) => Has(adminCall[c].todo, access)
  BY <1>1 DEF Faces, Has
<1>3. /\ adminCall[c].decision \in Decisions
      /\ Faces(adminCall[c], "apply") => adminCall[c].decision = "approved"
  BY <1>2, Here DEF Shape, Decisions
<1>4. adminCall[c].req \in 1..Len(requests)
  BY <1>1, <1>3, Here DEF Shape, Decisions
<1> QED
  BY <1>1, <1>3, <1>4, Here, LenProperties, ElementOfSeq

LEMMA MarkMoves ==
  ASSUME Basis, NEW c \in AdminCalls, NEW q \in Requestish, NEW event \in Events,
         \/ Faces(adminCall[c], "decide") /\ q.status = adminCall[c].decision
         \/ Faces(adminCall[c], "apply") /\ q.status = "applied",
         requests' = [requests EXCEPT ![adminCall[c].req] = q],
         Proceed(c, [adminCall[c] EXCEPT !.event = event]),
         UNCHANGED <<app, versions, audit, past>>
  PROVE  Moved(c)
<1> DEFINE k == [adminCall[c] EXCEPT !.event = event]
<1>1. /\ k \in Callish /\ k.todo = adminCall[c].todo /\ k.decision = adminCall[c].decision
      /\ k.req = adminCall[c].req
  BY Here DEF Callish
<1>2. Proceed(c, k)
  OBVIOUS
<1> HIDE DEF k
<1>3. adminCall[c].todo # <<>>
  BY DEF Faces
<1>4. Becomes(adminCall[c], adminCall'[c]) /\ Others(c) /\ begun' = begun
  BY <1>1, <1>2, <1>3, ProceedAdvances
<1>5. ~Faces(adminCall[c], "number") /\ ~Faces(adminCall[c], "fetch")
  BY DEF Faces
<1>6. ~Faces(adminCall'[c], "insert") /\ ~Faces(adminCall'[c], "chain")
  BY <1>4, <1>5 DEF Becomes, Faces
<1>7. Requested(adminCall[c], adminCall'[c])
  BY DEF Requested
<1>8. Versioned(adminCall[c], adminCall'[c]) /\ Logged(adminCall[c], adminCall'[c])
  BY <1>6 DEF Versioned, Logged
<1> QED
  BY <1>3, <1>4, <1>7, <1>8, Here DEF Moved

LEMMA DecideMoves ==
  ASSUME Basis, NEW c \in AdminCalls, Decide(c)
  PROVE  Moved(c)
<1>1. Faces(adminCall[c], "decide")
  BY AtNext DEF Decide
<1> DEFINE old == requests[adminCall[c].req]
           q == [old EXCEPT !.status = adminCall[c].decision]
<1>2. q \in Requestish /\ q.status = adminCall[c].decision
  BY <1>1, Marking DEF Requestish, RequestStatuses
<1>3. adminCall[c].decision \in Events
  BY <1>1, Marking DEF Events
<1>4. requests' = [requests EXCEPT ![adminCall[c].req] = q]
  BY <1>1, Marking DEF Decide
<1>5. /\ Proceed(c, [adminCall[c] EXCEPT !.event = adminCall[c].decision])
      /\ UNCHANGED <<app, versions, audit, past>>
  BY DEF Decide
<1> HIDE DEF q
<1> QED
  BY <1>1, <1>2, <1>3, <1>4, <1>5, MarkMoves

LEMMA ApplyMoves ==
  ASSUME Basis, NEW c \in AdminCalls, Apply(c)
  PROVE  Moved(c)
<1>1. Faces(adminCall[c], "apply")
  BY AtNext DEF Apply
<1> DEFINE old == requests[adminCall[c].req]
           q == [old EXCEPT !.status = "applied", !.applied = adminCall[c].no]
<1>2. q \in Requestish /\ q.status = "applied"
  BY <1>1, Marking, Here DEF Requestish, RequestStatuses, Callish
<1>3. "request_applied" \in Events
  BY DEF Events
<1>4. requests' = [requests EXCEPT ![adminCall[c].req] = q]
  BY <1>1, Marking, Here DEF Apply
<1>5. /\ Proceed(c, [adminCall[c] EXCEPT !.event = "request_applied"])
      /\ UNCHANGED <<app, versions, audit, past>>
  BY DEF Apply
<1> HIDE DEF q
<1> QED
  BY <1>1, <1>2, <1>3, <1>4, <1>5, MarkMoves

\* Reading the head of a log: it is seen, or the log is forked.
LEMMA FetchedMoves ==
  ASSUME Basis, NEW c \in AdminCalls, Faces(adminCall[c], "fetch"), NEW prev \in Nat,
         NEW forks \in BOOLEAN, Fetched(c, prev, forks),
         ~forks =>
           /\ prev = Len(audit[adminCall[c].req])
           /\ \A d \in AdminCalls :
                ~(Faces(adminCall[d], "chain") /\ adminCall[d].req = adminCall[c].req)
  PROVE  Moved(c)
<1> DEFINE k == [adminCall[c] EXCEPT !.prev = prev]
<1>1. /\ k \in Callish /\ k.todo = adminCall[c].todo /\ k.decision = adminCall[c].decision
      /\ k.req = adminCall[c].req /\ k.prev = prev
  BY Here DEF Callish
<1>2. Proceed(c, k) /\ UNCHANGED <<app, versions, requests, audit>>
  BY DEF Fetched, Rows
<1> HIDE DEF k
<1>3. adminCall[c].todo # <<>>
  BY DEF Faces
<1>4. /\ Becomes(adminCall[c], adminCall'[c]) /\ Others(c) /\ begun' = begun
      /\ adminCall'[c].todo # <<>> => adminCall'[c].prev = prev
  BY <1>1, <1>2, <1>3, ProceedAdvances
<1>5. \A other \in {"number", "insert", "request", "decide", "apply", "chain"} :
        ~Faces(adminCall[c], other)
  BY DEF Faces
<1>6. ~Faces(adminCall'[c], "insert")
  BY <1>4, <1>5 DEF Becomes, Faces
<1> DEFINE forked == IF forks THEN past.forked \cup {adminCall[c].req} ELSE past.forked
<1>7. past' = [past EXCEPT !.forked = forked]
  BY DEF Fetched
<1>8. forked \in SUBSET Nat
  BY Here DEF Pastish, Callish
<1>9. past.forked \subseteq forked /\ (forks => adminCall[c].req \in forked)
  OBVIOUS
<1> HIDE DEF forked
<1>10. /\ past' \in Pastish /\ past'.forked = forked
       /\ past'.contested = past.contested /\ past'.abandoned = past.abandoned
  BY <1>7, <1>8, Here DEF Pastish
<1>11. Logged(adminCall[c], adminCall'[c])
  BY <1>2, <1>4, <1>9, <1>10 DEF Logged, Faces
<1>12. Versioned(adminCall[c], adminCall'[c]) /\ Requested(adminCall[c], adminCall'[c])
  BY <1>2, <1>5, <1>6 DEF Versioned, Requested
<1> QED
  BY <1>2, <1>3, <1>4, <1>9, <1>10, <1>11, <1>12, Here DEF Moved

LEMMA FetchMoves ==
  ASSUME Basis, NEW c \in AdminCalls, FetchLatest(c) \/ FetchFails(c)
  PROVE  Moved(c)
<1>1. Faces(adminCall[c], "fetch")
  BY AtNext DEF FetchLatest, FetchFails
<1>2. adminCall[c].req \in RequestId
  BY <1>1, ReqId, Here DEF Shape
<1>3. CASE FetchLatest(c)
  <2> DEFINE forks == \E d \in AdminCalls : At(d, "chain") /\ adminCall[d].req = adminCall[c].req
  <2>1. Fetched(c, Latest(c), forks) /\ forks \in BOOLEAN
    BY <1>3 DEF FetchLatest
  <2>2. Latest(c) \in Nat /\ Latest(c) = Len(audit[adminCall[c].req])
    BY <1>2, Here, LenProperties DEF Latest, Log
  <2>3. ~forks => \A d \in AdminCalls :
                    ~(Faces(adminCall[d], "chain") /\ adminCall[d].req = adminCall[c].req)
    BY AtNext
  <2> HIDE DEF forks
  <2> QED
    BY <1>1, <2>1, <2>2, <2>3, FetchedMoves
<1>4. CASE FetchFails(c)
  BY <1>1, <1>4, FetchedMoves DEF FetchFails
<1> QED
  BY <1>3, <1>4

LEMMA AppendMoves ==
  ASSUME Basis, NEW c \in AdminCalls, AppendAudit(c) \/ AppendFails(c)
  PROVE  Moved(c)
<1>1. Faces(adminCall[c], "chain") /\ adminCall[c].todo # <<>>
  BY AtNext DEF AppendAudit, AppendFails, Faces
<1>2. \A other \in {"number", "insert", "request", "decide", "apply", "fetch"} :
        ~Faces(adminCall[c], other)
  BY <1>1 DEF Faces
<1>3. Proceed(c, adminCall[c]) /\ UNCHANGED <<app, versions, requests, past>>
  BY DEF AppendAudit, AppendFails, Pass, Rows
<1>4. Becomes(adminCall[c], adminCall'[c]) /\ Others(c) /\ begun' = begun
  BY <1>1, <1>3, Here, ProceedAdvances
<1>5. ~Faces(adminCall'[c], "insert") /\ ~Faces(adminCall'[c], "chain")
  BY <1>2, <1>4 DEF Becomes, Faces
<1> DEFINE e == [event |-> adminCall[c].event, actor |-> adminCall[c].actor,
                 prev |-> adminCall[c].prev]
<1>6. e \in AuditRow /\ e.prev = adminCall[c].prev
  BY Here DEF AuditRow, Callish
<1>7. \/ audit' = audit
      \/ audit' = [audit EXCEPT ![adminCall[c].req] = Append(audit[adminCall[c].req], e)]
  BY Here DEF AppendAudit, AppendFails, Rows, Log
<1> HIDE DEF e
<1>8. Logged(adminCall[c], adminCall'[c])
  BY <1>1, <1>3, <1>5, <1>6, <1>7 DEF Logged
<1>9. Versioned(adminCall[c], adminCall'[c]) /\ Requested(adminCall[c], adminCall'[c])
  BY <1>2, <1>3, <1>5 DEF Versioned, Requested
<1> QED
  BY <1>1, <1>3, <1>4, <1>8, <1>9, Here DEF Moved

-----------------------------------------------------------------------------
\* The calls as they begin.

LEMMA SavingFresh ==
  ASSUME Basis, NEW k \in Callish, k.decision = "none",
         \/ k.todo = <<"write", "number", "insert", "point">>
         \/ k.todo = <<"number", "insert", "point", "write">>
  PROVE  Fresh(k)
<1>1. k.todo # <<>> /\ k.todo[1] \in {"write", "number"}
  OBVIOUS
<1>2. Ordered(k.todo)
  BY DEF Ordered
<1>3. ~Has(k.todo, "request") /\ ~Has(k.todo, "apply") /\ ~Has(k.todo, "decide")
  BY DEF Has
<1>4. ~Faces(k, "insert") /\ ~Faces(k, "chain") /\ ~Faces(k, "fetch")
  BY <1>1 DEF Faces
<1> QED
  BY <1>1, <1>2, <1>3, <1>4 DEF Fresh, Shape

LEMMA SaveBegins ==
  ASSUME Basis, NEW c \in AdminCalls, NEW row \in Rowish, NEW channel \in Channels,
         Begin(c, Saving(row, channel))
  PROVE  Begun(c)
<1> DEFINE s == <<"write", "number", "insert", "point">>
           k == [AdminIdle EXCEPT !.todo = s, !.row = row, !.channel = channel]
<1>1. s \in Seq(Accesses)
  BY DEF Accesses
<1>2. Saving(row, channel) = k
  BY SavingList DEF Saving
<1>3. k \in Callish /\ k.todo = s /\ k.decision = "none"
  BY <1>1, IdleCall DEF Callish, AdminIdle
<1> HIDE DEF k
<1>4. Fresh(k)
  BY <1>3, SavingFresh
<1> QED
  BY <1>2, <1>4, BeginBegins

LEMMA UpsertBegins ==
  ASSUME Basis, NEW c \in AdminCalls, NEW row \in AppRow \ {NoRow}, Upsert(c, row)
  PROVE  Begun(c)
<1>1. row \in Rowish /\ ChannelOf(row.status) \in Channels
  BY DEF AppRow, Rowish, ChannelOf, Channels
<1> QED
  BY <1>1, SaveBegins DEF Upsert

LEMMA StatusBegins ==
  ASSUME Basis, NEW c \in AdminCalls, NEW status \in AppStatuses, SetStatus(c, status)
  PROVE  Begun(c)
<1>1. [content |-> app.content, status |-> status] \in Rowish /\ ChannelOf(status) \in Channels
  BY Here DEF Rowish, ChannelOf, Channels
<1> QED
  BY <1>1, SaveBegins DEF SetStatus

LEMMA RollbackBegins ==
  ASSUME Basis, NEW c \in AdminCalls, NEW i \in DOMAIN versions, NEW channel \in Channels,
         Rollback(c, i, channel)
  PROVE  Begun(c)
<1> DEFINE s == <<"number", "insert", "point", "write">>
           old == versions[i].row
           row == [old EXCEPT !.status = RollbackStatus(old, channel)]
           k == [AdminIdle EXCEPT !.todo = s, !.channel = channel, !.row = row]
<1>1. s \in Seq(Accesses)
  BY DEF Accesses
<1>2. row \in Rowish
  <2>1. versions[i] \in Versionish
    BY Here, LenProperties, ElementOfSeq
  <2>2. old \in Rowish
    BY <2>1 DEF Versionish
  <2> QED
    BY <2>2 DEF Rowish, RollbackStatus, AppStatuses
<1>3. Begin(c, k)
  BY RollbackList DEF Rollback
<1> HIDE DEF row
<1>4. k \in Callish /\ k.todo = s /\ k.decision = "none"
  BY <1>1, <1>2, IdleCall DEF Callish, AdminIdle
<1> HIDE DEF k
<1>5. Fresh(k)
  BY <1>4, SavingFresh
<1> QED
  BY <1>3, <1>5, BeginBegins

LEMMA AskBegins ==
  ASSUME Basis, NEW c \in AdminCalls, NEW a \in Admins, NEW content \in Contents,
         AskToPublish(c, a, content)
  PROVE  Begun(c)
<1> DEFINE s == <<"number", "insert", "point", "request", "fetch", "chain">>
           row == [content |-> content, status |-> "pending"]
           k == [AdminIdle EXCEPT !.todo = s, !.actor = a, !.row = row]
<1>1. s \in Seq(Accesses) /\ row \in Rowish
  BY DEF Accesses, Rowish, AppStatuses
<1>2. Begin(c, k)
  BY AskingList DEF AskToPublish
<1> HIDE DEF row
<1>3. k \in Callish /\ k.todo = s /\ k.decision = "none"
  BY <1>1, IdleCall DEF Callish, AdminIdle
<1> HIDE DEF k
<1>4. Ordered(s)
  BY DEF Ordered
<1>5. ~Has(s, "apply") /\ ~Has(s, "decide")
  BY DEF Has
<1>6. k.todo # <<>> /\ ~Faces(k, "insert") /\ ~Faces(k, "chain") /\ ~Faces(k, "fetch")
  BY <1>3 DEF Faces
<1>7. Fresh(k)
  BY <1>3, <1>4, <1>5, <1>6 DEF Fresh, Shape
<1> QED
  BY <1>2, <1>7, BeginBegins

LEMMA RemindBegins ==
  ASSUME Basis, NEW c \in AdminCalls, NEW a \in Admins, NEW r \in DOMAIN requests, Remind(c, a, r)
  PROVE  Begun(c)
<1> DEFINE k == [AdminIdle EXCEPT !.todo = Auditing, !.actor = a, !.req = r,
                                  !.event = "reminder_sent"]
<1>1. Auditing \in Seq(Accesses) /\ "reminder_sent" \in Events
  BY DEF Accesses, Auditing, Events
<1>2. r \in 1..Len(requests) /\ r \in Nat
  BY Here, LenProperties
<1>3. Begin(c, k)
  BY DEF Remind
<1>4. k \in Callish /\ k.todo = Auditing /\ k.decision = "none" /\ k.req = r
  BY <1>1, <1>2, IdleCall DEF Callish, AdminIdle
<1> HIDE DEF k
<1>5. Ordered(Auditing)
  BY DEF Ordered, Auditing
<1>6. ~Has(Auditing, "request") /\ ~Has(Auditing, "apply") /\ ~Has(Auditing, "decide")
  BY DEF Has, Auditing
<1>7. k.todo # <<>> /\ ~Faces(k, "insert") /\ ~Faces(k, "chain")
  BY <1>4 DEF Faces, Auditing
<1>8. Fresh(k)
  BY <1>2, <1>4, <1>5, <1>6, <1>7 DEF Fresh, Shape
<1> QED
  BY <1>3, <1>8, BeginBegins

LEMMA ReviewBegins ==
  ASSUME Basis, NEW c \in AdminCalls, NEW a \in Admins, NEW r \in DOMAIN requests,
         NEW d \in Decisions, Review(c, a, r, d)
  PROVE  Begun(c)
<1> DEFINE s == <<"decide", "fetch", "chain">>
           t == <<"decide", "fetch", "chain", "reload", "write", "number", "insert", "point",
                  "apply", "fetch", "chain">>
           list == IF d = "approved" THEN t ELSE s
           k == [AdminIdle EXCEPT !.todo = list, !.actor = a, !.req = r, !.decision = d]
<1>1. s \in Seq(Accesses) /\ t \in Seq(Accesses)
  BY DEF Accesses
<1>2. r \in 1..Len(requests) /\ r \in Nat
  BY Here, LenProperties
<1>3. Ordered(s) /\ Ordered(t)
  BY DEF Ordered
<1>4. /\ Has(s, "decide") /\ ~Has(s, "request") /\ ~Has(s, "apply")
      /\ Has(t, "decide") /\ ~Has(t, "request") /\ Has(t, "apply")
  <2>1. 1 \in DOMAIN s /\ s[1] = "decide" /\ 1 \in DOMAIN t /\ t[1] = "decide"
        /\ 9 \in DOMAIN t /\ t[9] = "apply"
    OBVIOUS
  <2>2. Has(s, "decide") /\ Has(t, "decide") /\ Has(t, "apply")
    BY <2>1 DEF Has
  <2>3. ~Has(s, "request") /\ ~Has(s, "apply") /\ ~Has(t, "request")
    BY DEF Has
  <2> QED
    BY <2>2, <2>3
<1>5. s # <<>> /\ t # <<>> /\ s[1] = "decide" /\ t[1] = "decide"
  OBVIOUS
<1>6. Begin(c, k) /\ requests[r].status = "pending"
  <2>1. list = <<"decide">> \o Auditing \o (IF d = "approved" THEN Approving ELSE <<>>)
    BY ReviewLists
  <2> QED
    BY <2>1 DEF Review, Reviewable
<1>7. /\ list \in Seq(Accesses) /\ Ordered(list) /\ list # <<>> /\ list[1] = "decide"
      /\ Has(list, "decide") /\ ~Has(list, "request")
      /\ Has(list, "apply") <=> d = "approved"
  <2> HIDE DEF s, t
  <2> QED
    BY <1>1, <1>3, <1>4, <1>5
<1> HIDE DEF list
<1>8. k \in Callish /\ k.todo = list /\ k.decision = d /\ k.req = r
  BY <1>2, <1>7, IdleCall DEF Callish, AdminIdle
<1> HIDE DEF k
<1>9. k.todo # <<>> /\ ~Faces(k, "insert") /\ ~Faces(k, "chain") /\ ~Faces(k, "fetch")
  BY <1>7, <1>8 DEF Faces
<1>10. Shape(k, Len(requests), Len(versions))
  BY <1>2, <1>7, <1>8, <1>9 DEF Shape
<1>11. Fresh(k)
  BY <1>6, <1>7, <1>8, <1>9, <1>10 DEF Fresh
<1> QED
  BY <1>6, <1>11, BeginBegins

\* Every step is of one of the three kinds.
LEMMA StepKinds ==
  ASSUME Basis, VersionsNumbered, PublishNext
  PROVE  \E c \in AdminCalls : Begun(c) \/ Stopped(c) \/ Moved(c)
<1> PICK c \in AdminCalls : \/ PublishStart(c)
                            \/ PublishStep(c)
                            \/ AdminAborts(c) \/ FetchFails(c) \/ AppendFails(c)
  BY DEF PublishNext
<1>1. CASE PublishStart(c)
  BY <1>1, UpsertBegins, AskBegins, StatusBegins, RollbackBegins, RemindBegins, ReviewBegins
     DEF PublishStart
<1>2. CASE PublishStep(c)
  BY <1>2, WriteMoves, CreateSteps, NumberMoves, InsertSteps, PointMoves, RequestSteps, DecideMoves,
     ReloadMoves, ApplyMoves, FetchMoves, AppendMoves DEF PublishStep
<1>3. CASE AdminAborts(c)
  BY <1>3, QuitStops DEF AdminAborts, Rows
<1>4. CASE FetchFails(c) \/ AppendFails(c)
  BY <1>4, FetchMoves, AppendMoves
<1> QED
  BY <1>1, <1>2, <1>3, <1>4

-----------------------------------------------------------------------------
\* What every step keeps.

LEMMA Lengths ==
  ASSUME Basis
  PROVE  /\ Len(versions) \in Nat /\ DOMAIN versions = 1..Len(versions)
         /\ Len(requests) \in Nat /\ DOMAIN requests = 1..Len(requests)
         /\ begun \in Nat /\ begun <= MaxAdminCalls
BY LenProperties, Constants DEF Basis, RowsTyped, CallsTyped

LEMMA Appended ==
  ASSUME NEW S, NEW s \in Seq(S), NEW e \in S
  PROVE  /\ Append(s, e) \in Seq(S) /\ Len(Append(s, e)) = Len(s) + 1
         /\ \A i \in 1..Len(s) : Append(s, e)[i] = s[i]
         /\ Append(s, e)[Len(s) + 1] = e
OBVIOUS

\* What a step does to the requests.
LEMMA RequestsMoved ==
  ASSUME Basis, NEW c \in AdminCalls, Moved(c)
  PROVE  /\ requests' \in Seq(Requestish)
         /\ Len(requests') = Len(requests) + IF Faces(adminCall[c], "request") THEN 1 ELSE 0
         /\ \A r \in 1..Len(requests) :
              requests'[r].status =
                IF r # adminCall[c].req THEN requests[r].status
                ELSE IF Faces(adminCall[c], "decide") THEN adminCall[c].decision
                ELSE IF Faces(adminCall[c], "apply") THEN "applied" ELSE requests[r].status
         /\ Faces(adminCall[c], "request") =>
              requests'[Len(requests) + 1].status = "pending"
         /\ adminCall'[c].todo # <<>> /\ Faces(adminCall[c], "request") =>
              adminCall'[c].req = Len(requests) + 1
<1> DEFINE k == adminCall[c]
<1>1. requests \in Seq(Requestish) /\ Len(requests) \in Nat /\ Requested(k, adminCall'[c])
  BY Here, Lengths DEF Moved
<1>2. CASE ~Faces(k, "request") /\ ~Faces(k, "decide") /\ ~Faces(k, "apply") /\ requests' = requests
  BY <1>1, <1>2
<1>3. CASE Faces(k, "request")
  <2>1. ~Faces(k, "decide") /\ ~Faces(k, "apply")
    BY <1>3 DEF Faces
  <2>2. PICK q \in Requestish : q.status = "pending" /\ requests' = Append(requests, q)
    BY <1>1, <1>3, <2>1 DEF Requested
  <2>3. adminCall'[c].todo # <<>> => adminCall'[c].req = Len(requests) + 1
    BY <1>1, <1>3, <2>1 DEF Requested
  <2>4. /\ requests' \in Seq(Requestish) /\ Len(requests') = Len(requests) + 1
        /\ \A r \in 1..Len(requests) : requests'[r] = requests[r]
        /\ requests'[Len(requests) + 1] = q
    BY <1>1, <2>2, Appended
  <2> QED
    BY <1>3, <2>1, <2>2, <2>3, <2>4
<1>4. ASSUME NEW q \in Requestish,
             \/ Faces(k, "decide") /\ q.status = k.decision
             \/ Faces(k, "apply") /\ q.status = "applied",
             requests' = [requests EXCEPT ![k.req] = q]
      PROVE  /\ requests' \in Seq(Requestish) /\ Len(requests') = Len(requests)
             /\ \A r \in 1..Len(requests) :
                  requests'[r].status =
                    IF r # k.req THEN requests[r].status
                    ELSE IF Faces(k, "decide") THEN k.decision
                    ELSE IF Faces(k, "apply") THEN "applied" ELSE requests[r].status
             /\ ~Faces(k, "request")
  <2>1. k.req \in 1..Len(requests)
    BY <1>4, Marking
  <2>2. /\ requests' \in Seq(Requestish) /\ Len(requests') = Len(requests)
        /\ \A r \in 1..Len(requests) : requests'[r] = IF r = k.req THEN q ELSE requests[r]
    BY <1>1, <1>4, <2>1, ExceptSeq
  <2>3. ~Faces(k, "request") /\ (Faces(k, "decide") => ~Faces(k, "apply"))
    BY <1>4 DEF Faces
  <2> QED
    BY <1>4, <2>2, <2>3
<1> QED
  BY <1>1, <1>2, <1>3, <1>4 DEF Requested

LEMMA VersionsMoved ==
  ASSUME Basis, NEW c \in AdminCalls, Moved(c)
  PROVE  /\ versions' \in Seq(Versionish) /\ Len(versions) <= Len(versions')
         /\ VersionsNumbered => VersionsNumbered'
<1>1. versions \in Seq(Versionish) /\ Len(versions) \in Nat /\ DOMAIN versions = 1..Len(versions)
  BY Here, Lengths
<1>2. CASE versions' = versions
  BY <1>1, <1>2 DEF VersionsNumbered
<1>3. ASSUME NEW v \in Versionish, Faces(adminCall[c], "insert"), adminCall[c].no \notin Numbers,
             v.no = adminCall[c].no, versions' = Append(versions, v)
      PROVE  /\ versions' \in Seq(Versionish) /\ Len(versions) <= Len(versions')
             /\ VersionsNumbered => VersionsNumbered'
  <2>1. /\ versions' \in Seq(Versionish) /\ Len(versions') = Len(versions) + 1
        /\ \A i \in 1..Len(versions) : versions'[i] = versions[i]
        /\ versions'[Len(versions) + 1] = v
    BY <1>1, <1>3, Appended
  <2>2. DOMAIN versions' = 1..Len(versions) + 1
    BY <2>1, LenProperties
  <2>3. ASSUME VersionsNumbered PROVE v.no = Len(versions) + 1
    <3>1. Numbers = 1..Len(versions)
      BY <1>1, <2>3 DEF Numbers, VersionsNumbered
    <3>2. adminCall[c].no \in 1..Len(versions) + 1
      BY <1>3, Here DEF Shape
    <3> QED
      BY <1>1, <1>3, <3>1, <3>2
  <2>4. ASSUME VersionsNumbered PROVE VersionsNumbered'
    <3>1. \A i \in 1..Len(versions) : versions'[i].no = i
      BY <1>1, <2>1, <2>4 DEF VersionsNumbered
    <3>2. versions'[Len(versions) + 1].no = Len(versions) + 1
      BY <2>1, <2>3, <2>4
    <3> QED
      BY <1>1, <2>2, <3>1, <3>2 DEF VersionsNumbered
  <2> QED
    BY <1>1, <2>1, <2>4
<1> QED
  BY <1>2, <1>3 DEF Moved, Versioned

LEMMA AuditMoved ==
  ASSUME Basis, NEW c \in AdminCalls, Moved(c)
  PROVE  audit' \in [RequestId -> Seq(AuditRow)]
<1>1. audit \in [RequestId -> Seq(AuditRow)]
  BY Here
<1>2. ASSUME NEW e \in AuditRow, Faces(adminCall[c], "chain"),
             audit' = [audit EXCEPT ![adminCall[c].req] = Append(audit[adminCall[c].req], e)]
      PROVE  audit' \in [RequestId -> Seq(AuditRow)]
  <2>1. adminCall[c].req \in RequestId
    BY <1>2, Here, ReqId DEF Shape
  <2>2. Append(audit[adminCall[c].req], e) \in Seq(AuditRow)
    BY <1>1, <1>2, <2>1, Appended
  <2> QED
    BY <1>1, <1>2, <2>1, <2>2
<1> QED
  BY <1>1, <1>2 DEF Moved, Logged

LEMMA CountedMoved ==
  ASSUME Basis, NEW c \in AdminCalls, Moved(c)
  PROVE  AskingCounted'
<1>1. IsFiniteSet(Asking) /\ Len(requests) + Cardinality(Asking) <= begun
  BY DEF Basis, AskingCounted
<1>2. Len(requests) \in Nat /\ begun' = begun /\ begun \in Nat
  BY Lengths DEF Moved
<1>3. Has(adminCall'[c].todo, "request") <=>
        Has(adminCall[c].todo, "request") /\ ~Faces(adminCall[c], "request")
  BY DEF Moved, Becomes
<1>4. \A d \in AdminCalls \ {c} : adminCall'[d] = adminCall[d]
  BY DEF Moved, Others
<1>5. CASE Faces(adminCall[c], "request")
  <2>1. c \in Asking
    <3>1. 1 \in DOMAIN adminCall[c].todo
      BY <1>5, EmptySeq, LenProperties, Here DEF Faces, Callish
    <3> QED
      BY <1>5, <3>1 DEF Asking, Has, Faces
  <2>2. Asking' = Asking \ {c}
    BY <1>3, <1>4, <1>5 DEF Asking
  <2>3. IsFiniteSet(Asking') /\ Cardinality(Asking') = Cardinality(Asking) - 1
    BY <1>1, <2>1, <2>2, FS_RemoveElement
  <2>4. Len(requests') = Len(requests) + 1
    BY <1>5, RequestsMoved
  <2>5. Cardinality(Asking) \in Nat
    BY <1>1, FS_CardinalityType
  <2> QED
    BY <1>1, <1>2, <2>3, <2>4, <2>5 DEF AskingCounted
<1>6. CASE ~Faces(adminCall[c], "request")
  <2>1. Asking' = Asking
    BY <1>3, <1>4, <1>6 DEF Asking
  <2>2. Len(requests') = Len(requests)
    BY <1>2, <1>6, RequestsMoved
  <2> QED
    BY <1>1, <1>2, <2>1, <2>2 DEF AskingCounted
<1> QED
  BY <1>5, <1>6

\* A call that another call's step leaves alone.
LEMMA ShapeGrows ==
  ASSUME NEW k, NEW n \in Nat, NEW m \in Nat, NEW n2 \in Nat, NEW m2 \in Nat,
         Shape(k, n, m), n <= n2, m <= m2
  PROVE  Shape(k, n2, m2)
<1>1. 1..n \subseteq 1..n2 /\ 1..(m + 1) \subseteq 1..(m2 + 1)
  OBVIOUS
<1> QED
  BY <1>1 DEF Shape

LEMMA ShapedMoved ==
  ASSUME Basis, VersionsNumbered, NEW c \in AdminCalls, Moved(c)
  PROVE  Shaped'
<1>1. /\ Len(requests) \in Nat /\ Len(requests') \in Nat /\ Len(requests) <= Len(requests')
      /\ Faces(adminCall[c], "request") => Len(requests') = Len(requests) + 1
  BY Lengths, RequestsMoved
<1>2. Len(versions) \in Nat /\ Len(versions') \in Nat /\ Len(versions) <= Len(versions')
  BY Lengths, VersionsMoved, LenProperties
<1>3. Shape(adminCall'[c], Len(requests'), Len(versions'))
  <2>1. /\ adminCall[c] \in Callish /\ adminCall[c].todo # <<>>
        /\ Shape(adminCall[c], Len(requests), Len(versions)) /\ Becomes(adminCall[c], adminCall'[c])
    BY Here DEF Moved
  <2>2. Faces(adminCall'[c], "insert") => adminCall'[c].no \in 1..(Len(versions') + 1)
    <3>1. ASSUME Faces(adminCall'[c], "insert") PROVE adminCall'[c].no = Len(versions) + 1
      BY <3>1, MaxNumber, Here DEF Moved, Versioned
    <3> QED
      BY <1>2, <3>1
  <2>3. adminCall'[c].todo # <<>> /\ Faces(adminCall[c], "request") =>
          adminCall'[c].req \in 1..Len(requests')
    BY <1>1, RequestsMoved
  <2> QED
    BY <1>1, <1>2, <2>1, <2>2, <2>3, ShapeKept
<1>4. ASSUME NEW d \in AdminCalls, d # c
      PROVE  Shape(adminCall'[d], Len(requests'), Len(versions'))
  <2>1. adminCall'[d] = adminCall[d]
    BY <1>4 DEF Moved, Others
  <2>2. Shape(adminCall[d], Len(requests), Len(versions))
    BY Here
  <2> QED
    BY <1>1, <1>2, <2>1, <2>2, ShapeGrows
<1> QED
  BY <1>3, <1>4 DEF Shaped

LEMMA BasisMoved ==
  ASSUME Basis, VersionsNumbered, NEW c \in AdminCalls, Moved(c)
  PROVE  Basis'
<1>1. RowsTyped'
  BY RequestsMoved, VersionsMoved, AuditMoved DEF RowsTyped, Moved
<1>2. CallsTyped'
  BY DEF CallsTyped, Moved, Others, Basis
<1> QED
  BY <1>1, <1>2, CountedMoved, ShapedMoved DEF Basis

LEMMA BasisStopped ==
  ASSUME Basis, NEW c \in AdminCalls, Stopped(c)
  PROVE  Basis'
<1>1. RowsTyped'
  BY DEF RowsTyped, Stopped, Basis
<1>2. CallsTyped'
  BY DEF CallsTyped, Stopped, Others, Basis
<1>3. adminCall'[c] = AdminIdle /\ \A d \in AdminCalls \ {c} : adminCall'[d] = adminCall[d]
  BY DEF Stopped, Others
<1>4. requests' = requests /\ versions' = versions /\ begun' = begun
  BY DEF Stopped
<1>5. AskingCounted'
  <2>1. IsFiniteSet(Asking) /\ Len(requests) + Cardinality(Asking) <= begun
    BY DEF Basis, AskingCounted
  <2>2. Asking' = Asking \ {c}
    BY <1>3, IdleCall DEF Asking
  <2>3. IsFiniteSet(Asking') /\ Cardinality(Asking') <= Cardinality(Asking)
        /\ Cardinality(Asking') \in Nat /\ Cardinality(Asking) \in Nat
    <3>1. /\ IsFiniteSet(Asking \ {c})
          /\ Cardinality(Asking \ {c}) = IF c \in Asking THEN Cardinality(Asking) - 1
                                         ELSE Cardinality(Asking)
      BY <2>1, FS_RemoveElement
    <3>2. Cardinality(Asking) \in Nat /\ Cardinality(Asking \ {c}) \in Nat
      BY <2>1, <3>1, FS_CardinalityType
    <3> QED
      BY <2>2, <3>1, <3>2
  <2>4. Len(requests) \in Nat /\ begun \in Nat
    BY Lengths
  <2> QED
    BY <1>4, <2>1, <2>3, <2>4 DEF AskingCounted
<1>6. Shaped'
  <2>1. Shape(AdminIdle, Len(requests), Len(versions))
    BY IdleCall, Lengths
  <2> QED
    BY <1>3, <1>4, <2>1, Here DEF Shaped
<1> QED
  BY <1>1, <1>2, <1>5, <1>6 DEF Basis

LEMMA BasisBegun ==
  ASSUME Basis, NEW c \in AdminCalls, Begun(c)
  PROVE  Basis'
<1>1. RowsTyped'
  BY DEF RowsTyped, Begun, Basis
<1>2. CallsTyped'
  <2>1. begun' \in 0..MaxAdminCalls
    BY Lengths, Constants DEF Begun
  <2> QED
    BY <2>1 DEF CallsTyped, Begun, Others
<1>3. Fresh(adminCall'[c]) /\ \A d \in AdminCalls \ {c} : adminCall'[d] = adminCall[d]
  BY DEF Begun, Others
<1>4. requests' = requests /\ versions' = versions /\ begun' = begun + 1
  BY DEF Begun
<1>5. AskingCounted'
  <2>1. IsFiniteSet(Asking) /\ Len(requests) + Cardinality(Asking) <= begun
    BY DEF Basis, AskingCounted
  <2>2. Asking' \subseteq Asking \cup {c}
    BY <1>3 DEF Asking
  <2>3. IsFiniteSet(Asking \cup {c}) /\ Cardinality(Asking \cup {c}) <= Cardinality(Asking) + 1
        /\ Cardinality(Asking) \in Nat
    <3>1. Cardinality(Asking) \in Nat
      BY <2>1, FS_CardinalityType
    <3>2. /\ IsFiniteSet(Asking \cup {c})
          /\ Cardinality(Asking \cup {c}) = IF c \in Asking THEN Cardinality(Asking)
                                            ELSE Cardinality(Asking) + 1
      BY <2>1, FS_AddElement
    <3> QED
      BY <3>1, <3>2
  <2>4. IsFiniteSet(Asking') /\ Cardinality(Asking') <= Cardinality(Asking \cup {c})
    BY <2>2, <2>3, FS_Subset
  <2>5. Cardinality(Asking') \in Nat /\ Cardinality(Asking \cup {c}) \in Nat
    BY <2>3, <2>4, FS_CardinalityType
  <2>6. Len(requests) \in Nat /\ begun \in Nat
    BY Lengths
  <2> QED
    BY <1>4, <2>1, <2>3, <2>4, <2>5, <2>6 DEF AskingCounted
<1>6. Shaped'
  BY <1>3, <1>4, Here DEF Shaped, Fresh
<1> QED
  BY <1>1, <1>2, <1>5, <1>6 DEF Basis

-----------------------------------------------------------------------------
\* Reviews.

LEMMA ReviewHolding ==
  ASSUME NEW k, NEW r
  PROVE  r \in Reviewing(k) <=> k.todo # <<>> /\ k.decision # "none" /\ r = k.req
BY DEF Reviewing

\* A request is decided in the first step of its review.
LEMMA DecideFirst ==
  ASSUME NEW k \in Callish, Ordered(k.todo), Has(k.todo, "decide")
  PROVE  Faces(k, "decide")
<1>1. PICK i \in DOMAIN k.todo : k.todo[i] = "decide"
  BY DEF Has
<1>2. DOMAIN k.todo = 1..Len(k.todo)
  BY LenProperties DEF Callish
<1>3. ~(i > 1)
  BY <1>1 DEF Ordered
<1>4. i = 1
  BY <1>2, <1>3
<1> QED
  BY <1>1, <1>4 DEF Faces

LEMMA FirstHas ==
  ASSUME NEW k \in Callish, NEW access, Faces(k, access)
  PROVE  Has(k.todo, access) /\ k.todo # <<>>
<1>1. 1 \in DOMAIN k.todo
  BY EmptySeq, LenProperties DEF Faces, Callish
<1> QED
  BY <1>1 DEF Faces, Has

\* What a review has come to, before and after a step of it.
LEMMA ReviewMoved ==
  ASSUME Basis, NEW c \in AdminCalls, Moved(c)
  PROVE  /\ \A r : r \in Reviewing(adminCall'[c]) => r \in Reviewing(adminCall[c])
         /\ \A r : r \in Reviewing(adminCall[c]) /\ Has(adminCall'[c].todo, "apply") =>
              r \in Reviewing(adminCall'[c])
         /\ \A r \in Reviewing(adminCall'[c]) :
              Reached(adminCall'[c]) =
                IF Faces(adminCall[c], "decide") THEN adminCall[c].decision
                ELSE IF Faces(adminCall[c], "apply") THEN "applied" ELSE Reached(adminCall[c])
<1> DEFINE k == adminCall[c]
           j == adminCall'[c]
<1>1. k \in Callish /\ k.todo # <<>> /\ Becomes(k, j) /\ Shape(k, Len(requests), Len(versions))
  BY Here DEF Moved
<1> HIDE DEF k, j
<1>2. k.decision # "none" => ~Faces(k, "request")
  BY <1>1, FirstHas DEF Shape
<1>3. j.todo # <<>> /\ j.decision # "none" => k.decision = j.decision /\ k.req = j.req
  BY <1>1, <1>2 DEF Becomes
<1>4. \A r : r \in Reviewing(j) => r \in Reviewing(k)
  BY <1>1, <1>3, ReviewHolding
<1>5. \A r : r \in Reviewing(k) /\ Has(j.todo, "apply") => r \in Reviewing(j)
  <2>1. Has(j.todo, "apply") => j.todo # <<>>
    BY DEF Has
  <2> QED
    BY <1>1, <1>2, <2>1, ReviewHolding DEF Becomes
<1>6. ASSUME NEW r \in Reviewing(j)
      PROVE  Reached(j) = IF Faces(k, "decide") THEN k.decision
                          ELSE IF Faces(k, "apply") THEN "applied" ELSE Reached(k)
  <2>1. j.todo # <<>> /\ j.decision = k.decision
    BY <1>3, ReviewHolding
  <2>2. ~Has(j.todo, "decide")
    BY <1>1, DecideFirst DEF Becomes, Shape
  <2>3. CASE Faces(k, "decide")
    <3>1. Has(k.todo, "decide") /\ ~Faces(k, "apply")
      BY <1>1, <2>3, FirstHas DEF Faces
    <3>2. Has(j.todo, "apply") <=> Has(k.todo, "apply")
      BY <1>1, <3>1 DEF Becomes
    <3>3. Has(k.todo, "apply") <=> k.decision = "approved"
      BY <1>1, <3>1 DEF Shape
    <3> QED
      BY <2>1, <2>2, <2>3, <3>2, <3>3 DEF Reached
  <2>4. CASE Faces(k, "apply")
    <3>1. ~Faces(k, "decide") /\ Has(k.todo, "apply") /\ k.decision = "approved"
      BY <1>1, <2>4, FirstHas DEF Faces, Shape
    <3>2. ~Has(j.todo, "apply")
      BY <1>1, <2>4 DEF Becomes
    <3> QED
      BY <2>1, <2>2, <2>4, <3>1, <3>2 DEF Reached
  <2>5. CASE ~Faces(k, "decide") /\ ~Faces(k, "apply")
    <3>1. (Has(j.todo, "apply") <=> Has(k.todo, "apply")) /\ ~Has(k.todo, "decide")
      BY <1>1, <2>5, DecideFirst DEF Becomes, Shape
    <3> QED
      BY <2>1, <2>2, <2>5, <3>1 DEF Reached
  <2> QED
    BY <2>3, <2>4, <2>5
<1> QED
  BY <1>4, <1>5, <1>6 DEF k, j

\* The request of a review is there.
LEMMA HeldRequest ==
  ASSUME Basis, NEW d \in AdminCalls, NEW r \in Reviewing(adminCall[d])
  PROVE  r \in 1..Len(requests) /\ r \in Nat
<1>1. adminCall[d].todo # <<>> /\ adminCall[d].decision # "none" /\ r = adminCall[d].req
  BY ReviewHolding
<1>2. r \in 1..Len(requests)
  BY <1>1, Here DEF Shape
<1> QED
  BY <1>2, Lengths

\* The only call whose step changes the status of a request is one that holds it.
LEMMA MarkedByHolder ==
  ASSUME Basis, NEW c \in AdminCalls, Moved(c), NEW r \in 1..Len(requests),
         requests'[r].status # requests[r].status
  PROVE  /\ r \in Reviewing(adminCall[c])
         /\ \/ Faces(adminCall[c], "decide") /\ requests'[r].status = adminCall[c].decision
            \/ Faces(adminCall[c], "apply") /\ requests'[r].status = "applied"
<1>1. requests'[r].status =
        IF r # adminCall[c].req THEN requests[r].status
        ELSE IF Faces(adminCall[c], "decide") THEN adminCall[c].decision
        ELSE IF Faces(adminCall[c], "apply") THEN "applied" ELSE requests[r].status
  BY RequestsMoved
<1>2. /\ r = adminCall[c].req
      /\ \/ Faces(adminCall[c], "decide") /\ requests'[r].status = adminCall[c].decision
         \/ Faces(adminCall[c], "apply") /\ requests'[r].status = "applied"
  BY <1>1
<1>3. adminCall[c].todo # <<>> /\ adminCall[c].decision # "none"
  BY <1>2, Marking DEF Decisions
<1> QED
  BY <1>2, <1>3, ReviewHolding

LEMMA ReviewedMoved ==
  ASSUME Basis, Reviewed, NEW c \in AdminCalls, Moved(c)
  PROVE  Reviewed'
<1>1. \A d \in AdminCalls \ {c} : adminCall'[d] = adminCall[d]
  BY DEF Moved, Others
<1>2. past'.contested = past.contested /\ past'.abandoned = past.abandoned
  BY DEF Moved
<1>3. \A d \in AdminCalls : \A r : r \in Reviewing(adminCall'[d]) => r \in Reviewing(adminCall[d])
  BY <1>1, ReviewMoved
<1>4. OneReview'
  BY <1>2, <1>3 DEF OneReview, Reviewed
<1>5. ASSUME NEW d \in AdminCalls, NEW r \in Nat \ past'.contested, r \in Reviewing(adminCall'[d])
      PROVE  requests'[r].status = Reached(adminCall'[d])
  <2>1. r \in Reviewing(adminCall[d]) /\ r \in 1..Len(requests)
    BY <1>3, <1>5, HeldRequest
  <2>2. requests[r].status = Reached(adminCall[d])
    BY <1>2, <2>1 DEF Reviewed, StatusReached
  <2>3. CASE d = c
    <3>1. r = adminCall[c].req
      BY <2>1, <2>3, ReviewHolding
    <3>2. requests'[r].status =
            IF Faces(adminCall[c], "decide") THEN adminCall[c].decision
            ELSE IF Faces(adminCall[c], "apply") THEN "applied" ELSE requests[r].status
      BY <2>1, <3>1, RequestsMoved
    <3> QED
      BY <1>5, <2>2, <2>3, <3>2, ReviewMoved
  <2>4. CASE d # c
    <3>1. r \notin Reviewing(adminCall[c])
      BY <1>2, <2>1, <2>4 DEF Reviewed, OneReview
    <3>2. requests'[r].status = requests[r].status
      BY <2>1, <3>1, MarkedByHolder
    <3> QED
      BY <1>1, <2>2, <2>4, <3>2
  <2> QED
    BY <2>3, <2>4
<1>6. StatusReached'
  BY <1>5 DEF StatusReached
<1>7. ASSUME NEW r \in DOMAIN requests', requests'[r].status = "approved",
             r \notin past'.contested \cup past'.abandoned
      PROVE  \E d \in AdminCalls : r \in Reviewing(adminCall'[d])
  <2>1. r \in 1..Len(requests) /\ r \in Nat
    <3>1. /\ DOMAIN requests' = 1..Len(requests') /\ Len(requests) \in Nat
          /\ Len(requests') = Len(requests) + IF Faces(adminCall[c], "request") THEN 1 ELSE 0
      BY Lengths, RequestsMoved, LenProperties
    <3>2. Faces(adminCall[c], "request") => r # Len(requests) + 1
      BY <1>7, RequestsMoved
    <3> QED
      BY <3>1, <3>2
  <2>2. ASSUME r \in Reviewing(adminCall[c]), Has(adminCall[c].todo, "apply"),
               ~Faces(adminCall[c], "apply")
        PROVE  r \in Reviewing(adminCall'[c])
    <3>1. Has(adminCall'[c].todo, "apply")
      BY <2>2 DEF Moved, Becomes
    <3> QED
      BY <2>2, <3>1, ReviewMoved
  <2>3. CASE requests[r].status = "approved"
    <3>1. PICK d \in AdminCalls : r \in Reviewing(adminCall[d])
      BY <1>2, <1>7, <2>1, <2>3, Lengths DEF Reviewed, ApprovedMeansApplying
    <3>2. CASE d # c
      BY <1>1, <3>1, <3>2
    <3>3. CASE d = c
      <4>1. Reached(adminCall[c]) = "approved"
        BY <1>2, <1>7, <2>1, <2>3, <3>1, <3>3 DEF Reviewed, StatusReached
      <4>2. Has(adminCall[c].todo, "apply")
        BY <4>1 DEF Reached
      <4>3. ~Faces(adminCall[c], "apply")
        <5>1. r = adminCall[c].req
          BY <3>1, <3>3, ReviewHolding
        <5>2. Faces(adminCall[c], "apply") => ~Faces(adminCall[c], "decide")
          BY DEF Faces
        <5>3. Faces(adminCall[c], "apply") => requests'[r].status = "applied"
          BY <2>1, <5>1, <5>2, RequestsMoved
        <5> QED
          BY <1>7, <5>3
      <4> QED
        BY <2>2, <3>1, <3>3, <4>2, <4>3
    <3> QED
      BY <3>2, <3>3
  <2>4. CASE requests[r].status # "approved"
    <3>1. r \in Reviewing(adminCall[c]) /\ Faces(adminCall[c], "decide")
          /\ adminCall[c].decision = "approved"
      BY <1>7, <2>1, <2>4, MarkedByHolder
    <3>2. Has(adminCall[c].todo, "decide") /\ ~Faces(adminCall[c], "apply")
      BY <3>1, Here, FirstHas DEF Faces
    <3>3. Has(adminCall[c].todo, "apply")
      BY <3>1, <3>2, Here DEF Shape
    <3> QED
      BY <2>2, <3>1, <3>2, <3>3
  <2> QED
    BY <2>3, <2>4
<1>8. ApprovedMeansApplying'
  BY <1>7 DEF ApprovedMeansApplying
<1> QED
  BY <1>4, <1>6, <1>8 DEF Reviewed

LEMMA ReviewedStopped ==
  ASSUME Basis, Reviewed, NEW c \in AdminCalls, Stopped(c)
  PROVE  Reviewed'
<1>1. adminCall'[c] = AdminIdle /\ \A d \in AdminCalls \ {c} : adminCall'[d] = adminCall[d]
  BY DEF Stopped, Others
<1>2. /\ past'.contested = past.contested /\ requests' = requests
      /\ past'.abandoned = past.abandoned \cup Reviewing(adminCall[c])
  BY DEF Stopped
<1>3. Reviewing(AdminIdle) = {}
  BY IdleCall DEF Reviewing
<1>4. OneReview'
  BY <1>1, <1>2, <1>3 DEF OneReview, Reviewed
<1>5. StatusReached'
  BY <1>1, <1>2, <1>3 DEF StatusReached, Reviewed
<1>6. ApprovedMeansApplying'
  BY <1>1, <1>2 DEF ApprovedMeansApplying, Reviewed
<1> QED
  BY <1>4, <1>5, <1>6 DEF Reviewed

LEMMA ReviewedBegun ==
  ASSUME Basis, Reviewed, NEW c \in AdminCalls, Begun(c)
  PROVE  Reviewed'
<1>1. Fresh(adminCall'[c]) /\ \A d \in AdminCalls \ {c} : adminCall'[d] = adminCall[d]
  BY DEF Begun, Others
<1>2. /\ past.contested \subseteq past'.contested /\ requests' = requests
      /\ past'.abandoned = past.abandoned
      /\ \A d \in AdminCalls \ {c} : \A r \in Reviewing(adminCall'[c]) :
           r \in Reviewing(adminCall[d]) => r \in past'.contested
  BY DEF Begun
<1>3. Reviewing(adminCall[c]) = {}
  BY DEF Reviewing, Begun
<1>4. OneReview'
  <2> SUFFICES ASSUME NEW d \in AdminCalls, NEW e \in AdminCalls, NEW r \in Nat \ past'.contested,
                      r \in Reviewing(adminCall'[d]), r \in Reviewing(adminCall'[e]), d # e
               PROVE  FALSE
    BY DEF OneReview
  <2>1. CASE d = c
    BY <1>1, <1>2, <2>1
  <2>2. CASE e = c
    BY <1>1, <1>2, <2>2
  <2>3. CASE d # c /\ e # c
    BY <1>1, <1>2, <2>3 DEF OneReview, Reviewed
  <2> QED
    BY <2>1, <2>2, <2>3
<1>5. StatusReached'
  <2> SUFFICES ASSUME NEW d \in AdminCalls, NEW r \in Nat \ past'.contested,
                      r \in Reviewing(adminCall'[d])
               PROVE  requests[r].status = Reached(adminCall'[d])
    BY <1>2 DEF StatusReached
  <2>1. CASE d = c
    <3>1. adminCall'[c].decision # "none" /\ r = adminCall'[c].req
      BY <2>1, ReviewHolding
    <3> QED
      BY <1>1, <2>1, <3>1 DEF Fresh, Reached
  <2>2. CASE d # c
    BY <1>1, <1>2, <2>2 DEF StatusReached, Reviewed
  <2> QED
    BY <2>1, <2>2
<1>6. ApprovedMeansApplying'
  BY <1>1, <1>2, <1>3 DEF ApprovedMeansApplying, Reviewed
<1> QED
  BY <1>4, <1>5, <1>6 DEF Reviewed

-----------------------------------------------------------------------------
\* Audit logs.

LEMMA AuditedMoved ==
  ASSUME Basis, Audited, NEW c \in AdminCalls, Moved(c)
  PROVE  Audited'
<1>1. \A d \in AdminCalls \ {c} : adminCall'[d] = adminCall[d]
  BY DEF Moved, Others
<1>2. past.forked \subseteq past'.forked /\ Logged(adminCall[c], adminCall'[c])
  BY DEF Moved
<1>3. audit \in [RequestId -> Seq(AuditRow)]
  BY Here
\* When the call is to append after its step, the step has read the head.
<1>4. ASSUME Faces(adminCall'[c], "chain")
      PROVE  /\ Faces(adminCall[c], "fetch") /\ ~Faces(adminCall[c], "chain")
             /\ adminCall'[c].req = adminCall[c].req /\ audit' = audit
  <2>1. Faces(adminCall[c], "fetch") /\ ~Faces(adminCall[c], "chain") /\ ~Faces(adminCall[c], "request")
    BY <1>4 DEF Moved, Becomes, Faces
  <2>2. adminCall'[c].req = adminCall[c].req
    BY <1>4, <2>1 DEF Moved, Becomes, Faces
  <2> QED
    BY <1>2, <2>1, <2>2 DEF Logged
<1>5. ASSUME NEW r \in RequestId \ past'.forked, Faces(adminCall'[c], "chain"),
             adminCall'[c].req = r
      PROVE  /\ adminCall'[c].prev = Len(audit'[r])
             /\ \A d \in AdminCalls : ~(Faces(adminCall[d], "chain") /\ adminCall[d].req = r)
  BY <1>2, <1>4, <1>5 DEF Logged
\* A log that another call has seen is left alone.
<1>6. ASSUME NEW d \in AdminCalls \ {c}, NEW r \in RequestId \ past'.forked,
             Faces(adminCall[d], "chain"), adminCall[d].req = r
      PROVE  audit'[r] = audit[r]
  <2>1. ~(Faces(adminCall[c], "chain") /\ adminCall[c].req = r)
    BY <1>2, <1>6 DEF Audited, HeadSeen
  <2> QED
    BY <1>2, <1>3, <2>1 DEF Logged
<1>7. HeadSeen'
  <2> SUFFICES ASSUME NEW d \in AdminCalls, NEW r \in RequestId \ past'.forked,
                      Faces(adminCall'[d], "chain"), adminCall'[d].req = r
               PROVE  /\ adminCall'[d].prev = Len(audit'[r])
                      /\ \A e \in AdminCalls :
                           Faces(adminCall'[e], "chain") /\ adminCall'[e].req = r => d = e
    BY DEF HeadSeen
  <2>1. CASE d = c
    BY <1>1, <1>5, <2>1
  <2>2. CASE d # c
    <3>1. Faces(adminCall[d], "chain") /\ adminCall[d].req = r /\ adminCall'[d] = adminCall[d]
      BY <1>1, <2>2
    <3>2. /\ adminCall[d].prev = Len(audit[r])
          /\ \A e \in AdminCalls : Faces(adminCall[e], "chain") /\ adminCall[e].req = r => d = e
      BY <1>2, <3>1 DEF Audited, HeadSeen
    <3>3. audit'[r] = audit[r]
      BY <1>6, <2>2, <3>1
    <3>4. ~(Faces(adminCall'[c], "chain") /\ adminCall'[c].req = r)
      BY <1>5, <3>1
    <3> QED
      BY <1>1, <3>1, <3>2, <3>3, <3>4
  <2> QED
    BY <2>1, <2>2
<1>8. AuditVerifies'
  <2> SUFFICES ASSUME NEW r \in RequestId \ past'.forked
               PROVE  \A i \in DOMAIN audit'[r] : audit'[r][i].prev = i - 1
    BY DEF AuditVerifies
  <2>1. /\ \A i \in DOMAIN audit[r] : audit[r][i].prev = i - 1
        /\ audit[r] \in Seq(AuditRow) /\ Len(audit[r]) \in Nat /\ DOMAIN audit[r] = 1..Len(audit[r])
    BY <1>2, <1>3, LenProperties DEF Audited, AuditVerifies
  <2>2. CASE audit'[r] = audit[r]
    BY <2>1, <2>2
  <2>3. CASE audit'[r] # audit[r]
    <3>1. PICK e \in AuditRow :
            /\ Faces(adminCall[c], "chain") /\ e.prev = adminCall[c].prev
            /\ audit' = [audit EXCEPT ![adminCall[c].req] = Append(audit[adminCall[c].req], e)]
      BY <1>2, <2>3 DEF Logged
    <3>2. adminCall[c].req = r
      BY <1>3, <2>3, <3>1
    <3>3. e.prev = Len(audit[r])
      BY <1>2, <3>1, <3>2 DEF Audited, HeadSeen
    <3>4. audit'[r] = Append(audit[r], e)
      BY <1>3, <3>1, <3>2
    <3>5. /\ audit'[r] \in Seq(AuditRow) /\ Len(audit'[r]) = Len(audit[r]) + 1
          /\ \A i \in 1..Len(audit[r]) : audit'[r][i] = audit[r][i]
          /\ audit'[r][Len(audit[r]) + 1] = e
      BY <2>1, <3>4, Appended
    <3>6. DOMAIN audit'[r] = 1..Len(audit[r]) + 1
      BY <3>5, LenProperties
    <3>7. \A i \in 1..Len(audit[r]) : audit'[r][i].prev = i - 1
      BY <2>1, <3>5
    <3>8. audit'[r][Len(audit[r]) + 1].prev = (Len(audit[r]) + 1) - 1
      BY <2>1, <3>3, <3>5
    <3>9. \A i \in 1..Len(audit[r]) + 1 : i \in 1..Len(audit[r]) \/ i = Len(audit[r]) + 1
      BY <2>1
    <3> QED
      BY <3>6, <3>7, <3>8, <3>9
  <2> QED
    BY <2>2, <2>3
<1> QED
  BY <1>7, <1>8 DEF Audited

LEMMA AuditedOthers ==
  ASSUME Basis, Audited, NEW c \in AdminCalls, Begun(c) \/ Stopped(c)
  PROVE  Audited'
<1>1. ~Faces(adminCall'[c], "chain") /\ \A d \in AdminCalls \ {c} : adminCall'[d] = adminCall[d]
  BY IdleCall DEF Begun, Stopped, Fresh, Others
<1>2. audit' = audit /\ past'.forked = past.forked
  BY DEF Begun, Stopped
<1>3. HeadSeen'
  BY <1>1, <1>2 DEF HeadSeen, Audited
<1>4. AuditVerifies'
  BY <1>2 DEF AuditVerifies, Audited
<1> QED
  BY <1>3, <1>4 DEF Audited

-----------------------------------------------------------------------------
\* The invariant.

LEMMA InitInvariant == PublishInit => IInv
<1> SUFFICES ASSUME PublishInit PROVE IInv
  OBVIOUS
<1> DEFINE v == [no |-> 1, channel |-> "draft", row |-> app]
<1>1. \A c \in AdminCalls : adminCall[c] = AdminIdle
  BY DEF PublishInit
<1>2. app \in Rowish
  BY DEF PublishInit, NoRow, AppRow, Rowish
<1>3. v \in Versionish /\ v.no = 1
  BY <1>2 DEF Versionish, Channels
<1>4. versions = <<>> \/ versions = <<v>>
  BY DEF PublishInit
<1> HIDE DEF v
<1>5. versions \in Seq(Versionish) /\ Len(versions) \in Nat /\ VersionsNumbered
  <2>1. CASE versions = <<>>
    BY <2>1 DEF VersionsNumbered
  <2>2. CASE versions = <<v>>
    BY <1>3, <2>2 DEF VersionsNumbered
  <2> QED
    BY <1>4, <2>1, <2>2
<1>6. requests = <<>> /\ requests \in Seq(Requestish) /\ Len(requests) = 0 /\ DOMAIN requests = {}
  BY DEF PublishInit
<1>7. /\ audit \in [RequestId -> Seq(AuditRow)] /\ \A r \in RequestId : audit[r] = <<>>
  BY DEF PublishInit
<1>8. CallsTyped
  <2>1. adminCall \in [AdminCalls -> Callish]
    BY IdleCall DEF PublishInit
  <2>2. past \in Pastish
    BY DEF PublishInit, Pastish
  <2>3. begun \in 0..MaxAdminCalls
    BY Constants DEF PublishInit
  <2> QED
    BY <2>1, <2>2, <2>3 DEF CallsTyped
<1>9. AskingCounted
  <2>1. Asking = {}
    BY <1>1, IdleCall DEF Asking
  <2> QED
    BY <1>6, <2>1, FS_EmptySet DEF AskingCounted, PublishInit
<1>10. Shaped
  BY <1>1, <1>5, <1>6, IdleCall DEF Shaped
<1>11. Reviewed
  <2>1. Reviewing(AdminIdle) = {}
    BY IdleCall DEF Reviewing
  <2> QED
    BY <1>1, <1>6, <2>1 DEF Reviewed, OneReview, StatusReached, ApprovedMeansApplying
<1>12. Audited
  BY <1>1, <1>7, IdleCall DEF Audited, HeadSeen, AuditVerifies
<1> QED
  BY <1>2, <1>5, <1>6, <1>7, <1>8, <1>9, <1>10, <1>11, <1>12 DEF IInv, Basis, RowsTyped

LEMMA NextInvariant == IInv /\ [PublishNext]_publishVars => IInv'
<1> SUFFICES ASSUME IInv, [PublishNext]_publishVars PROVE IInv'
  OBVIOUS
<1> USE DEF IInv
<1>1. CASE PublishNext
  <2>1. PICK c \in AdminCalls : Begun(c) \/ Stopped(c) \/ Moved(c)
    BY <1>1, StepKinds
  <2>2. CASE Begun(c)
    <3>1. VersionsNumbered'
      BY <2>2 DEF Begun, VersionsNumbered
    <3> QED
      BY <2>2, <3>1, BasisBegun, ReviewedBegun, AuditedOthers
  <2>3. CASE Stopped(c)
    <3>1. VersionsNumbered'
      BY <2>3 DEF Stopped, VersionsNumbered
    <3> QED
      BY <2>3, <3>1, BasisStopped, ReviewedStopped, AuditedOthers
  <2>4. CASE Moved(c)
    BY <2>4, BasisMoved, VersionsMoved, ReviewedMoved, AuditedMoved
  <2> QED
    BY <2>1, <2>2, <2>3, <2>4
<1>2. CASE UNCHANGED publishVars
  <2>1. UNCHANGED <<app, versions, requests, audit, adminCall, begun, past>>
    BY <1>2 DEF publishVars
  <2>2. Basis'
    BY <2>1 DEF Basis, RowsTyped, CallsTyped, AskingCounted, Asking, Shaped
  <2>3. VersionsNumbered'
    BY <2>1 DEF VersionsNumbered
  <2>4. Reviewed'
    BY <2>1 DEF Reviewed, OneReview, StatusReached, ApprovedMeansApplying
  <2>5. Audited'
    BY <2>1 DEF Audited, HeadSeen, AuditVerifies
  <2> QED
    BY <2>2, <2>3, <2>4, <2>5
<1> QED
  BY <1>1, <1>2

\* The invariant, which all the rest follows from.
THEOREM Invariant == PublishSpec => []IInv
BY InitInvariant, NextInvariant, PTL DEF PublishSpec

\* Versions are numbered without gaps or repetitions in the order in which they
\* are made, whatever calls of recordMiniAppVersion read the same last number.
THEOREM NumbersInOrder == PublishSpec => []VersionsNumbered
<1>1. IInv => VersionsNumbered
  BY DEF IInv
<1> QED
  BY <1>1, Invariant, PTL

\* An audit log to which no two calls have appended at once is a chain that
\* verifyPublishApprovalAuditChain accepts.
THEOREM LogsVerify == PublishSpec => []AuditVerifies
<1>1. IInv => AuditVerifies
  BY DEF IInv, Audited
<1> QED
  BY <1>1, Invariant, PTL

\* An approved request is being applied, unless two reviews have held it or the
\* review that approved it has failed.
THEOREM ApprovedIsApplied == PublishSpec => []ApprovedMeansApplying
<1>1. IInv => ApprovedMeansApplying
  BY DEF IInv, Reviewed
<1> QED
  BY <1>1, Invariant, PTL

\* A decision is final, and only an approval is applied, unless two reviews have
\* held the request at once.
THEOREM DecisionIsFinal == PublishSpec => DecidedOnce
<1> DEFINE Kept ==
      \A r \in DOMAIN requests \ past.contested :
        requests'[r].status # requests[r].status =>
          \/ requests[r].status = "pending" /\ requests'[r].status \in Decisions
          \/ requests[r].status = "approved" /\ requests'[r].status = "applied"
<1>1. IInv /\ [PublishNext]_publishVars => [Kept]_publishVars
  <2> SUFFICES ASSUME IInv, PublishNext, NEW r \in DOMAIN requests \ past.contested,
                      requests'[r].status # requests[r].status
               PROVE  \/ requests[r].status = "pending" /\ requests'[r].status \in Decisions
                      \/ requests[r].status = "approved" /\ requests'[r].status = "applied"
    OBVIOUS
  <2>1. Basis /\ VersionsNumbered /\ Reviewed
    BY DEF IInv
  <2>2. PICK c \in AdminCalls : Begun(c) \/ Stopped(c) \/ Moved(c)
    BY <2>1, StepKinds
  <2>3. Moved(c)
    BY <2>2 DEF Begun, Stopped
  <2>4. r \in 1..Len(requests) /\ r \in Nat \ past.contested
    BY <2>1, Lengths
  <2>5. /\ r \in Reviewing(adminCall[c])
        /\ \/ Faces(adminCall[c], "decide") /\ requests'[r].status = adminCall[c].decision
           \/ Faces(adminCall[c], "apply") /\ requests'[r].status = "applied"
    BY <2>1, <2>3, <2>4, MarkedByHolder
  <2>6. requests[r].status = Reached(adminCall[c])
    BY <2>1, <2>4, <2>5 DEF Reviewed, StatusReached
  <2>7. /\ Faces(adminCall[c], "decide") => Has(adminCall[c].todo, "decide")
        /\ Faces(adminCall[c], "apply") => Has(adminCall[c].todo, "apply")
    BY <2>1, Here, FirstHas
  <2>8. CASE Faces(adminCall[c], "decide")
    <3>1. adminCall[c].decision \in Decisions /\ ~Faces(adminCall[c], "apply")
      BY <2>1, <2>8, Marking DEF Faces
    <3> QED
      BY <2>5, <2>6, <2>7, <2>8, <3>1 DEF Reached
  <2>9. CASE Faces(adminCall[c], "apply")
    <3>1. ~Faces(adminCall[c], "decide")
      BY <2>9 DEF Faces
    <3>2. ~Has(adminCall[c].todo, "decide")
      BY <2>1, <3>1, Here, DecideFirst DEF Shape
    <3> QED
      BY <2>5, <2>6, <2>7, <2>9, <3>1, <3>2 DEF Reached
  <2> QED
    BY <2>5, <2>8, <2>9
<1> QED
  BY <1>1, Invariant, PTL DEF PublishSpec, DecidedOnce

-----------------------------------------------------------------------------
\* The active app: the invariant follows an active row from the call that has it in
\* hand to the row of miniapps and to the version that the release names.

\* What a list still holds after its i-th access.
StillAfter(s, i, access) == \E j \in DOMAIN s : j > i /\ s[j] = access

\* How far a list is with an app: each access to it is made once, the row is written before
\* the whole of a version is recorded or after it, and an approval reads the row before both.
FitsAt(s, i) ==
  /\ s[i] = "write" =>
       /\ ~StillAfter(s, i, "write") /\ ~StillAfter(s, i, "reload")
       /\ StillAfter(s, i, "point") => StillAfter(s, i, "insert")
  /\ s[i] = "insert" => StillAfter(s, i, "point")
  /\ s[i] = "point" => ~StillAfter(s, i, "point")
  /\ s[i] \in {"insert", "point", "request", "apply"} =>
       ~StillAfter(s, i, "reload") /\ ~StillAfter(s, i, "number") /\ ~StillAfter(s, i, "insert")
  /\ s[i] \in {"number", "create"} => StillAfter(s, i, "insert") /\ StillAfter(s, i, "point")
  /\ s[i] = "create" => StillAfter(s, i, "number")
  /\ s[i] = "reload" =>
       /\ StillAfter(s, i, "write") /\ StillAfter(s, i, "insert") /\ StillAfter(s, i, "point")
       /\ ~StillAfter(s, i, "reload")
Fits(s) == \A i \in DOMAIN s : FitsAt(s, i)

\* The row a is what the published version says.
Shows(a, vs, rel) ==
  a.status = "active" => \E i \in DOMAIN vs : vs[i].no = rel.published /\ vs[i].row = a

\* A call that changes the app has in hand what it will have made of it in the end.
Publishing(k, a, vs, rel) ==
  /\ ~Has(k.todo, "reload") /\ k.row.status = "active" => k.channel = "published"
  /\ Has(k.todo, "write") /\ Has(k.todo, "point") => Shows(a, vs, rel)
  /\ ~Has(k.todo, "write") =>
       IF k.channel = "published" THEN a = k.row ELSE Shows(a, vs, rel)
  /\ ~Has(k.todo, "insert") /\ Has(k.todo, "point") =>
       \E i \in DOMAIN vs : vs[i].no = k.no /\ vs[i].row = k.row
  /\ ~Has(k.todo, "point") /\ k.channel = "published" =>
       \E i \in DOMAIN vs : vs[i].no = rel.published /\ vs[i].row = k.row

OneReleases ==
  \A c, d \in AdminCalls : Releases(adminCall[c]) /\ Releases(adminCall[d]) => c = d
Released ==
  /\ \A c \in AdminCalls :
       Releases(adminCall[c]) => Publishing(adminCall[c], app, versions, release)
  /\ (\A c \in AdminCalls : ~Releases(adminCall[c])) => Shows(app, versions, release)
Fitting == \A c \in AdminCalls : Fits(adminCall[c].todo)

ReleaseInv ==
  /\ release \in [Channels -> Int] /\ Fitting
  /\ past.mixed \/ (OneReleases /\ Released)

-----------------------------------------------------------------------------
\* What is left of a list.

LEMMA FitsRest ==
  ASSUME NEW s \in Seq(Accesses), s # <<>>
  PROVE  /\ \A access : Has(s, access) <=> s[1] = access \/ StillAfter(s, 1, access)
         /\ Len(s) = 1 => \A access : ~StillAfter(s, 1, access)
         /\ Len(s) # 1 =>
              /\ Tail(s) \in Seq(Accesses) /\ Tail(s) # <<>>
              /\ \A access : Has(Tail(s), access) <=> StillAfter(s, 1, access)
              /\ Fits(s) => Fits(Tail(s))
<1> DEFINE t == Tail(s)
<1>1. /\ t \in Seq(Accesses) /\ Len(t) = Len(s) - 1 /\ Len(s) \in Nat \ {0}
      /\ DOMAIN s = 1..Len(s) /\ DOMAIN t = 1..Len(t)
      /\ \A i \in DOMAIN t : t[i] = s[i + 1]
  <2>1. /\ t \in Seq(Accesses) /\ Len(t) = Len(s) - 1
        /\ \A i \in 1..Len(t) : t[i] = s[i + 1]
    BY HeadTailProperties
  <2>2. Len(s) \in Nat \ {0}
    BY EmptySeq
  <2> QED
    BY <2>1, <2>2, LenProperties
<1> HIDE DEF t
<1>2. ASSUME NEW i \in DOMAIN t, NEW access PROVE StillAfter(t, i, access) <=> StillAfter(s, i + 1, access)
  <2>1. ASSUME NEW j \in DOMAIN t, j > i, t[j] = access PROVE StillAfter(s, i + 1, access)
    <3>1. j + 1 \in DOMAIN s /\ j + 1 > i + 1 /\ s[j + 1] = access
      BY <1>1, <2>1
    <3> QED
      BY <3>1 DEF StillAfter
  <2>2. ASSUME NEW j \in DOMAIN s, j > i + 1, s[j] = access PROVE StillAfter(t, i, access)
    <3>1. j - 1 \in DOMAIN t /\ j - 1 > i /\ (j - 1) + 1 = j
      BY <1>1, <2>2
    <3>2. t[j - 1] = access
      BY <1>1, <2>2, <3>1
    <3> QED
      BY <3>1, <3>2 DEF StillAfter
  <2> QED
    BY <2>1, <2>2 DEF StillAfter
<1>3. ASSUME NEW access PROVE Has(t, access) <=> StillAfter(s, 1, access)
  <2>1. ASSUME NEW j \in DOMAIN t, t[j] = access PROVE StillAfter(s, 1, access)
    <3>1. j + 1 \in DOMAIN s /\ j + 1 > 1 /\ s[j + 1] = access
      BY <1>1, <2>1
    <3> QED
      BY <3>1 DEF StillAfter
  <2>2. ASSUME NEW j \in DOMAIN s, j > 1, s[j] = access PROVE Has(t, access)
    <3>1. j - 1 \in DOMAIN t /\ (j - 1) + 1 = j
      BY <1>1, <2>2
    <3>2. t[j - 1] = access
      BY <1>1, <2>2, <3>1
    <3> QED
      BY <3>1, <3>2 DEF Has
  <2> QED
    BY <2>1, <2>2 DEF StillAfter, Has
<1>4. ASSUME NEW access PROVE Has(s, access) <=> s[1] = access \/ StillAfter(s, 1, access)
  <2>1. 1 \in DOMAIN s /\ \A j \in DOMAIN s : j = 1 \/ j > 1
    BY <1>1
  <2> QED
    BY <2>1 DEF Has, StillAfter
<1>5. ASSUME Len(s) = 1, NEW access PROVE ~StillAfter(s, 1, access)
  BY <1>1, <1>5 DEF StillAfter
<1>6. ASSUME Fits(s) PROVE Fits(t)
  <2> SUFFICES ASSUME NEW i \in DOMAIN t PROVE FitsAt(t, i)
    BY DEF Fits
  <2>1. i + 1 \in DOMAIN s /\ t[i] = s[i + 1]
    BY <1>1
  <2> QED
    BY <1>2, <1>6, <2>1 DEF Fits, FitsAt
<1>7. Len(s) # 1 => t # <<>>
  BY <1>1
<1> QED
  BY <1>1, <1>3, <1>4, <1>5, <1>6, <1>7 DEF t

LEMMA FitsCreating ==
  ASSUME NEW s \in Seq(Accesses), s # <<>>, s[1] = "number", Fits(s)
  PROVE  /\ Fits(<<"number", "create">> \o s)
         /\ \A access \in {"write", "insert", "point", "reload"} :
              Has(<<"number", "create">> \o s, access) <=> Has(s, access)
<1> DEFINE p == <<"number", "create">>
           t == p \o s
<1>1. p \in Seq(Accesses) /\ Len(p) = 2 /\ p[1] = "number" /\ p[2] = "create"
  BY DEF Accesses
<1> HIDE DEF p
<1>2. /\ t \in Seq(Accesses) /\ Len(t) = 2 + Len(s)
      /\ \A i \in 1..2 + Len(s) : t[i] = IF i <= 2 THEN p[i] ELSE s[i - 2]
  <2>1. /\ p \o s \in Seq(Accesses) /\ Len(p \o s) = Len(p) + Len(s)
        /\ \A i \in 1..Len(p) + Len(s) :
             (p \o s)[i] = IF i <= Len(p) THEN p[i] ELSE s[i - Len(p)]
    BY <1>1, ConcatProperties
  <2> QED
    BY <1>1, <2>1
<1> HIDE DEF t
<1>3. DOMAIN s = 1..Len(s) /\ DOMAIN t = 1..Len(s) + 2 /\ Len(s) \in Nat \ {0}
  <2>1. Len(s) \in Nat \ {0}
    BY EmptySeq
  <2> QED
    BY <1>2, <2>1, LenProperties
<1>4. \A i \in DOMAIN s : i + 2 \in DOMAIN t /\ t[i + 2] = s[i]
  <2> SUFFICES ASSUME NEW i \in DOMAIN s PROVE i + 2 \in DOMAIN t /\ t[i + 2] = s[i]
    OBVIOUS
  <2>1. i + 2 \in 1..2 + Len(s) /\ ~(i + 2 <= 2) /\ (i + 2) - 2 = i
    BY <1>3
  <2> QED
    BY <1>2, <1>3, <2>1
<1>5. \A j \in DOMAIN t : \/ j = 1 /\ t[j] = "number"
                          \/ j = 2 /\ t[j] = "create"
                          \/ j > 2 /\ j - 2 \in DOMAIN s /\ t[j] = s[j - 2]
  <2> SUFFICES ASSUME NEW j \in DOMAIN t
               PROVE  \/ j = 1 /\ t[j] = "number"
                      \/ j = 2 /\ t[j] = "create"
                      \/ j > 2 /\ j - 2 \in DOMAIN s /\ t[j] = s[j - 2]
    OBVIOUS
  <2>1. j = 1 \/ j = 2 \/ (j > 2 /\ j - 2 \in DOMAIN s /\ ~(j <= 2))
    BY <1>3
  <2>2. t[j] = IF j <= 2 THEN p[j] ELSE s[j - 2]
    BY <1>2, <1>3
  <2> QED
    BY <1>1, <2>1, <2>2
<1>6. ASSUME NEW i \in DOMAIN s, NEW access
      PROVE  StillAfter(t, i + 2, access) <=> StillAfter(s, i, access)
  <2>1. ASSUME NEW j \in DOMAIN t, j > i + 2, t[j] = access PROVE StillAfter(s, i, access)
    <3>1. j - 2 \in DOMAIN s /\ s[j - 2] = access /\ j - 2 > i
      BY <1>3, <1>5, <2>1
    <3> QED
      BY <3>1 DEF StillAfter
  <2>2. ASSUME NEW j \in DOMAIN s, j > i, s[j] = access PROVE StillAfter(t, i + 2, access)
    <3>1. j + 2 \in DOMAIN t /\ t[j + 2] = access /\ j + 2 > i + 2
      BY <1>3, <1>4, <2>2
    <3> QED
      BY <3>1 DEF StillAfter
  <2> QED
    BY <2>1, <2>2 DEF StillAfter
<1>7. ASSUME NEW i \in {1, 2}, NEW access, Has(s, access) PROVE StillAfter(t, i, access)
  <2>1. PICK j \in DOMAIN s : s[j] = access
    BY <1>7 DEF Has
  <2>2. j + 2 \in DOMAIN t /\ j + 2 > i /\ t[j + 2] = access
    BY <1>3, <1>4, <2>1
  <2> QED
    BY <2>2 DEF StillAfter
<1>8. Has(s, "insert") /\ Has(s, "point") /\ Has(s, "number")
  <2>1. 1 \in DOMAIN s
    BY <1>3
  <2>2. StillAfter(s, 1, "insert") /\ StillAfter(s, 1, "point")
    BY <2>1 DEF Fits, FitsAt
  <2> QED
    BY <2>2, FitsRest
<1>9. Fits(t)
  <2> SUFFICES ASSUME NEW i \in DOMAIN t PROVE FitsAt(t, i)
    BY DEF Fits
  <2>1. CASE i \in {1, 2}
    <3>1. t[i] \in {"number", "create"}
      BY <1>5, <2>1
    <3>2. StillAfter(t, i, "insert") /\ StillAfter(t, i, "point") /\ StillAfter(t, i, "number")
      BY <1>7, <1>8, <2>1
    <3> QED
      BY <3>1, <3>2 DEF FitsAt
  <2>2. CASE i \notin {1, 2}
    <3>1. i - 2 \in DOMAIN s /\ t[i] = s[i - 2] /\ (i - 2) + 2 = i
      BY <1>3, <1>5, <2>2
    <3>2. \A access : StillAfter(t, i, access) <=> StillAfter(s, i - 2, access)
      BY <1>6, <3>1
    <3> QED
      BY <3>1, <3>2 DEF Fits, FitsAt
  <2> QED
    BY <2>1, <2>2
<1>10. ASSUME NEW access \in {"write", "insert", "point", "reload"}
       PROVE  Has(t, access) <=> Has(s, access)
  <2>1. ASSUME Has(t, access) PROVE Has(s, access)
    <3>1. PICK j \in DOMAIN t : t[j] = access
      BY <2>1 DEF Has
    <3>2. j - 2 \in DOMAIN s /\ s[j - 2] = access
      BY <1>5, <1>10, <3>1
    <3> QED
      BY <3>2 DEF Has
  <2>2. ASSUME Has(s, access) PROVE Has(t, access)
    <3>1. PICK j \in DOMAIN s : s[j] = access
      BY <2>2 DEF Has
    <3> QED
      BY <1>4, <3>1 DEF Has
  <2> QED
    BY <2>1, <2>2
<1> QED
  BY <1>9, <1>10 DEF t, p

\* The lists that handlers begin with.
LEMMA SavingFits ==
  LET s == <<"write", "number", "insert", "point">>
  IN  /\ Fits(s) /\ ~Has(s, "reload") 
      /\ Has(s, "write") /\ Has(s, "insert") /\ Has(s, "point")
BY DEF Fits, FitsAt, StillAfter, Has

LEMMA RollbackFits ==
  LET s == <<"number", "insert", "point", "write">>
  IN  /\ Fits(s) /\ ~Has(s, "reload") 
      /\ Has(s, "write") /\ Has(s, "insert") /\ Has(s, "point")
BY DEF Fits, FitsAt, StillAfter, Has

LEMMA AskingFits ==
  LET s == <<"number", "insert", "point", "request", "fetch", "chain">>
  IN  Fits(s) /\ ~Has(s, "reload") /\ ~Has(s, "write") /\ Has(s, "insert") /\ Has(s, "point")
BY DEF Fits, FitsAt, StillAfter, Has

LEMMA AuditingFits ==
  /\ Fits(Auditing) /\ ~Has(Auditing, "write") /\ ~Has(Auditing, "point")
  /\ LET s == <<"decide", "fetch", "chain">>
     IN  Fits(s) /\ ~Has(s, "write") /\ ~Has(s, "point")
BY DEF Fits, FitsAt, StillAfter, Has, Auditing

LEMMA ApprovingFits ==
  LET s == <<"decide", "fetch", "chain", "reload", "write", "number", "insert", "point", "apply",
             "fetch", "chain">>
  IN  /\ Fits(s)
      /\ Has(s, "reload") /\ Has(s, "write") /\ Has(s, "insert") /\ Has(s, "point")
BY DEF Fits, FitsAt, StillAfter, Has

-----------------------------------------------------------------------------
\* What the kinds of steps keep.

LEMMA ReleasesHas ==
  ASSUME NEW k
  PROVE  Releases(k) <=> Has(k.todo, "write") \/ Has(k.todo, "point")
BY DEF Releases, Does, Has

LEMMA Rest ==
  ASSUME NEW k \in Callish, k.todo # <<>>, Fits(k.todo), Ordered(k.todo)
  PROVE  /\ Advanced(k) \in Callish /\ Fits(Advanced(k).todo) /\ FitsAt(k.todo, 1)
         /\ \A access : Has(Advanced(k).todo, access) <=> StillAfter(k.todo, 1, access)
         /\ \A access : Has(k.todo, access) <=> Faces(k, access) \/ StillAfter(k.todo, 1, access)
         /\ Advanced(k).todo # <<>> =>
              /\ Advanced(k).row = k.row /\ Advanced(k).channel = k.channel
              /\ Advanced(k).no = k.no
<1> DEFINE s == k.todo
<1>1. s \in Seq(Accesses) /\ s # <<>>
  BY DEF Callish
<1>2. Advanced(k) \in Callish
  BY Advances DEF Becomes
<1>3. FitsAt(s, 1)
  <2>1. 1 \in DOMAIN s
    BY <1>1, EmptySeq, LenProperties
  <2> QED
    BY <2>1 DEF Fits
<1>4. \A access : Has(s, access) <=> Faces(k, access) \/ StillAfter(s, 1, access)
  BY <1>1, FitsRest DEF Faces
<1>5. CASE Len(s) = 1
  <2>1. Advanced(k) = AdminIdle
    BY <1>5 DEF Advanced
  <2>2. Fits(AdminIdle.todo)
    BY IdleCall DEF Fits
  <2>3. \A access : ~StillAfter(s, 1, access)
    BY <1>1, <1>5, FitsRest
  <2> QED
    BY <1>2, <1>3, <1>4, <2>1, <2>2, <2>3, IdleCall
<1>6. CASE Len(s) # 1
  <2>1. Advanced(k) = [k EXCEPT !.todo = Tail(s)]
    BY <1>6 DEF Advanced
  <2>2. Fits(Tail(s)) /\ \A access : Has(Tail(s), access) <=> StillAfter(s, 1, access)
    BY <1>1, <1>6, FitsRest
  <2>3. /\ Advanced(k).todo = Tail(s) /\ Advanced(k).row = k.row /\ Advanced(k).no = k.no
        /\ Advanced(k).channel = k.channel
    BY <2>1 DEF Callish
  <2> QED
    BY <1>2, <1>3, <1>4, <2>2, <2>3
<1> QED
  BY <1>5, <1>6

\* A call goes on, as what k is to be, but for the access that is made.
LEMMA GoesOn ==
  ASSUME Basis, ReleaseInv, NEW c \in AdminCalls, NEW k \in Callish, k.todo # <<>>, Fits(k.todo),
         Ordered(k.todo), Proceed(c, k), past'.mixed = past.mixed, release' \in [Channels -> Int],
         Releases(k) <=> Releases(adminCall[c]),
         ~Releases(adminCall[c]) => UNCHANGED <<app, versions, release>>,
         Releases(adminCall[c]) /\ Publishing(adminCall[c], app, versions, release) =>
           IF Releases(Advanced(k)) THEN Publishing(Advanced(k), app', versions', release')
                                    ELSE Shows(app', versions', release')
  PROVE  ReleaseInv'
<1> DEFINE j == Advanced(k)
<1>1. adminCall \in [AdminCalls -> Callish]
  BY DEF Basis, CallsTyped
<1>2. adminCall' = [adminCall EXCEPT ![c] = j]
  BY DEF Proceed, Advanced
<1>3. Fits(j.todo) /\ (Releases(j) => Releases(adminCall[c]))
  BY Rest, ReleasesHas
<1> HIDE DEF j
<1>4. adminCall'[c] = j /\ \A d \in AdminCalls \ {c} : adminCall'[d] = adminCall[d]
  BY <1>1, <1>2
<1>5. Fitting'
  BY <1>3, <1>4 DEF ReleaseInv, Fitting
<1>6. ASSUME ~past.mixed PROVE OneReleases' /\ Released'
  <2>1. OneReleases /\ Released
    BY <1>6 DEF ReleaseInv
  <2>2. \A d \in AdminCalls : Releases(adminCall'[d]) => Releases(adminCall[d])
    BY <1>3, <1>4
  <2>3. OneReleases'
    BY <2>1, <2>2 DEF OneReleases
  <2>4. CASE Releases(adminCall[c])
    <3>1. \A d \in AdminCalls \ {c} : ~Releases(adminCall'[d])
      BY <2>1, <2>2, <2>4 DEF OneReleases
    <3>2. IF Releases(j) THEN Publishing(j, app', versions', release')
                         ELSE Shows(app', versions', release')
      BY <2>1, <2>4 DEF Released, j
    <3> QED
      BY <2>3, <3>1, <3>2, <1>4 DEF Released
  <2>5. CASE ~Releases(adminCall[c])
    <3>1. app' = app /\ versions' = versions /\ release' = release
      BY <2>5
    <3>2. ~Releases(adminCall'[c])
      BY <2>2, <2>5
    <3>3. \A d \in AdminCalls : Releases(adminCall'[d]) <=> Releases(adminCall[d])
      BY <1>4, <2>5, <3>2
    <3>4. \A d \in AdminCalls :
            Releases(adminCall'[d]) => Publishing(adminCall'[d], app', versions', release')
      BY <1>4, <2>1, <3>1, <3>2 DEF Released
    <3>5. (\A d \in AdminCalls : ~Releases(adminCall'[d])) => Shows(app', versions', release')
      BY <2>1, <3>1, <3>3 DEF Released
    <3> QED
      BY <2>3, <3>4, <3>5 DEF Released
  <2> QED
    BY <2>4, <2>5
<1> QED
  BY <1>5, <1>6 DEF ReleaseInv

\* A call that changes the app and ends early leaves it mixed.
LEMMA QuitKeeps ==
  ASSUME Basis, ReleaseInv, NEW c \in AdminCalls, Quit(c), UNCHANGED <<app, versions, release>>
  PROVE  ReleaseInv'
<1>1. past \in Pastish /\ adminCall \in [AdminCalls -> Callish]
  BY DEF Basis, CallsTyped
<1>2. adminCall' = [adminCall EXCEPT ![c] = AdminIdle]
  BY DEF Quit
<1>3. adminCall'[c] = AdminIdle /\ \A d \in AdminCalls \ {c} : adminCall'[d] = adminCall[d]
  BY <1>1, <1>2
<1>4. Fits(AdminIdle.todo) /\ ~Releases(AdminIdle)
  BY IdleCall, ReleasesHas DEF Fits
<1>5. past'.mixed <=> past.mixed \/ Releases(adminCall[c])
  BY <1>1 DEF Quit, Pastish
<1>6. Fitting'
  BY <1>3, <1>4 DEF ReleaseInv, Fitting
<1>7. ASSUME ~past'.mixed PROVE OneReleases' /\ Released'
  <2>1. OneReleases /\ Released /\ ~Releases(adminCall[c])
    BY <1>5, <1>7 DEF ReleaseInv
  <2>2. \A d \in AdminCalls : Releases(adminCall'[d]) <=> Releases(adminCall[d])
    BY <1>3, <1>4, <2>1
  <2>3. OneReleases'
    BY <2>1, <2>2 DEF OneReleases
  <2>4. app' = app /\ versions' = versions /\ release' = release
    OBVIOUS
  <2>5. \A d \in AdminCalls :
          Releases(adminCall'[d]) => Publishing(adminCall'[d], app', versions', release')
    BY <1>3, <1>4, <2>1, <2>4 DEF Released
  <2>6. (\A d \in AdminCalls : ~Releases(adminCall'[d])) => Shows(app', versions', release')
    BY <2>1, <2>2, <2>4 DEF Released
  <2> QED
    BY <2>3, <2>5, <2>6 DEF Released
<1>8. release' \in [Channels -> Int]
  BY DEF ReleaseInv
<1> QED
  BY <1>6, <1>7, <1>8 DEF ReleaseInv

\* A call that begins beside no other has the app as it is released.
LEMMA BeginKeeps ==
  ASSUME Basis, ReleaseInv, NEW c \in AdminCalls, NEW k \in Callish, Fits(k.todo), Begin(c, k),
         Releases(k) /\ Shows(app, versions, release) => Publishing(k, app, versions, release)
  PROVE  ReleaseInv'
<1>1. past \in Pastish /\ adminCall \in [AdminCalls -> Callish]
  BY DEF Basis, CallsTyped
<1>2. /\ adminCall' = [adminCall EXCEPT ![c] = k] /\ adminCall[c].todo = <<>>
      /\ UNCHANGED <<app, versions, release>>
  BY DEF Begin
<1>3. adminCall'[c] = k /\ \A d \in AdminCalls \ {c} : adminCall'[d] = adminCall[d]
  BY <1>1, <1>2
<1>4. ~Releases(adminCall[c])
  BY <1>2, ReleasesHas DEF Has
<1>5. past'.mixed <=> past.mixed \/ (Releases(k) /\ \E d \in AdminCalls \ {c} : Releases(adminCall[d]))
  <2> DEFINE others == {adminCall[d] : d \in AdminCalls \ {c}}
  <2>1. past'.mixed <=> past.mixed \/ (Releases(k) /\ \E d \in others : Releases(d))
    BY <1>1 DEF Begin, Pastish
  <2> QED
    BY <2>1
<1>6. Fitting'
  BY <1>3 DEF ReleaseInv, Fitting
<1>7. ASSUME ~past'.mixed PROVE OneReleases' /\ Released'
  <2>1. OneReleases /\ Released
    BY <1>5, <1>7 DEF ReleaseInv
  <2>2. app' = app /\ versions' = versions /\ release' = release
    BY <1>2
  <2>3. CASE Releases(k)
    <3>1. \A d \in AdminCalls : ~Releases(adminCall[d])
      BY <1>4, <1>5, <1>7, <2>3
    <3>2. \A d \in AdminCalls \ {c} : ~Releases(adminCall'[d])
      BY <1>3, <3>1
    <3>3. Publishing(k, app, versions, release)
      BY <2>1, <2>3, <3>1 DEF Released
    <3>4. OneReleases'
      BY <3>2 DEF OneReleases
    <3> QED
      BY <1>3, <2>2, <2>3, <3>2, <3>3, <3>4 DEF Released
  <2>4. CASE ~Releases(k)
    <3>1. \A d \in AdminCalls : Releases(adminCall'[d]) <=> Releases(adminCall[d])
      BY <1>3, <1>4, <2>4
    <3>2. OneReleases'
      BY <2>1, <3>1 DEF OneReleases
    <3>3. \A d \in AdminCalls :
            Releases(adminCall'[d]) => Publishing(adminCall'[d], app', versions', release')
      BY <1>3, <2>1, <2>2, <2>4 DEF Released
    <3>4. (\A d \in AdminCalls : ~Releases(adminCall'[d])) => Shows(app', versions', release')
      BY <2>1, <2>2, <3>1 DEF Released
    <3> QED
      BY <3>2, <3>3, <3>4 DEF Released
  <2> QED
    BY <2>3, <2>4
<1>8. release' \in [Channels -> Int]
  BY <1>2 DEF ReleaseInv
<1> QED
  BY <1>6, <1>7, <1>8 DEF ReleaseInv

-----------------------------------------------------------------------------
\* The accesses.

LEMMA Going ==
  ASSUME Basis, ReleaseInv, NEW c \in AdminCalls
  PROVE  /\ adminCall[c] \in Callish /\ Ordered(adminCall[c].todo) /\ Fits(adminCall[c].todo)
         /\ past \in Pastish /\ release \in [Channels -> Int]
BY Here DEF ReleaseInv, Fitting, Shape

\* What an access leaves to be made.
LEMMA Leaves ==
  ASSUME NEW k \in Callish, k.todo # <<>>, Fits(k.todo), Ordered(k.todo),
         NEW access, Faces(k, access)
  PROVE  /\ \A other : other # access => (Has(Advanced(k).todo, other) <=> Has(k.todo, other))
         /\ Has(k.todo, access)
         /\ access \in {"write", "insert", "point", "reload"} => ~Has(Advanced(k).todo, access)
         /\ Has(Advanced(k).todo, "write") \/ Has(Advanced(k).todo, "point") =>
              /\ Advanced(k).row = k.row /\ Advanced(k).channel = k.channel
              /\ Advanced(k).no = k.no
<1>1. \A other : Has(k.todo, other) <=> Faces(k, other) \/ StillAfter(k.todo, 1, other)
  BY Rest
<1>2. \A other : Has(Advanced(k).todo, other) <=> StillAfter(k.todo, 1, other)
  BY Rest
<1>3. \A other : other # access => ~Faces(k, other)
  BY DEF Faces
<1>4. access \in {"write", "insert", "point", "reload"} => ~StillAfter(k.todo, 1, access)
  BY Rest DEF FitsAt, Faces
<1>5. \A other : Has(Advanced(k).todo, other) => Advanced(k).todo # <<>>
  BY DEF Has
<1> QED
  BY <1>1, <1>2, <1>3, <1>4, <1>5, Rest

LEMMA WriteKeeps ==
  ASSUME Basis, ReleaseInv, NEW c \in AdminCalls, WriteApp(c)
  PROVE  ReleaseInv'
<1> DEFINE k == adminCall[c]
           j == Advanced(k)
<1>1. /\ k \in Callish /\ Ordered(k.todo) /\ Fits(k.todo) /\ Faces(k, "write") /\ k.todo # <<>>
      /\ release \in [Channels -> Int]
  BY Going, AtNext DEF WriteApp, Faces
<1>2. /\ app' = k.row /\ versions' = versions /\ release' = release /\ past' = past
      /\ Proceed(c, k)
  BY DEF WriteApp, Pass
<1>3. /\ \A other : other # "write" => (Has(j.todo, other) <=> Has(k.todo, other))
      /\ Has(k.todo, "write") /\ ~Has(j.todo, "write")
      /\ Has(j.todo, "point") => j.row = k.row /\ j.channel = k.channel /\ j.no = k.no
  BY <1>1, Leaves
<1>4. ~Has(k.todo, "reload") /\ (Has(j.todo, "point") => Has(j.todo, "insert"))
  BY <1>1, <1>3, Rest DEF FitsAt, Faces
<1>5. Releases(k) /\ (Releases(j) <=> Has(j.todo, "point"))
  BY <1>3, ReleasesHas
<1>6. k.channel = "published" \/ k.channel = "draft"
  BY <1>1 DEF Callish, Channels
<1> HIDE DEF j
<1>7. ASSUME Publishing(k, app, versions, release)
      PROVE  IF Releases(j) THEN Publishing(j, app', versions', release')
                            ELSE Shows(app', versions', release')
  <2>1. k.row.status = "active" => k.channel = "published"
    BY <1>4, <1>7 DEF Publishing
  <2>2. CASE Has(j.todo, "point")
    <3>1. k.channel # "published" => Shows(app', versions', release')
      BY <1>2, <2>1 DEF Shows
    <3> QED
      BY <1>2, <1>3, <1>4, <1>5, <2>1, <2>2, <3>1 DEF Publishing
  <2>3. CASE ~Has(j.todo, "point")
    <3>1. k.channel = "published" =>
            \E i \in DOMAIN versions : versions[i].no = release.published /\ versions[i].row = k.row
      BY <1>3, <1>7, <2>3 DEF Publishing
    <3>2. Shows(app', versions', release')
      BY <1>2, <2>1, <3>1 DEF Shows
    <3> QED
      BY <1>5, <2>3, <3>2
  <2> QED
    BY <2>2, <2>3
<1> QED
  BY <1>1, <1>2, <1>5, <1>7, GoesOn DEF j

\* A step that changes neither the app nor its versions, nor what a call has in hand for them.
LEMMA IdleKeeps ==
  ASSUME Basis, ReleaseInv, NEW c \in AdminCalls, NEW access, Faces(adminCall[c], access),
         access \notin {"write", "insert", "point", "reload", "number", "create"},
         NEW k \in Callish, k.todo = adminCall[c].todo, k.row = adminCall[c].row,
         k.channel = adminCall[c].channel,
         k.no = adminCall[c].no, Proceed(c, k),
         UNCHANGED <<app, versions, release>>, past'.mixed = past.mixed
  PROVE  ReleaseInv'
<1> DEFINE j == Advanced(k)
<1>1. /\ Ordered(k.todo) /\ Fits(k.todo) /\ Faces(k, access) /\ k.todo # <<>>
      /\ release' \in [Channels -> Int]
  BY Going DEF Faces
<1>2. /\ \A other \in {"write", "insert", "point", "reload"} :
           Has(j.todo, other) <=> Has(adminCall[c].todo, other)
      /\ Has(j.todo, "write") \/ Has(j.todo, "point") =>
           j.row = k.row /\ j.channel = k.channel /\ j.no = k.no
  BY <1>1, Leaves
<1>3. Releases(k) <=> Releases(adminCall[c])
  BY ReleasesHas
<1>4. Releases(j) <=> Releases(adminCall[c])
  BY <1>2, ReleasesHas
<1> HIDE DEF j
<1>5. ASSUME Releases(adminCall[c]), Publishing(adminCall[c], app, versions, release)
      PROVE  Publishing(j, app', versions', release')
  <2>1. j.row = adminCall[c].row /\ j.channel = adminCall[c].channel /\ j.no = adminCall[c].no
    BY <1>2, <1>4, <1>5, ReleasesHas
  <2>2. app' = app /\ versions' = versions /\ release' = release
    OBVIOUS
  <2> QED
    BY <1>2, <1>5, <2>1, <2>2 DEF Publishing
<1> QED
  BY <1>1, <1>3, <1>4, <1>5, GoesOn DEF j

LEMMA ReloadKeeps ==
  ASSUME Basis, ReleaseInv, NEW c \in AdminCalls, ReloadApp(c)
  PROVE  ReleaseInv'
<1> DEFINE k == [adminCall[c] EXCEPT !.row = [content |-> app.content, status |-> "active"],
                                     !.channel = "published"]
           j == Advanced(k)
<1>1. /\ Ordered(adminCall[c].todo) /\ Fits(adminCall[c].todo) /\ Faces(adminCall[c], "reload")
      /\ adminCall[c].todo # <<>> /\ release' \in [Channels -> Int]
  BY Going, AtNext DEF ReloadApp, Faces, Rows
<1>2. k \in Callish /\ k.todo = adminCall[c].todo /\ k.channel = "published"
  <2>1. [content |-> app.content, status |-> "active"] \in Rowish
    BY Here DEF Rowish, AppStatuses
  <2> QED
    BY <2>1, Here DEF Callish, Channels
<1>3. Proceed(c, k) /\ app' = app /\ versions' = versions /\ release' = release /\ past' = past
  BY DEF ReloadApp, Rows
<1> HIDE DEF k
<1>4. Faces(k, "reload")
  BY <1>1, <1>2 DEF Faces
<1>5. /\ \A other : other # "reload" => (Has(j.todo, other) <=> Has(adminCall[c].todo, other))
      /\ ~Has(j.todo, "reload")
      /\ Has(j.todo, "write") => j.row = k.row /\ j.channel = k.channel /\ j.no = k.no
  BY <1>1, <1>2, <1>4, Leaves
<1>6. Has(j.todo, "write") /\ Has(j.todo, "insert") /\ Has(j.todo, "point")
  BY <1>1, <1>2, <1>4, Rest DEF FitsAt, Faces
<1>7. Releases(k) /\ Releases(j) /\ Releases(adminCall[c])
  BY <1>2, <1>5, <1>6, ReleasesHas
<1> HIDE DEF j
<1>8. ASSUME Publishing(adminCall[c], app, versions, release)
      PROVE  Publishing(j, app', versions', release')
  BY <1>2, <1>3, <1>5, <1>6, <1>8 DEF Publishing
<1> QED
  BY <1>1, <1>2, <1>3, <1>7, <1>8, GoesOn DEF j

LEMMA PointKeeps ==
  ASSUME Basis, ReleaseInv, NEW c \in AdminCalls, PointRelease(c)
  PROVE  ReleaseInv'
<1> DEFINE k == adminCall[c]
           j == Advanced(k)
<1>1. /\ k \in Callish /\ Ordered(k.todo) /\ Fits(k.todo) /\ Faces(k, "point") /\ k.todo # <<>>
      /\ release \in [Channels -> Int]
  BY Going, AtNext DEF PointRelease, Faces
<1>2. /\ app' = app /\ versions' = versions /\ past' = past /\ Proceed(c, k)
      /\ release' = [release EXCEPT ![k.channel] = k.no]
  BY DEF PointRelease, Pass
<1>3. k.channel \in Channels /\ k.no \in Int
  BY <1>1 DEF Callish
<1>4. /\ release' \in [Channels -> Int]
      /\ k.channel = "published" => release'.published = k.no
      /\ k.channel # "published" => release'.published = release.published
  BY <1>1, <1>2, <1>3 DEF Channels
<1>5. /\ \A other : other # "point" => (Has(j.todo, other) <=> Has(k.todo, other))
      /\ Has(k.todo, "point") /\ ~Has(j.todo, "point")
      /\ Has(j.todo, "write") => j.row = k.row /\ j.channel = k.channel /\ j.no = k.no
  BY <1>1, Leaves
<1>6. ~Has(k.todo, "reload") /\ ~Has(k.todo, "insert")
  BY <1>1, <1>5, Rest DEF FitsAt, Faces
<1>7. Releases(k) /\ (Releases(j) <=> Has(j.todo, "write"))
  BY <1>5, ReleasesHas
<1> HIDE DEF j
<1>8. ASSUME Publishing(k, app, versions, release)
      PROVE  IF Releases(j) THEN Publishing(j, app', versions', release')
                            ELSE Shows(app', versions', release')
  <2>1. k.channel = "published" =>
          \E i \in DOMAIN versions' : versions'[i].no = release'.published /\ versions'[i].row = k.row
    BY <1>2, <1>4, <1>5, <1>6, <1>8 DEF Publishing
  <2>2. CASE Has(j.todo, "write")
    BY <1>2, <1>5, <1>6, <1>7, <1>8, <2>1, <2>2 DEF Publishing
  <2>3. CASE ~Has(j.todo, "write")
    <3>1. CASE k.channel = "published"
      <4>1. app' = k.row
        BY <1>2, <1>5, <1>8, <2>3, <3>1 DEF Publishing
      <4> QED
        BY <1>7, <2>1, <2>3, <3>1, <4>1 DEF Shows
    <3>2. CASE k.channel # "published"
      <4>1. Shows(app, versions, release)
        BY <1>5, <1>8, <2>3, <3>2 DEF Publishing
      <4> QED
        BY <1>2, <1>4, <1>7, <2>3, <3>2, <4>1 DEF Shows
    <3> QED
      BY <3>1, <3>2
  <2> QED
    BY <2>2, <2>3
<1> QED
  BY <1>1, <1>2, <1>4, <1>7, <1>8, GoesOn DEF j

\* A version that is added leaves the others as they are.
LEMMA InsertKeeps ==
  ASSUME Basis, ReleaseInv, NEW c \in AdminCalls, InsertVersion(c)
  PROVE  ReleaseInv'
<1> DEFINE k == adminCall[c]
           j == Advanced(k)
           v == [no |-> k.no, row |-> k.row, channel |-> k.channel]
<1>1. /\ k \in Callish /\ Ordered(k.todo) /\ Fits(k.todo) /\ Faces(k, "insert") /\ k.todo # <<>>
      /\ release \in [Channels -> Int]
  BY Going, AtNext DEF InsertVersion, Faces
<1>2. CASE Taken(k.no)
  BY <1>2, QuitKeeps DEF InsertVersion
<1>3. CASE ~Taken(k.no)
  <2>1. /\ app' = app /\ release' = release /\ past' = past /\ Proceed(c, k)
        /\ versions' = Append(versions, v)
    BY <1>3 DEF InsertVersion, Pass
  <2>2. v \in Versionish /\ v.no = k.no /\ v.row = k.row
    BY <1>1 DEF Versionish, Callish
  <2> HIDE DEF v
  <2>3. /\ Len(versions) \in Nat /\ DOMAIN versions = 1..Len(versions)
        /\ versions \in Seq(Versionish)
    BY Here, Lengths
  <2>4. /\ versions' \in Seq(Versionish) /\ Len(versions') = Len(versions) + 1
        /\ \A i \in 1..Len(versions) : versions'[i] = versions[i]
        /\ versions'[Len(versions) + 1] = v
    BY <2>1, <2>2, <2>3, Appended
  <2>5. DOMAIN versions' = 1..Len(versions) + 1
    BY <2>4, LenProperties
  <2>6. /\ \A i \in DOMAIN versions : i \in DOMAIN versions' /\ versions'[i] = versions[i]
        /\ \E i \in DOMAIN versions' : versions'[i].no = k.no /\ versions'[i].row = k.row
    <3>1. Len(versions) + 1 \in DOMAIN versions'
      BY <2>3, <2>5
    <3> QED
      BY <2>2, <2>3, <2>4, <2>5, <3>1
  <2>7. /\ \A other : other # "insert" => (Has(j.todo, other) <=> Has(k.todo, other))
        /\ Has(k.todo, "insert") /\ ~Has(j.todo, "insert")
        /\ Has(j.todo, "write") \/ Has(j.todo, "point") =>
             j.row = k.row /\ j.channel = k.channel /\ j.no = k.no
    BY <1>1, Leaves
  <2>8. Has(k.todo, "point")
    BY <1>1, <2>7, Rest DEF FitsAt, Faces
  <2>9. Releases(k) /\ Releases(j)
    BY <2>7, <2>8, ReleasesHas
  <2> HIDE DEF j
  <2>10. Shows(app, versions, release) => Shows(app', versions', release')
    BY <2>1, <2>6 DEF Shows
  <2>11. ASSUME Publishing(k, app, versions, release)
         PROVE  Publishing(j, app', versions', release')
    BY <2>1, <2>6, <2>7, <2>8, <2>10, <2>11 DEF Publishing
  <2> QED
    BY <1>1, <2>1, <2>9, <2>11, GoesOn DEF j
<1> QED
  BY <1>2, <1>3

\* A call that numbers or creates has the whole of its version yet to record.
LEMMA YetToRecord ==
  ASSUME NEW k \in Callish, k.todo # <<>>, Fits(k.todo), Ordered(k.todo),
         Faces(k, "number") \/ Faces(k, "create")
  PROVE  /\ \A access \in {"write", "insert", "point", "reload"} :
              Has(Advanced(k).todo, access) <=> Has(k.todo, access)
         /\ Has(k.todo, "insert") /\ Has(k.todo, "point")
         /\ Advanced(k).row = k.row /\ Advanced(k).channel = k.channel
<1>1. \A access \in {"write", "insert", "point", "reload"} :
        Has(Advanced(k).todo, access) <=> Has(k.todo, access)
  BY Leaves
<1>2. Has(k.todo, "insert") /\ Has(k.todo, "point")
  BY Rest DEF FitsAt, Faces
<1>3. Advanced(k).row = k.row /\ Advanced(k).channel = k.channel
  BY <1>1, <1>2, Leaves
<1> QED
  BY <1>1, <1>2, <1>3

LEMMA NumberKeeps ==
  ASSUME Basis, VersionsNumbered, ReleaseInv, NEW c \in AdminCalls, NextVersionNo(c)
  PROVE  ReleaseInv'
<1> DEFINE old == adminCall[c]
<1>1. /\ old \in Callish /\ Ordered(old.todo) /\ Fits(old.todo) /\ Faces(old, "number")
      /\ old.todo # <<>> /\ old.todo \in Seq(Accesses)
      /\ release' \in [Channels -> Int]
  BY Going, AtNext DEF NextVersionNo, Faces, Rows, Callish
<1>2. app' = app /\ versions' = versions /\ release' = release /\ past' = past
  BY DEF NextVersionNo, Rows
<1>3. Has(old.todo, "insert") /\ Has(old.todo, "point")
  BY <1>1, YetToRecord
<1>4. ASSUME NEW k \in Callish, k.todo # <<>>, Fits(k.todo), Ordered(k.todo), Faces(k, "number"),
             k.row = old.row, k.channel = old.channel, Proceed(c, k),
             \A access \in {"write", "insert", "point", "reload"} :
               Has(k.todo, access) <=> Has(old.todo, access)
      PROVE  ReleaseInv'
  <2> DEFINE j == Advanced(k)
  <2>1. /\ \A access \in {"write", "insert", "point", "reload"} :
             Has(j.todo, access) <=> Has(old.todo, access)
        /\ j.row = old.row /\ j.channel = old.channel
    BY <1>4, YetToRecord
  <2>2. Releases(k) /\ Releases(j) /\ Releases(old)
    BY <1>3, <1>4, <2>1, ReleasesHas
  <2> HIDE DEF j
  <2>3. ASSUME Publishing(old, app, versions, release)
        PROVE  Publishing(j, app', versions', release')
    BY <1>2, <1>3, <2>1, <2>3 DEF Publishing
  <2> QED
    BY <1>1, <1>2, <1>4, <2>2, <2>3, GoesOn DEF j
<1>5. CASE release = NoRelease
  <2> DEFINE t == <<"number", "create">> \o old.todo
             k == [old EXCEPT !.todo = t]
  <2>1. old.todo[1] = "number"
    BY <1>1 DEF Faces
  <2>2. t \in Seq(Accesses) /\ t # <<>> /\ Ordered(t) /\ t[1] = "number"
    BY <1>1, <2>1, CreatingList
  <2>3. /\ Fits(t)
        /\ \A access \in {"write", "insert", "point", "reload"} :
             Has(t, access) <=> Has(old.todo, access)
    BY <1>1, <2>1, FitsCreating
  <2> HIDE DEF t
  <2>4. k \in Callish /\ k.todo = t /\ k.row = old.row /\ k.channel = old.channel
    BY <1>1, <2>2 DEF Callish
  <2>5. Proceed(c, k)
    BY <1>5 DEF NextVersionNo, t
  <2> HIDE DEF k
  <2>6. Faces(k, "number")
    BY <2>2, <2>4 DEF Faces
  <2> QED
    BY <1>4, <2>2, <2>3, <2>4, <2>5, <2>6
<1>6. CASE release # NoRelease
  <2> DEFINE k == [old EXCEPT !.no = Max(Numbers \cup {0}) + 1]
  <2>1. Max(Numbers \cup {0}) + 1 \in Nat
    BY MaxNumber, Here, LenProperties
  <2>2. k \in Callish /\ k.todo = old.todo /\ k.row = old.row /\ k.channel = old.channel
    BY <1>1, <2>1 DEF Callish
  <2>3. Proceed(c, k)
    BY <1>6 DEF NextVersionNo
  <2> HIDE DEF k
  <2>4. Faces(k, "number")
    BY <1>1, <2>2 DEF Faces
  <2> QED
    BY <1>1, <1>4, <2>2, <2>3, <2>4
<1> QED
  BY <1>5, <1>6

\* Nothing was published before there is a release row.
LEMMA CreateKeeps ==
  ASSUME Basis, VersionsNumbered, ReleaseInv, NEW c \in AdminCalls, CreateRelease(c)
  PROVE  ReleaseInv'
<1> DEFINE k == adminCall[c]
           j == Advanced(k)
<1>1. /\ k \in Callish /\ Ordered(k.todo) /\ Fits(k.todo) /\ Faces(k, "create") /\ k.todo # <<>>
  BY Going, AtNext DEF CreateRelease, Faces
<1>2. CASE app = NoRow \/ release # NoRelease
  BY <1>2, QuitKeeps DEF CreateRelease
<1>3. CASE ~(app = NoRow \/ release # NoRelease)
  <2>1. /\ app' = app /\ versions' = versions /\ past' = past /\ Proceed(c, k)
        /\ release = NoRelease /\ release' = [draft |-> 0, published |-> 0]
    BY <1>3 DEF CreateRelease, Pass
  <2>2. release' \in [Channels -> Int]
    BY <2>1 DEF Channels
  <2>3. Shows(app, versions, release) => app.status # "active"
    <3>1. \A i \in DOMAIN versions : versions[i].no # -1
      BY Lengths DEF VersionsNumbered
    <3> QED
      BY <2>1, <3>1 DEF Shows, NoRelease
  <2>4. Shows(app, versions, release) => Shows(app', versions', release')
    BY <2>1, <2>3 DEF Shows
  <2>5. /\ \A access \in {"write", "insert", "point", "reload"} :
             Has(j.todo, access) <=> Has(k.todo, access)
        /\ Has(k.todo, "insert") /\ Has(k.todo, "point")
        /\ j.row = k.row /\ j.channel = k.channel
    BY <1>1, YetToRecord
  <2>6. Releases(k) /\ Releases(j)
    BY <2>5, ReleasesHas
  <2> HIDE DEF j
  <2>7. ASSUME Publishing(k, app, versions, release)
        PROVE  Publishing(j, app', versions', release')
    BY <2>1, <2>4, <2>5, <2>7 DEF Publishing
  <2> QED
    BY <1>1, <2>1, <2>2, <2>6, <2>7, GoesOn DEF j
<1> QED
  BY <1>2, <1>3

LEMMA OtherAccessesKeep ==
  ASSUME Basis, ReleaseInv, NEW c \in AdminCalls,
         \/ CreateRequest(c) \/ Decide(c) \/ Apply(c) \/ FetchLatest(c) \/ FetchFails(c)
         \/ AppendAudit(c) \/ AppendFails(c)
  PROVE  ReleaseInv'
<1> DEFINE old == adminCall[c]
<1>1. /\ old \in Callish /\ past \in Pastish
      /\ audit \in [RequestId -> Seq(AuditRow)] /\ Shape(old, Len(requests), Len(versions))
  BY Here
<1>2. CASE CreateRequest(c)
  <2>1. CASE ~NonePending
    BY <1>2, <2>1, QuitKeeps DEF CreateRequest
  <2>2. CASE NonePending
    <3> DEFINE n == Len(requests) + 1
               k == [old EXCEPT !.req = n]
    <3>1. n \in Nat
      BY Lengths
    <3>2. /\ Faces(old, "request") /\ Proceed(c, k) /\ UNCHANGED <<app, versions, release, past>>
      BY <1>2, <2>2, AtNext DEF CreateRequest
    <3> HIDE DEF n
    <3>3. /\ k \in Callish /\ k.todo = old.todo /\ k.row = old.row /\ k.channel = old.channel
          /\ k.no = old.no
      BY <1>1, <3>1 DEF Callish
    <3> HIDE DEF k
    <3> QED
      BY <3>2, <3>3, IdleKeeps
  <2> QED
    BY <2>1, <2>2
<1>3. CASE Decide(c)
  <2> DEFINE k == [old EXCEPT !.event = old.decision]
  <2>1. Faces(old, "decide") /\ Proceed(c, k) /\ UNCHANGED <<app, versions, release, past>>
    BY <1>3, AtNext DEF Decide
  <2>2. old.decision \in Events
    BY <2>1, Marking DEF Events
  <2>3. /\ k \in Callish /\ k.todo = old.todo /\ k.row = old.row /\ k.channel = old.channel
        /\ k.no = old.no
    BY <1>1, <2>2 DEF Callish
  <2> HIDE DEF k
  <2> QED
    BY <2>1, <2>3, IdleKeeps
<1>4. CASE Apply(c)
  <2> DEFINE k == [old EXCEPT !.event = "request_applied"]
  <2>1. Faces(old, "apply") /\ Proceed(c, k) /\ UNCHANGED <<app, versions, release, past>>
    BY <1>4, AtNext DEF Apply
  <2>2. /\ k \in Callish /\ k.todo = old.todo /\ k.row = old.row /\ k.channel = old.channel
        /\ k.no = old.no
    BY <1>1 DEF Callish, Events
  <2> HIDE DEF k
  <2> QED
    BY <2>1, <2>2, IdleKeeps
<1>5. ASSUME NEW prev \in Nat, NEW forks \in BOOLEAN, Faces(old, "fetch"), Fetched(c, prev, forks)
      PROVE  ReleaseInv'
  <2> DEFINE k == [old EXCEPT !.prev = prev]
  <2>1. /\ k \in Callish /\ k.todo = old.todo /\ k.row = old.row /\ k.channel = old.channel
        /\ k.no = old.no
    BY <1>1 DEF Callish
  <2>2. /\ Proceed(c, k) /\ UNCHANGED <<app, versions, release>>
    BY <1>5 DEF Fetched, Rows
  <2>3. past'.mixed = past.mixed
    BY <1>1, <1>5 DEF Fetched, Pastish
  <2> HIDE DEF k
  <2> QED
    BY <1>5, <2>1, <2>2, <2>3, IdleKeeps
<1>6. CASE FetchLatest(c)
  <2> DEFINE forks == \E d \in AdminCalls : At(d, "chain") /\ adminCall[d].req = adminCall[c].req
  <2>1. Faces(old, "fetch") /\ Fetched(c, Latest(c), forks) /\ forks \in BOOLEAN
    BY <1>6, AtNext DEF FetchLatest
  <2>2. old.req \in RequestId
    BY <1>1, <2>1, ReqId DEF Shape
  <2>3. Latest(c) \in Nat
    BY <1>1, <2>2, LenProperties DEF Latest, Log
  <2> HIDE DEF forks
  <2> QED
    BY <1>5, <2>1, <2>3
<1>7. CASE FetchFails(c)
  BY <1>5, <1>7, AtNext DEF FetchFails
<1>8. CASE AppendAudit(c) \/ AppendFails(c)
  <2>1. /\ Faces(old, "chain") /\ Proceed(c, old) /\ UNCHANGED <<app, versions, release, past>>
    BY <1>8, AtNext DEF AppendAudit, AppendFails, Pass, Rows
  <2> QED
    BY <1>1, <2>1, IdleKeeps
<1> QED
  BY <1>2, <1>3, <1>4, <1>6, <1>7, <1>8

-----------------------------------------------------------------------------
\* The calls as they begin.

\* Saving, setting the status and rolling back: a row that is to be active is published.
LEMMA PublisherKeeps ==
  ASSUME Basis, ReleaseInv, NEW c \in AdminCalls, NEW row \in Rowish, NEW channel \in Channels,
         row.status = "active" => channel = "published",
         NEW s \in {<<"write", "number", "insert", "point">>, <<"number", "insert", "point", "write">>},
         Begin(c, [AdminIdle EXCEPT !.todo = s, !.channel = channel, !.row = row])
  PROVE  ReleaseInv'
<1> DEFINE k == [AdminIdle EXCEPT !.todo = s, !.channel = channel, !.row = row]
<1>1. /\ Fits(s) /\ ~Has(s, "reload")
      /\ Has(s, "write") /\ Has(s, "insert") /\ Has(s, "point")
  BY SavingFits, RollbackFits
<1>2. s \in Seq(Accesses)
  <2>1. /\ <<"write", "number", "insert", "point">> \in Seq(Accesses)
        /\ <<"number", "insert", "point", "write">> \in Seq(Accesses)
    BY DEF Accesses
  <2> QED
    BY <2>1
<1>3. k \in Callish /\ k.todo = s /\ k.row = row /\ k.channel = channel
  BY <1>2, IdleCall DEF Callish, AdminIdle
<1>4. Begin(c, k)
  OBVIOUS
<1> HIDE DEF k
<1>5. Shows(app, versions, release) => Publishing(k, app, versions, release)
  BY <1>1, <1>3 DEF Publishing
<1> QED
  BY <1>1, <1>3, <1>4, <1>5, BeginKeeps

LEMMA SavingKeeps ==
  ASSUME Basis, ReleaseInv, NEW c \in AdminCalls, NEW row \in Rowish,
         Begin(c, Saving(row, ChannelOf(row.status)))
  PROVE  ReleaseInv'
<1> DEFINE s == <<"write", "number", "insert", "point">>
           channel == ChannelOf(row.status)
<1>1. Begin(c, [AdminIdle EXCEPT !.todo = s, !.channel = channel, !.row = row])
  <2>1. Saving(row, channel) = [AdminIdle EXCEPT !.todo = s, !.channel = channel, !.row = row]
    BY SavingList DEF Saving, AdminIdle
  <2> QED
    BY <2>1
<1>2. channel \in Channels /\ (row.status = "active" => channel = "published")
  BY DEF ChannelOf, Channels
<1>3. s \in {<<"write", "number", "insert", "point">>, <<"number", "insert", "point", "write">>}
  OBVIOUS
<1> HIDE DEF s, channel
<1> QED
  BY <1>1, <1>2, <1>3, PublisherKeeps

LEMMA SavesKeep ==
  ASSUME Basis, ReleaseInv, NEW c \in AdminCalls,
         \/ \E row \in AppRow \ {NoRow} : Upsert(c, row)
         \/ \E status \in AppStatuses : SetStatus(c, status)
  PROVE  ReleaseInv'
<1>1. ASSUME NEW row \in AppRow \ {NoRow}, Upsert(c, row) PROVE ReleaseInv'
  <2>1. row \in Rowish
    BY DEF AppRow, Rowish
  <2> QED
    BY <1>1, <2>1, SavingKeeps DEF Upsert
<1>2. ASSUME NEW status \in AppStatuses, SetStatus(c, status) PROVE ReleaseInv'
  <2> DEFINE row == [content |-> app.content, status |-> status]
  <2>1. row \in Rowish /\ row.status = status
    BY Here DEF Rowish
  <2>2. Begin(c, Saving(row, ChannelOf(status)))
    BY <1>2 DEF SetStatus
  <2> HIDE DEF row
  <2> QED
    BY <2>1, <2>2, SavingKeeps
<1> QED
  BY <1>1, <1>2

LEMMA RollbackKeeps ==
  ASSUME Basis, ReleaseInv, NEW c \in AdminCalls, NEW i \in DOMAIN versions,
         NEW channel \in Channels, Rollback(c, i, channel)
  PROVE  ReleaseInv'
<1> DEFINE s == <<"number", "insert", "point", "write">>
           old == versions[i].row
           row == [old EXCEPT !.status = RollbackStatus(old, channel)]
<1>1. row \in Rowish /\ (row.status = "active" => channel = "published")
  <2>1. versions[i] \in Versionish
    BY Here, LenProperties, ElementOfSeq
  <2>2. old \in Rowish
    BY <2>1 DEF Versionish
  <2> QED
    BY <2>2 DEF Rowish, RollbackStatus, AppStatuses, Channels
<1>2. Begin(c, [AdminIdle EXCEPT !.todo = s, !.channel = channel, !.row = row])
  BY RollbackList DEF Rollback
<1> HIDE DEF row
<1> QED
  BY <1>1, <1>2, PublisherKeeps

LEMMA AskKeeps ==
  ASSUME Basis, ReleaseInv, NEW c \in AdminCalls, NEW a \in Admins, NEW content \in Contents,
         AskToPublish(c, a, content)
  PROVE  ReleaseInv'
<1> DEFINE s == <<"number", "insert", "point", "request", "fetch", "chain">>
           row == [content |-> content, status |-> "pending"]
           k == [AdminIdle EXCEPT !.todo = s, !.actor = a, !.row = row]
<1>1. s \in Seq(Accesses) /\ row \in Rowish /\ row.status # "active"
  BY DEF Accesses, Rowish, AppStatuses
<1>2. Begin(c, k)
  BY AskingList DEF AskToPublish
<1>3. /\ Fits(s) /\ ~Has(s, "reload") /\ ~Has(s, "write")
      /\ Has(s, "insert") /\ Has(s, "point")
  BY AskingFits
<1> HIDE DEF row, s
<1>4. k \in Callish /\ k.todo = s /\ k.row = row /\ k.channel = "draft"
  BY <1>1, IdleCall DEF Callish, AdminIdle
<1> HIDE DEF k
<1>5. Shows(app, versions, release) => Publishing(k, app, versions, release)
  BY <1>1, <1>3, <1>4 DEF Publishing
<1> QED
  BY <1>2, <1>3, <1>4, <1>5, BeginKeeps

\* A call that only audits changes no app.
LEMMA RemindKeeps ==
  ASSUME Basis, ReleaseInv, NEW c \in AdminCalls, NEW a \in Admins, NEW r \in DOMAIN requests,
         Remind(c, a, r)
  PROVE  ReleaseInv'
<1> DEFINE k == [AdminIdle EXCEPT !.todo = Auditing, !.actor = a, !.req = r,
                                  !.event = "reminder_sent"]
<1>1. Auditing \in Seq(Accesses) /\ "reminder_sent" \in Events
  BY DEF Accesses, Auditing, Events
<1>2. r \in Nat
  BY Lengths
<1>3. Begin(c, k)
  BY DEF Remind
<1>4. k \in Callish /\ k.todo = Auditing
  BY <1>1, <1>2, IdleCall DEF Callish, AdminIdle
<1> HIDE DEF k
<1>5. Fits(k.todo) /\ ~Releases(k)
  BY <1>4, AuditingFits, ReleasesHas
<1> QED
  BY <1>3, <1>4, <1>5, BeginKeeps

LEMMA ReviewKeeps ==
  ASSUME Basis, ReleaseInv, NEW c \in AdminCalls, NEW a \in Admins, NEW r \in DOMAIN requests,
         NEW d \in Decisions, Review(c, a, r, d)
  PROVE  ReleaseInv'
<1> DEFINE s == <<"decide", "fetch", "chain">>
           t == <<"decide", "fetch", "chain", "reload", "write", "number", "insert", "point",
                  "apply", "fetch", "chain">>
           list == IF d = "approved" THEN t ELSE s
           k == [AdminIdle EXCEPT !.todo = list, !.actor = a, !.req = r, !.decision = d]
<1>1. s \in Seq(Accesses) /\ t \in Seq(Accesses)
  BY DEF Accesses
<1>2. r \in Nat
  BY Lengths
<1>3. Begin(c, k)
  <2>1. list = <<"decide">> \o Auditing \o (IF d = "approved" THEN Approving ELSE <<>>)
    BY ReviewLists
  <2> QED
    BY <2>1 DEF Review
<1>4. Fits(s) /\ ~Has(s, "write") /\ ~Has(s, "point")
  BY AuditingFits
<1>5. /\ Fits(t)
      /\ Has(t, "reload") /\ Has(t, "write") /\ Has(t, "insert") /\ Has(t, "point")
  BY ApprovingFits
<1> HIDE DEF s, t
<1>6. k \in Callish /\ k.todo = list
  BY <1>1, <1>2, IdleCall DEF Callish, AdminIdle
<1> HIDE DEF k
<1>7. Fits(k.todo)
  BY <1>4, <1>5, <1>6
<1>8. Releases(k) /\ Shows(app, versions, release) => Publishing(k, app, versions, release)
  BY <1>4, <1>5, <1>6, ReleasesHas DEF Publishing
<1> QED
  BY <1>3, <1>6, <1>7, <1>8, BeginKeeps

-----------------------------------------------------------------------------
\* The active app.

LEMMA InitReleased == PublishInit => ReleaseInv
<1> SUFFICES ASSUME PublishInit PROVE ReleaseInv
  OBVIOUS
<1>1. \A c \in AdminCalls : adminCall[c] = AdminIdle
  BY DEF PublishInit
<1>2. Fits(AdminIdle.todo) /\ ~Releases(AdminIdle)
  BY IdleCall, ReleasesHas DEF Fits
<1>3. app.status # "active"
  BY DEF PublishInit, NoRow
<1>4. release \in [Channels -> Int]
  BY DEF PublishInit, NoRelease, Channels
<1>5. Fitting
  BY <1>1, <1>2 DEF Fitting
<1>6. OneReleases /\ Released
  BY <1>1, <1>2, <1>3 DEF OneReleases, Released, Shows
<1> QED
  BY <1>4, <1>5, <1>6 DEF ReleaseInv

LEMMA NextReleased == IInv /\ ReleaseInv /\ [PublishNext]_publishVars => ReleaseInv'
<1> SUFFICES ASSUME IInv, ReleaseInv, [PublishNext]_publishVars PROVE ReleaseInv'
  OBVIOUS
<1>1. Basis /\ VersionsNumbered
  BY DEF IInv
<1>2. CASE UNCHANGED publishVars
  BY <1>2 DEF publishVars, ReleaseInv, Fitting, OneReleases, Released
<1>3. CASE PublishNext
  <2> PICK c \in AdminCalls : \/ PublishStart(c)
                              \/ PublishStep(c)
                              \/ AdminAborts(c) \/ FetchFails(c) \/ AppendFails(c)
    BY <1>3 DEF PublishNext
  <2>1. CASE PublishStart(c)
    BY <1>1, <2>1, SavesKeep, AskKeeps, RollbackKeeps, RemindKeeps, ReviewKeeps DEF PublishStart
  <2>2. CASE PublishStep(c)
    BY <1>1, <2>2, WriteKeeps, CreateKeeps, NumberKeeps, InsertKeeps, PointKeeps, ReloadKeeps,
       OtherAccessesKeep DEF PublishStep
  <2>3. CASE AdminAborts(c)
    BY <1>1, <2>3, QuitKeeps DEF AdminAborts, Rows
  <2>4. CASE FetchFails(c) \/ AppendFails(c)
    BY <1>1, <2>4, OtherAccessesKeep
  <2> QED
    BY <2>1, <2>2, <2>3, <2>4
<1> QED
  BY <1>2, <1>3

\* Where no calls that change an active app have overlapped or failed half way, the app
\* is what its published version says, however it has been saved, published by request,
\* set active or rolled back.
THEOREM ActiveAppIsReleased == PublishSpec => []ActiveIsReleased
<1>1. IInv /\ ReleaseInv => ActiveIsReleased
  <2> SUFFICES ASSUME IInv, ReleaseInv, Quiet, app.status = "active", ~past.mixed
               PROVE  \E i \in DOMAIN versions :
                        versions[i].no = release.published /\ versions[i].row = app
    BY DEF ActiveIsReleased
  <2>1. \A c \in AdminCalls : ~Releases(adminCall[c])
    BY ReleasesHas DEF Quiet, Has
  <2> QED
    BY <2>1 DEF ReleaseInv, Released, Shows
<1> QED
  BY <1>1, Invariant, InitReleased, NextReleased, PTL DEF PublishSpec

-----------------------------------------------------------------------------
(* The types: an insert is counted, and no call points a release that is not there. *)
\* A row that is there.
Rowed == [content : Contents, status : AppStatuses]
\* An insert takes a call of its own, so that its number is in VersionNo.
Inserting == {c \in AdminCalls : Has(adminCall[c].todo, "insert")}
Recorded == IsFiniteSet(Inserting) /\ Len(versions) + Cardinality(Inserting) <= begun + 1

\* What a call has in hand when there are m versions.
InHand(k, m, rel) ==
  /\ k.row \in AppRow
  /\ Has(k.todo, "reload") => k.decision # "none"
  /\ (Has(k.todo, "write") \/ Has(k.todo, "insert")) /\ ~Has(k.todo, "reload") => k.row \in Rowed
  /\ k.no \in VersionNo \cup {0} /\ k.req \in 0..MaxAdminCalls
  /\ Has(k.todo, "point") \/ Has(k.todo, "request") \/ Has(k.todo, "apply") =>
       Has(k.todo, "insert") \/ k.no \in 1..m
  /\ Has(k.todo, "point") \/ Has(k.todo, "request") =>
       Has(k.todo, "number") \/ rel # NoRelease

\* No app is requested to be published that has no row.
RowsThere ==
  /\ app \in AppRow
  /\ app = NoRow => release = NoRelease /\ requests = <<>>
  /\ \A i \in DOMAIN versions : versions[i].row \in Rowed
  /\ release \in ReleaseRow
  /\ requests \in Seq(Request)
  /\ past.contested \cup past.forked \cup past.abandoned \subseteq RequestId
  /\ adminFaults \in 0..MaxAdminFaults

PublishTypeInv ==
  /\ RowsThere /\ Recorded
  /\ \A c \in AdminCalls : InHand(adminCall[c], Len(versions), release)

LEMMA HandGrows ==
  ASSUME NEW k, NEW m \in Nat, NEW rel, NEW m2 \in Nat, NEW rel2, InHand(k, m, rel), m <= m2,
         rel # NoRelease => rel2 # NoRelease
  PROVE  InHand(k, m2, rel2)
<1>1. 1..m \subseteq 1..m2
  OBVIOUS
<1> QED
  BY <1>1 DEF InHand

LEMMA IdleHand ==
  ASSUME NEW m, NEW rel
  PROVE  InHand(AdminIdle, m, rel)
<1>1. /\ AdminIdle.row = NoRow /\ AdminIdle.no = 0 /\ AdminIdle.req = 0
      /\ 0 \in 0..MaxAdminCalls
  BY Constants DEF AdminIdle
<1>2. NoRow \in AppRow
  BY DEF AppRow
<1> QED
  BY <1>1, <1>2, IdleCall DEF InHand

\* An access leaves a call with what it has in hand.
LEMMA HandGoesOn ==
  ASSUME NEW k \in Callish, k.todo # <<>>, Fits(k.todo), Ordered(k.todo), NEW m, NEW rel,
         InHand(k, m, rel), Faces(k, "reload") => k.row \in Rowed,
         Faces(k, "insert") => k.no \in 1..m,
         Faces(k, "number") => rel # NoRelease \/ Has(Advanced(k).todo, "number")
  PROVE  InHand(Advanced(k), m, rel)
<1> DEFINE j == Advanced(k)
<1>1. CASE j.todo = <<>>
  <2>1. j = AdminIdle
    <3>1. k.todo \in Seq(Accesses)
      BY DEF Callish
    <3>2. Len(k.todo) # 1 => Tail(k.todo) # <<>>
      BY <3>1, FitsRest
    <3>3. Len(k.todo) # 1 => j.todo = Tail(k.todo)
      BY DEF Advanced, Callish
    <3> QED
      BY <1>1, <3>2, <3>3 DEF Advanced
  <2> QED
    BY <2>1, IdleHand
<1>2. CASE j.todo # <<>>
  <2>1. /\ j.row = k.row /\ j.no = k.no /\ j.req = k.req
    BY <1>2, Rest, Advances
  <2>2. j.decision = k.decision
    BY <1>2, Advances DEF Becomes
  <2>3. \A access : Has(k.todo, access) <=> Faces(k, access) \/ Has(j.todo, access)
    BY Rest
  <2>4. Faces(k, "number") => rel # NoRelease \/ Has(j.todo, "number")
    OBVIOUS
  <2> HIDE DEF j
  <2>5. InHand(j, m, rel)
    BY <2>1, <2>2, <2>3, <2>4 DEF InHand
  <2> QED
    BY <2>5 DEF j
<1> QED
  BY <1>1, <1>2

LEMMA TypesGoOn ==
  ASSUME Basis, PublishTypeInv, NEW c \in AdminCalls, NEW k \in Callish, k.todo # <<>>, Fits(k.todo),
         Ordered(k.todo), Proceed(c, k), Has(k.todo, "insert") <=> Has(adminCall[c].todo, "insert"),
         InHand(k, Len(versions'), release'), Faces(k, "reload") => k.row \in Rowed,
         Faces(k, "insert") => k.no \in 1..Len(versions'),
         Faces(k, "number") => release' # NoRelease \/ Has(Advanced(k).todo, "number"),
         Len(versions') = Len(versions) + IF Faces(k, "insert") THEN 1 ELSE 0,
         release # NoRelease => release' # NoRelease, RowsThere'
  PROVE  PublishTypeInv'
<1> DEFINE j == Advanced(k)
           m == Len(versions)
           n == Len(versions')
           rel == release'
<1>1. adminCall \in [AdminCalls -> Callish] /\ m \in Nat /\ begun \in Nat
  BY Lengths DEF Basis, CallsTyped
<1>2. adminCall' = [adminCall EXCEPT ![c] = j] /\ begun' = begun
  BY DEF Proceed, Advanced
<1>3. InHand(j, n, rel)
  BY HandGoesOn
<1>4. Has(j.todo, "insert") <=> Has(k.todo, "insert") /\ ~Faces(k, "insert")
  <2>1. Has(k.todo, "insert") <=> Faces(k, "insert") \/ StillAfter(k.todo, 1, "insert")
    BY Rest
  <2>2. Has(j.todo, "insert") <=> StillAfter(k.todo, 1, "insert")
    BY Rest
  <2>3. Faces(k, "insert") => ~StillAfter(k.todo, 1, "insert")
    BY Rest DEF FitsAt, Faces
  <2> QED
    BY <2>1, <2>2, <2>3
<1>5. Faces(k, "insert") => Has(k.todo, "insert")
  BY Rest
<1>6. n \in Nat /\ m <= n
  BY <1>1
<1>7. \A d \in AdminCalls : InHand(adminCall[d], m, release)
  BY DEF PublishTypeInv
<1> HIDE DEF j
<1>8. adminCall'[c] = j /\ \A d \in AdminCalls \ {c} : adminCall'[d] = adminCall[d]
  BY <1>1, <1>2
<1>9. \A d \in AdminCalls : InHand(adminCall'[d], n, rel)
  <2> SUFFICES ASSUME NEW d \in AdminCalls PROVE InHand(adminCall'[d], n, rel)
    OBVIOUS
  <2>1. CASE d = c
    BY <1>3, <1>8, <2>1
  <2>2. CASE d # c
    <3>1. InHand(adminCall[d], n, rel)
      <4> HIDE DEF m, n, rel
      <4>1. release # NoRelease => rel # NoRelease
        BY DEF rel
      <4> QED
        BY <1>1, <1>6, <1>7, <4>1, HandGrows
    <3> QED
      BY <1>8, <2>2, <3>1
  <2> QED
    BY <2>1, <2>2
<1>10. Recorded'
  <2>1. IsFiniteSet(Inserting) /\ m + Cardinality(Inserting) <= begun + 1
    BY DEF PublishTypeInv, Recorded
  <2>2. Cardinality(Inserting) \in Nat
    BY <2>1, FS_CardinalityType
  <2>3. CASE Faces(k, "insert")
    <3>1. c \in Inserting /\ Inserting' = Inserting \ {c}
      BY <1>4, <1>5, <1>8, <2>3 DEF Inserting
    <3>2. IsFiniteSet(Inserting') /\ Cardinality(Inserting') = Cardinality(Inserting) - 1
      BY <2>1, <3>1, FS_RemoveElement
    <3> QED
      BY <1>1, <1>2, <2>1, <2>2, <2>3, <3>2 DEF Recorded
  <2>4. CASE ~Faces(k, "insert")
    <3>1. Inserting' = Inserting
      BY <1>4, <1>8, <2>4 DEF Inserting
    <3> QED
      BY <1>1, <1>2, <2>1, <2>4, <3>1 DEF Recorded
  <2> QED
    BY <2>3, <2>4
<1> QED
  BY <1>9, <1>10 DEF PublishTypeInv

\* A call that is being made away with, or that begins, leaves the others as they are.
LEMMA TypesQuit ==
  ASSUME Basis, PublishTypeInv, NEW c \in AdminCalls, Quit(c), UNCHANGED Rows,
         adminFaults' \in 0..MaxAdminFaults
  PROVE  PublishTypeInv'
<1>1. /\ adminCall \in [AdminCalls -> Callish] /\ past \in Pastish /\ begun \in Nat
      /\ Len(versions) \in Nat
  BY Lengths DEF Basis, CallsTyped
<1>2. adminCall' = [adminCall EXCEPT ![c] = AdminIdle] /\ begun' = begun
  BY DEF Quit
<1>3. adminCall'[c] = AdminIdle /\ \A d \in AdminCalls \ {c} : adminCall'[d] = adminCall[d]
  BY <1>1, <1>2
<1>4. /\ app' = app /\ versions' = versions /\ release' = release /\ requests' = requests
  BY DEF Rows
<1>5. Reviewing(adminCall[c]) \subseteq RequestId
  BY Here, ReqId DEF Reviewing, Shape
<1>6. /\ past'.contested = past.contested /\ past'.forked = past.forked
      /\ past'.abandoned = past.abandoned \cup Reviewing(adminCall[c])
  BY <1>1 DEF Quit, Pastish
<1>7. RowsThere'
  BY <1>4, <1>5, <1>6 DEF PublishTypeInv, RowsThere
<1>8. Recorded'
  <2>1. IsFiniteSet(Inserting) /\ Len(versions) + Cardinality(Inserting) <= begun + 1
    BY DEF PublishTypeInv, Recorded
  <2>2. Inserting' \subseteq Inserting
    BY <1>3, IdleCall DEF Inserting
  <2>3. /\ IsFiniteSet(Inserting') /\ Cardinality(Inserting') <= Cardinality(Inserting)
        /\ Cardinality(Inserting') \in Nat /\ Cardinality(Inserting) \in Nat
    BY <2>1, <2>2, FS_Subset, FS_CardinalityType
  <2> QED
    BY <1>1, <1>2, <1>4, <2>1, <2>3 DEF Recorded
<1>9. \A d \in AdminCalls : InHand(adminCall'[d], Len(versions'), release')
  BY <1>3, <1>4, IdleHand DEF PublishTypeInv
<1> QED
  BY <1>7, <1>8, <1>9 DEF PublishTypeInv

LEMMA TypesBegin ==
  ASSUME Basis, PublishTypeInv, NEW c \in AdminCalls, NEW k \in Callish, Begin(c, k),
         InHand(k, Len(versions), release), k.decision # "none" => k.req \in 1..Len(requests)
  PROVE  PublishTypeInv'
<1>1. /\ adminCall \in [AdminCalls -> Callish] /\ past \in Pastish /\ begun \in Nat
      /\ Len(versions) \in Nat
  BY Lengths DEF Basis, CallsTyped
<1>2. /\ adminCall' = [adminCall EXCEPT ![c] = k] /\ begun' = begun + 1
      /\ app' = app /\ versions' = versions /\ release' = release /\ requests' = requests
      /\ adminFaults' = adminFaults
  BY DEF Begin
<1>3. adminCall'[c] = k /\ \A d \in AdminCalls \ {c} : adminCall'[d] = adminCall[d]
  BY <1>1, <1>2
<1>4. Reviewing(k) \subseteq RequestId
  BY ReqId DEF Reviewing
<1>5. /\ past'.contested \subseteq past.contested \cup Reviewing(k)
      /\ past'.forked = past.forked /\ past'.abandoned = past.abandoned
  BY <1>1 DEF Begin, Pastish
<1>6. RowsThere'
  BY <1>2, <1>4, <1>5 DEF PublishTypeInv, RowsThere
<1>7. Recorded'
  <2>1. IsFiniteSet(Inserting) /\ Len(versions) + Cardinality(Inserting) <= begun + 1
    BY DEF PublishTypeInv, Recorded
  <2>2. Inserting' \subseteq Inserting \cup {c}
    BY <1>3 DEF Inserting
  <2>3. /\ IsFiniteSet(Inserting \cup {c}) /\ Cardinality(Inserting) \in Nat
        /\ Cardinality(Inserting \cup {c}) <= Cardinality(Inserting) + 1
        /\ Cardinality(Inserting \cup {c}) \in Nat
    <3>1. IsFiniteSet(Inserting \cup {c}) /\ Cardinality(Inserting) \in Nat
      BY <2>1, FS_AddElement, FS_CardinalityType
    <3>2. Cardinality(Inserting \cup {c}) \in {Cardinality(Inserting), Cardinality(Inserting) + 1}
      BY <2>1, FS_AddElement
    <3> QED
      BY <3>1, <3>2
  <2>4. /\ IsFiniteSet(Inserting') /\ Cardinality(Inserting') <= Cardinality(Inserting \cup {c})
        /\ Cardinality(Inserting') \in Nat
    BY <2>2, <2>3, FS_Subset, FS_CardinalityType
  <2> QED
    BY <1>1, <1>2, <2>1, <2>3, <2>4 DEF Recorded
<1>8. \A d \in AdminCalls : InHand(adminCall'[d], Len(versions'), release')
  BY <1>2, <1>3 DEF PublishTypeInv
<1> QED
  BY <1>6, <1>7, <1>8 DEF PublishTypeInv

-----------------------------------------------------------------------------
\* The accesses, again.

LEMMA Typing ==
  ASSUME Basis, ReleaseInv, PublishTypeInv, NEW c \in AdminCalls
  PROVE  /\ adminCall[c] \in Callish /\ Ordered(adminCall[c].todo) /\ Fits(adminCall[c].todo)
         /\ InHand(adminCall[c], Len(versions), release) /\ Len(versions) \in Nat /\ RowsThere
         /\ past \in Pastish /\ requests \in Seq(Request)
BY Going, Lengths DEF PublishTypeInv, RowsThere

LEMMA WriteTypes ==
  ASSUME Basis, ReleaseInv, PublishTypeInv, NEW c \in AdminCalls, WriteApp(c)
  PROVE  PublishTypeInv'
<1> DEFINE k == adminCall[c]
<1>1. /\ k \in Callish /\ Ordered(k.todo) /\ Fits(k.todo) /\ Faces(k, "write") /\ k.todo # <<>>
      /\ InHand(k, Len(versions), release) /\ Len(versions) \in Nat /\ RowsThere
  BY Typing, AtNext DEF WriteApp, Faces
<1>2. /\ app' = k.row /\ versions' = versions /\ release' = release /\ requests' = requests
      /\ past' = past /\ adminFaults' = adminFaults /\ Proceed(c, k)
  BY DEF WriteApp, Pass
<1>3. k.row \in Rowed
  <2>1. Has(k.todo, "write") /\ ~Has(k.todo, "reload")
    BY <1>1, Rest DEF FitsAt, Faces
  <2> QED
    BY <1>1, <2>1 DEF InHand
<1>4. k.row \in AppRow /\ k.row # NoRow
  BY <1>3 DEF Rowed, AppRow, NoRow, AppStatuses
<1>5. RowsThere'
  BY <1>1, <1>2, <1>4 DEF RowsThere
<1>6. ~Faces(k, "insert") /\ ~Faces(k, "number") /\ ~Faces(k, "reload")
  BY <1>1 DEF Faces
<1> QED
  BY <1>1, <1>2, <1>5, <1>6, TypesGoOn

LEMMA CreateTypes ==
  ASSUME Basis, ReleaseInv, PublishTypeInv, NEW c \in AdminCalls, CreateRelease(c)
  PROVE  PublishTypeInv'
<1> DEFINE k == adminCall[c]
<1>1. /\ k \in Callish /\ Ordered(k.todo) /\ Fits(k.todo) /\ Faces(k, "create") /\ k.todo # <<>>
      /\ InHand(k, Len(versions), release) /\ Len(versions) \in Nat /\ RowsThere
  BY Typing, AtNext DEF CreateRelease, Faces
<1>2. CASE app = NoRow \/ release # NoRelease
  <2>1. Quit(c) /\ UNCHANGED Rows /\ adminFaults' = adminFaults
    BY <1>2 DEF CreateRelease, Rows
  <2> QED
    BY <1>1, <2>1, TypesQuit DEF RowsThere
<1>3. CASE ~(app = NoRow \/ release # NoRelease)
  <2>1. /\ app' = app /\ versions' = versions /\ requests' = requests
        /\ past' = past /\ adminFaults' = adminFaults /\ Proceed(c, k)
        /\ release' = [draft |-> 0, published |-> 0]
    BY <1>3 DEF CreateRelease, Pass
  <2>2. release' \in ReleaseRow /\ release' # NoRelease
    BY <2>1 DEF ReleaseRow, Channels, NoRelease
  <2>3. RowsThere'
    BY <1>1, <1>3, <2>1, <2>2 DEF RowsThere
  <2>4. InHand(k, Len(versions'), release')
    BY <1>1, <2>1, <2>2, HandGrows
  <2>5. ~Faces(k, "insert") /\ ~Faces(k, "number") /\ ~Faces(k, "reload")
    BY <1>1 DEF Faces
  <2> QED
    BY <1>1, <2>1, <2>2, <2>3, <2>4, <2>5, TypesGoOn
<1> QED
  BY <1>2, <1>3

\* The next number is a version's: the call that has it to insert is counted.
LEMMA NextNumber ==
  ASSUME Basis, VersionsNumbered, PublishTypeInv, NEW c \in AdminCalls, Has(adminCall[c].todo, "insert")
  PROVE  Max(Numbers \cup {0}) + 1 \in VersionNo /\ Max(Numbers \cup {0}) + 1 \in Nat
<1>1. /\ IsFiniteSet(Inserting) /\ Len(versions) + Cardinality(Inserting) <= begun + 1
      /\ c \in Inserting
  BY DEF PublishTypeInv, Recorded, Inserting
<1>2. Cardinality(Inserting) \in Nat /\ Cardinality(Inserting) # 0
  BY <1>1, FS_CardinalityType, FS_EmptySet
<1>3. Len(versions) \in Nat /\ begun \in Nat /\ begun <= MaxAdminCalls /\ MaxAdminCalls \in Nat
  BY Lengths, Constants
<1>4. Max(Numbers \cup {0}) = Len(versions)
  BY Here, MaxNumber
<1> QED
  BY <1>1, <1>2, <1>3, <1>4 DEF VersionNo

LEMMA NumberTypes ==
  ASSUME Basis, VersionsNumbered, ReleaseInv, PublishTypeInv, NEW c \in AdminCalls, NextVersionNo(c)
  PROVE  PublishTypeInv'
<1> DEFINE old == adminCall[c]
<1>1. /\ old \in Callish /\ Ordered(old.todo) /\ Fits(old.todo) /\ Faces(old, "number")
      /\ old.todo # <<>> /\ old.todo \in Seq(Accesses)
      /\ InHand(old, Len(versions), release) /\ Len(versions) \in Nat /\ RowsThere
  BY Typing, AtNext DEF NextVersionNo, Faces, Callish
<1>2. /\ app' = app /\ versions' = versions /\ release' = release /\ requests' = requests
      /\ past' = past /\ adminFaults' = adminFaults
  BY DEF NextVersionNo, Rows
<1>3. RowsThere'
  BY <1>1, <1>2 DEF RowsThere
<1>4. Has(old.todo, "insert") /\ Has(old.todo, "number")
  BY <1>1, YetToRecord, Rest
<1>5. CASE release = NoRelease
  <2> DEFINE t == <<"number", "create">> \o old.todo
             k == [old EXCEPT !.todo = t]
  <2>1. old.todo[1] = "number"
    BY <1>1 DEF Faces
  <2>2. /\ t \in Seq(Accesses) /\ t # <<>> /\ Ordered(t) /\ t[1] = "number" /\ t[2] = "create"
        /\ \A access \in {"request", "decide", "apply"} : Has(t, access) <=> Has(old.todo, access)
    BY <1>1, <2>1, CreatingList
  <2>3. /\ Fits(t)
        /\ \A access \in {"write", "insert", "point", "reload"} :
             Has(t, access) <=> Has(old.todo, access)
    BY <1>1, <2>1, FitsCreating
  <2> HIDE DEF t
  <2>4. /\ k \in Callish /\ k.todo = t /\ k.row = old.row /\ k.decision = old.decision
        /\ k.no = old.no /\ k.req = old.req
    BY <1>1, <2>2 DEF Callish
  <2>5. Proceed(c, k)
    BY <1>5 DEF NextVersionNo, t
  <2> HIDE DEF k
  <2>6. /\ Faces(k, "number") /\ ~Faces(k, "insert") /\ ~Faces(k, "reload")
    BY <2>2, <2>4 DEF Faces
  <2>7. Has(k.todo, "number")
    BY <2>2, <2>3, <2>4, <2>6, Rest
  <2>8. InHand(k, Len(versions'), release')
    BY <1>1, <1>2, <2>2, <2>3, <2>4, <2>7 DEF InHand
  <2>9. Has(Advanced(k).todo, "number")
    <3> DEFINE j == Advanced(k)
    <3>1. j \in Callish /\ Fits(j.todo) /\ Has(j.todo, "insert")
      BY <1>4, <2>2, <2>3, <2>4, <2>6, Leaves, Rest
    <3>2. j.todo # <<>>
      BY <3>1 DEF Has
    <3>3. j.todo[1] = "create" /\ Ordered(j.todo)
      BY <2>2, <2>4, <3>2, Advances DEF Becomes
    <3> HIDE DEF j
    <3>4. FitsAt(j.todo, 1) /\ (StillAfter(j.todo, 1, "number") => Has(j.todo, "number"))
      BY <3>1, <3>2, <3>3, Rest
    <3> QED
      BY <3>3, <3>4 DEF FitsAt, j
  <2> QED
    BY <1>1, <1>2, <1>3, <2>2, <2>3, <2>4, <2>5, <2>6, <2>8, <2>9, TypesGoOn
<1>6. CASE release # NoRelease
  <2> DEFINE n == Max(Numbers \cup {0}) + 1
             k == [old EXCEPT !.no = n]
  <2>1. n \in VersionNo /\ n \in Nat
    <3>1. Has(adminCall[c].todo, "insert")
      BY <1>4
    <3> QED
      BY <3>1, NextNumber
  <2>2. Proceed(c, k)
    BY <1>6 DEF NextVersionNo
  <2> HIDE DEF n
  <2>3. /\ k \in Callish /\ k.todo = old.todo /\ k.row = old.row /\ k.decision = old.decision
        /\ k.no = n /\ k.req = old.req
    BY <1>1, <2>1 DEF Callish
  <2> HIDE DEF k
  <2>4. /\ Faces(k, "number") /\ ~Faces(k, "insert") /\ ~Faces(k, "reload")
    BY <1>1, <2>3 DEF Faces
  <2>5. InHand(k, Len(versions'), release')
    BY <1>1, <1>2, <1>4, <1>6, <2>1, <2>3 DEF InHand
  <2> QED
    BY <1>1, <1>2, <1>3, <1>6, <2>2, <2>3, <2>4, <2>5, TypesGoOn
<1> QED
  BY <1>5, <1>6

LEMMA InsertTypes ==
  ASSUME Basis, ReleaseInv, PublishTypeInv, NEW c \in AdminCalls, InsertVersion(c)
  PROVE  PublishTypeInv'
<1> DEFINE k == adminCall[c]
           v == [no |-> k.no, row |-> k.row, channel |-> k.channel]
<1>1. /\ k \in Callish /\ Ordered(k.todo) /\ Fits(k.todo) /\ Faces(k, "insert") /\ k.todo # <<>>
      /\ InHand(k, Len(versions), release) /\ Len(versions) \in Nat /\ RowsThere
  BY Typing, AtNext DEF InsertVersion, Faces
<1>2. CASE Taken(k.no)
  <2>1. Quit(c) /\ UNCHANGED Rows /\ adminFaults' = adminFaults
    BY <1>2 DEF InsertVersion, Rows
  <2> QED
    BY <1>1, <2>1, TypesQuit DEF RowsThere
<1>3. CASE ~Taken(k.no)
  <2>1. /\ app' = app /\ release' = release /\ requests' = requests /\ past' = past
        /\ adminFaults' = adminFaults /\ Proceed(c, k) /\ versions' = Append(versions, v)
    BY <1>3 DEF InsertVersion, Pass
  <2>2. v \in Versionish /\ v.row = k.row
    BY <1>1 DEF Versionish, Callish
  <2> HIDE DEF v
  <2>3. versions \in Seq(Versionish) /\ DOMAIN versions = 1..Len(versions)
    BY Here, Lengths
  <2>4. /\ versions' \in Seq(Versionish) /\ Len(versions') = Len(versions) + 1
        /\ \A i \in 1..Len(versions) : versions'[i] = versions[i]
        /\ versions'[Len(versions) + 1] = v
    BY <2>1, <2>2, <2>3, Appended
  <2>5. DOMAIN versions' = 1..Len(versions) + 1
    BY <2>4, LenProperties
  <2>6. v.row \in Rowed
    <3>1. Has(k.todo, "insert") /\ ~Has(k.todo, "reload")
      BY <1>1, Rest DEF FitsAt, Faces
    <3> QED
      BY <1>1, <2>2, <3>1 DEF InHand
  <2>7. \A i \in DOMAIN versions' : versions'[i].row \in Rowed
    BY <1>1, <2>3, <2>4, <2>5, <2>6 DEF RowsThere
  <2>8. RowsThere'
    BY <1>1, <2>1, <2>7 DEF RowsThere
  <2>9. k.no \in 1..Len(versions')
    BY <1>1, <2>4, Here DEF Shape
  <2>10. InHand(k, Len(versions'), release')
    BY <1>1, <2>1, <2>4, HandGrows
  <2>11. ~Faces(k, "number") /\ ~Faces(k, "reload")
    BY <1>1 DEF Faces
  <2> QED
    BY <1>1, <2>1, <2>4, <2>8, <2>9, <2>10, <2>11, TypesGoOn
<1> QED
  BY <1>2, <1>3

\* Only a release row that is there is pointed to a version, and to one that is there.
LEMMA PointTypes ==
  ASSUME Basis, ReleaseInv, PublishTypeInv, NEW c \in AdminCalls, PointRelease(c)
  PROVE  PublishTypeInv'
<1> DEFINE k == adminCall[c]
<1>1. /\ k \in Callish /\ Ordered(k.todo) /\ Fits(k.todo) /\ Faces(k, "point") /\ k.todo # <<>>
      /\ InHand(k, Len(versions), release) /\ Len(versions) \in Nat /\ RowsThere
  BY Typing, AtNext DEF PointRelease, Faces
<1>2. /\ app' = app /\ versions' = versions /\ requests' = requests /\ past' = past
      /\ adminFaults' = adminFaults /\ Proceed(c, k)
  BY DEF PointRelease, Pass
<1>3. Has(k.todo, "point") /\ ~Has(k.todo, "insert") /\ ~Has(k.todo, "number")
  BY <1>1, Rest DEF FitsAt, Faces
<1>4. k.no \in VersionNo \cup {0} /\ release # NoRelease /\ k.channel \in Channels
  BY <1>1, <1>3 DEF InHand, Callish
<1>5. release' \in [Channels -> VersionNo \cup {0}]
  <2>1. release' = [release EXCEPT ![k.channel] = k.no]
    BY DEF PointRelease
  <2> QED
    BY <1>1, <1>4, <2>1 DEF RowsThere, ReleaseRow
<1>6. release' \in ReleaseRow /\ release' # NoRelease
  BY <1>5 DEF ReleaseRow, NoRelease, VersionNo, Channels
<1>7. RowsThere'
  BY <1>1, <1>2, <1>4, <1>6 DEF RowsThere
<1>8. InHand(k, Len(versions'), release')
  BY <1>1, <1>2, <1>6, HandGrows
<1>9. ~Faces(k, "insert") /\ ~Faces(k, "number") /\ ~Faces(k, "reload")
  BY <1>1 DEF Faces
<1> QED
  BY <1>1, <1>2, <1>4, <1>6, <1>7, <1>8, <1>9, TypesGoOn

\* A request has been made of an app that has a row, so that there is content to publish.
LEMMA ReloadTypes ==
  ASSUME Basis, ReleaseInv, PublishTypeInv, NEW c \in AdminCalls, ReloadApp(c)
  PROVE  PublishTypeInv'
<1> DEFINE old == adminCall[c]
           row == [content |-> app.content, status |-> "active"]
           k == [old EXCEPT !.row = row, !.channel = "published"]
<1>1. /\ old \in Callish /\ Ordered(old.todo) /\ Fits(old.todo) /\ Faces(old, "reload")
      /\ old.todo # <<>>
      /\ InHand(old, Len(versions), release) /\ Len(versions) \in Nat /\ RowsThere
  BY Typing, AtNext DEF ReloadApp, Faces
<1>2. /\ app' = app /\ versions' = versions /\ release' = release /\ requests' = requests
      /\ past' = past /\ adminFaults' = adminFaults /\ Proceed(c, k)
  BY DEF ReloadApp, Rows
<1>3. row \in Rowed /\ row \in Rowish /\ row \in AppRow
  <2>1. old.decision # "none"
    BY <1>1, Rest DEF InHand
  <2>2. requests # <<>>
    BY <1>1, <2>1, Here, EmptySeq DEF Shape
  <2>3. app \in Rowed
    BY <1>1, <2>2 DEF RowsThere, AppRow, Rowed
  <2> QED
    BY <2>3 DEF Rowed, Rowish, AppRow, AppStatuses
<1> HIDE DEF row
<1>4. /\ k \in Callish /\ k.todo = old.todo /\ k.row = row /\ k.decision = old.decision
      /\ k.no = old.no /\ k.req = old.req
  BY <1>1, <1>3 DEF Callish, Channels
<1> HIDE DEF k
<1>5. InHand(k, Len(versions'), release')
  BY <1>1, <1>2, <1>3, <1>4 DEF InHand
<1>6. RowsThere'
  BY <1>1, <1>2 DEF RowsThere
<1>7. ~Faces(k, "insert") /\ ~Faces(k, "number")
  BY <1>1, <1>4 DEF Faces
<1> QED
  BY <1>1, <1>2, <1>3, <1>4, <1>5, <1>6, <1>7, TypesGoOn

\* An access that touches neither the app nor its versions.
LEMMA OtherTypes ==
  ASSUME Basis, ReleaseInv, PublishTypeInv, NEW c \in AdminCalls, NEW access,
         Faces(adminCall[c], access), access \notin {"insert", "number", "reload"},
         NEW k \in Callish, k.todo = adminCall[c].todo, k.row = adminCall[c].row,
         k.decision = adminCall[c].decision, k.no = adminCall[c].no, k.req \in 0..MaxAdminCalls,
         Proceed(c, k), versions' = versions, release' = release, RowsThere'
  PROVE  PublishTypeInv'
<1> DEFINE old == adminCall[c]
<1>1. /\ old \in Callish /\ Ordered(old.todo) /\ Fits(old.todo) /\ old.todo # <<>>
      /\ InHand(old, Len(versions), release) /\ Len(versions) \in Nat
  BY Typing DEF Faces
<1>2. InHand(k, Len(versions'), release')
  BY <1>1 DEF InHand
<1>3. ~Faces(k, "insert") /\ ~Faces(k, "number") /\ ~Faces(k, "reload")
  BY DEF Faces
<1> QED
  BY <1>1, <1>2, <1>3, TypesGoOn

LEMMA RequestTypes ==
  ASSUME Basis, Basis', ReleaseInv, PublishTypeInv, NEW c \in AdminCalls, CreateRequest(c)
  PROVE  PublishTypeInv'
<1> DEFINE old == adminCall[c]
           n == Len(requests) + 1
           q == [status |-> "pending", by |-> old.actor, version |-> old.no, applied |-> 0]
           k == [old EXCEPT !.req = n]
<1>1. /\ old \in Callish /\ Ordered(old.todo) /\ Fits(old.todo) /\ Faces(old, "request")
      /\ old.todo # <<>> /\ requests \in Seq(Request)
      /\ InHand(old, Len(versions), release) /\ Len(versions) \in Nat /\ RowsThere
  BY Typing, AtNext DEF CreateRequest, Faces
<1>2. CASE ~NonePending
  <2>1. Quit(c) /\ UNCHANGED Rows /\ adminFaults' = adminFaults
    BY <1>2 DEF CreateRequest, Rows
  <2> QED
    BY <1>1, <2>1, TypesQuit DEF RowsThere
<1>3. CASE NonePending
  <2>1. /\ app' = app /\ versions' = versions /\ release' = release /\ past' = past
        /\ adminFaults' = adminFaults /\ Proceed(c, k) /\ requests' = Append(requests, q)
    BY <1>3 DEF CreateRequest
  <2>2. /\ Has(old.todo, "request") /\ ~Has(old.todo, "insert") /\ ~Has(old.todo, "number")
    BY <1>1, Rest DEF FitsAt, Faces
  <2>3. q \in Request
    <3>1. old.no \in 1..Len(versions) /\ old.no \in VersionNo \cup {0}
      BY <1>1, <2>2 DEF InHand
    <3>2. old.no \in VersionNo
      BY <3>1
    <3> QED
      BY <1>1, <3>2 DEF Request, RequestStatuses, Callish
  <2> HIDE DEF q
  <2>4. requests' \in Seq(Request) /\ Len(requests') = n
    BY <1>1, <2>1, <2>3, Appended
  <2>5. n \in Nat /\ n \in 0..MaxAdminCalls
    <3>1. /\ Len(requests') + Cardinality(Asking') <= begun' /\ Cardinality(Asking') \in Nat
          /\ begun' \in 0..MaxAdminCalls
      BY FS_CardinalityType DEF Basis, AskingCounted, CallsTyped
    <3> QED
      BY <2>4, <3>1, Lengths, Constants
  <2>6. app # NoRow
    BY <1>1, <2>2 DEF InHand, RowsThere
  <2>7. RowsThere'
    BY <1>1, <2>1, <2>4, <2>6 DEF RowsThere
  <2> HIDE DEF n
  <2>8. /\ k \in Callish /\ k.todo = old.todo /\ k.row = old.row /\ k.decision = old.decision
        /\ k.no = old.no /\ k.req = n
    BY <1>1, <2>5 DEF Callish
  <2> HIDE DEF k
  <2> QED
    BY <1>1, <2>1, <2>5, <2>7, <2>8, OtherTypes
<1> QED
  BY <1>2, <1>3

\* A request that is decided or applied stays a request.
LEMMA MarkTypes ==
  ASSUME Basis, ReleaseInv, PublishTypeInv, NEW c \in AdminCalls, NEW q \in Request,
         NEW event \in Events, Faces(adminCall[c], "decide") \/ Faces(adminCall[c], "apply"),
         requests' = [requests EXCEPT ![adminCall[c].req] = q],
         Proceed(c, [adminCall[c] EXCEPT !.event = event]),
         UNCHANGED <<app, versions, release, past, adminFaults>>
  PROVE  PublishTypeInv'
<1> DEFINE old == adminCall[c]
           k == [old EXCEPT !.event = event]
<1>1. old \in Callish /\ requests \in Seq(Request) /\ RowsThere /\ old.req \in 0..MaxAdminCalls
  BY Typing DEF InHand
<1>2. /\ k \in Callish /\ k.todo = old.todo /\ k.row = old.row /\ k.decision = old.decision
      /\ k.no = old.no /\ k.req = old.req
  BY <1>1 DEF Callish
<1>3. Proceed(c, k)
  OBVIOUS
<1> HIDE DEF k
<1>4. old.req \in DOMAIN requests
  BY Marking
<1>5. requests' \in Seq(Request) /\ requests # <<>>
  BY <1>1, <1>4, EmptySeq
<1>6. RowsThere'
  BY <1>1, <1>5 DEF RowsThere
<1> QED
  BY <1>1, <1>2, <1>3, <1>6, OtherTypes

LEMMA DecideTypes ==
  ASSUME Basis, ReleaseInv, PublishTypeInv, NEW c \in AdminCalls, Decide(c)
  PROVE  PublishTypeInv'
<1>1. Faces(adminCall[c], "decide")
  BY AtNext DEF Decide
<1> DEFINE old == requests[adminCall[c].req]
           q == [old EXCEPT !.status = adminCall[c].decision]
<1>2. old \in Request
  BY <1>1, Marking, Typing, ElementOfSeq
<1>3. q \in Request /\ adminCall[c].decision \in Events
  BY <1>1, <1>2, Marking DEF Request, RequestStatuses, Events
<1>4. requests' = [requests EXCEPT ![adminCall[c].req] = q]
  BY <1>1, Marking DEF Decide
<1>5. /\ Proceed(c, [adminCall[c] EXCEPT !.event = adminCall[c].decision])
      /\ UNCHANGED <<app, versions, release, past, adminFaults>>
  BY DEF Decide
<1> HIDE DEF q
<1> QED
  BY <1>1, <1>3, <1>4, <1>5, MarkTypes

LEMMA ApplyTypes ==
  ASSUME Basis, ReleaseInv, PublishTypeInv, NEW c \in AdminCalls, Apply(c)
  PROVE  PublishTypeInv'
<1>1. Faces(adminCall[c], "apply")
  BY AtNext DEF Apply
<1> DEFINE old == requests[adminCall[c].req]
           q == [old EXCEPT !.status = "applied", !.applied = adminCall[c].no]
<1>2. old \in Request
  BY <1>1, Marking, Typing, ElementOfSeq
<1>3. q \in Request /\ "request_applied" \in Events
  <2>1. adminCall[c].no \in VersionNo \cup {0}
    BY Typing DEF InHand
  <2> QED
    BY <1>2, <2>1 DEF Request, RequestStatuses, Events
<1>4. requests' = [requests EXCEPT ![adminCall[c].req] = q]
  BY <1>1, Marking, Here DEF Apply
<1>5. /\ Proceed(c, [adminCall[c] EXCEPT !.event = "request_applied"])
      /\ UNCHANGED <<app, versions, release, past, adminFaults>>
  BY DEF Apply
<1> HIDE DEF q
<1> QED
  BY <1>1, <1>3, <1>4, <1>5, MarkTypes

LEMMA FetchedTypes ==
  ASSUME Basis, ReleaseInv, PublishTypeInv, NEW c \in AdminCalls, Faces(adminCall[c], "fetch"),
         NEW prev \in Nat, NEW forks \in BOOLEAN, Fetched(c, prev, forks),
         adminFaults' \in 0..MaxAdminFaults
  PROVE  PublishTypeInv'
<1> DEFINE old == adminCall[c]
           k == [old EXCEPT !.prev = prev]
<1>1. /\ old \in Callish /\ past \in Pastish /\ RowsThere /\ old.req \in 0..MaxAdminCalls
  BY Typing DEF InHand
<1>2. /\ k \in Callish /\ k.todo = old.todo /\ k.row = old.row /\ k.decision = old.decision
      /\ k.no = old.no /\ k.req = old.req
  BY <1>1 DEF Callish
<1>3. /\ Proceed(c, k) /\ app' = app /\ versions' = versions /\ release' = release
      /\ requests' = requests
  BY DEF Fetched, Rows
<1> HIDE DEF k
<1>4. old.req \in RequestId
  BY Here, ReqId DEF Shape
<1>5. /\ past'.contested = past.contested /\ past'.abandoned = past.abandoned
      /\ past'.forked \subseteq past.forked \cup {old.req}
  BY <1>1 DEF Fetched, Pastish
<1>6. RowsThere'
  BY <1>1, <1>3, <1>4, <1>5 DEF RowsThere
<1> QED
  BY <1>1, <1>2, <1>3, <1>6, OtherTypes

LEMMA AuditTypes ==
  ASSUME Basis, ReleaseInv, PublishTypeInv, NEW c \in AdminCalls,
         FetchLatest(c) \/ FetchFails(c) \/ AppendAudit(c) \/ AppendFails(c)
  PROVE  PublishTypeInv'
<1>1. RowsThere /\ adminFaults \in 0..MaxAdminFaults /\ adminCall[c] \in Callish
      /\ adminCall[c].req \in 0..MaxAdminCalls
  BY Typing DEF RowsThere, InHand
<1>2. adminFaults' \in 0..MaxAdminFaults
  <2>1. FetchLatest(c) \/ AppendAudit(c) => adminFaults' = adminFaults
    BY DEF FetchLatest, AppendAudit, Pass
  <2>2. FetchFails(c) \/ AppendFails(c) => adminFaults < MaxAdminFaults /\ adminFaults' = adminFaults + 1
    BY DEF FetchFails, AppendFails
  <2> QED
    BY <1>1, <2>1, <2>2, Constants
<1>3. CASE FetchLatest(c)
  <2> DEFINE forks == \E d \in AdminCalls : At(d, "chain") /\ adminCall[d].req = adminCall[c].req
  <2>1. Faces(adminCall[c], "fetch") /\ Fetched(c, Latest(c), forks) /\ forks \in BOOLEAN
    BY <1>3, AtNext DEF FetchLatest
  <2>2. adminCall[c].req \in RequestId
    BY <2>1, Here, ReqId DEF Shape
  <2>3. Latest(c) \in Nat
    BY <2>2, Here, LenProperties DEF Latest, Log
  <2> HIDE DEF forks
  <2> QED
    BY <1>2, <2>1, <2>3, FetchedTypes
<1>4. CASE FetchFails(c)
  BY <1>2, <1>4, AtNext, FetchedTypes DEF FetchFails
<1>5. CASE AppendAudit(c) \/ AppendFails(c)
  <2>1. /\ Faces(adminCall[c], "chain") /\ Proceed(c, adminCall[c])
        /\ app' = app /\ versions' = versions /\ release' = release /\ requests' = requests
        /\ past' = past
    BY <1>5, AtNext DEF AppendAudit, AppendFails, Pass, Rows
  <2>2. RowsThere'
    BY <1>1, <1>2, <2>1 DEF RowsThere
  <2> QED
    BY <1>1, <2>1, <2>2, OtherTypes
<1> QED
  BY <1>3, <1>4, <1>5

-----------------------------------------------------------------------------
\* The calls as they begin, again.

\* A call that saves, asks for a row to be published or rolls back has a row.
LEMMA PublisherTypes ==
  ASSUME Basis, PublishTypeInv, NEW c \in AdminCalls, NEW k \in Callish, k.row \in Rowed,
         k.decision = "none", k.no = 0, k.req = 0, ~Has(k.todo, "reload"),
         Has(k.todo, "insert"), Has(k.todo, "number"), Begin(c, k)
  PROVE  PublishTypeInv'
<1>1. k.row \in AppRow /\ 0 \in 0..MaxAdminCalls
  BY Constants DEF Rowed, AppRow
<1>2. InHand(k, Len(versions), release)
  BY <1>1 DEF InHand
<1> QED
  BY <1>2, TypesBegin

LEMMA SavingTypes ==
  ASSUME Basis, PublishTypeInv, NEW c \in AdminCalls, NEW row \in Rowed, NEW channel \in Channels,
         Begin(c, Saving(row, channel))
  PROVE  PublishTypeInv'
<1> DEFINE s == <<"write", "number", "insert", "point">>
           k == [AdminIdle EXCEPT !.todo = s, !.row = row, !.channel = channel]
<1>1. Saving(row, channel) = k
  BY SavingList DEF Saving
<1>2. /\ s \in Seq(Accesses) /\ Has(s, "number") /\ Has(s, "insert") /\ ~Has(s, "reload")
  <2>1. s \in Seq(Accesses) /\ 2 \in DOMAIN s /\ s[2] = "number"
    BY DEF Accesses
  <2>2. Has(s, "number")
    BY <2>1 DEF Has
  <2> QED
    BY <2>1, <2>2, SavingFits
<1>3. Begin(c, k)
  BY <1>1
<1> HIDE DEF s
<1>4. row \in Rowish
  BY DEF Rowed, Rowish
<1>5. /\ k \in Callish /\ k.todo = s /\ k.row = row
      /\ k.decision = "none" /\ k.no = 0 /\ k.req = 0
  BY <1>2, <1>4, IdleCall DEF Callish, AdminIdle
<1> HIDE DEF k
<1> QED
  BY <1>2, <1>3, <1>5, PublisherTypes

LEMMA SavesTypes ==
  ASSUME Basis, PublishTypeInv, NEW c \in AdminCalls,
         \/ \E row \in AppRow \ {NoRow} : Upsert(c, row)
         \/ \E status \in AppStatuses : SetStatus(c, status)
  PROVE  PublishTypeInv'
<1>1. ASSUME NEW row \in AppRow \ {NoRow}, Upsert(c, row) PROVE PublishTypeInv'
  <2>1. row \in Rowed /\ ChannelOf(row.status) \in Channels
    BY DEF AppRow, Rowed, ChannelOf, Channels
  <2> QED
    BY <1>1, <2>1, SavingTypes DEF Upsert
<1>2. ASSUME NEW status \in AppStatuses, SetStatus(c, status) PROVE PublishTypeInv'
  <2> DEFINE row == [content |-> app.content, status |-> status]
  <2>1. row \in Rowed /\ ChannelOf(status) \in Channels
    <3>1. app \in AppRow /\ app # NoRow
      BY <1>2 DEF SetStatus, PublishTypeInv, RowsThere
    <3> QED
      BY <3>1 DEF AppRow, Rowed, ChannelOf, Channels
  <2>2. Begin(c, Saving(row, ChannelOf(status)))
    BY <1>2 DEF SetStatus
  <2> HIDE DEF row
  <2> QED
    BY <2>1, <2>2, SavingTypes
<1> QED
  BY <1>1, <1>2

LEMMA RollbackTypes ==
  ASSUME Basis, PublishTypeInv, NEW c \in AdminCalls, NEW i \in DOMAIN versions,
         NEW channel \in Channels, Rollback(c, i, channel)
  PROVE  PublishTypeInv'
<1> DEFINE s == <<"number", "insert", "point", "write">>
           old == versions[i].row
           row == [old EXCEPT !.status = RollbackStatus(old, channel)]
           k == [AdminIdle EXCEPT !.todo = s, !.channel = channel, !.row = row]
<1>1. row \in Rowed /\ row \in Rowish
  <2>1. old \in Rowed
    BY DEF PublishTypeInv, RowsThere
  <2> QED
    BY <2>1 DEF Rowed, Rowish, RollbackStatus, AppStatuses
<1>2. /\ s \in Seq(Accesses) /\ Has(s, "number") /\ Has(s, "insert") /\ ~Has(s, "reload")
  <2>1. s \in Seq(Accesses) /\ 1 \in DOMAIN s /\ s[1] = "number"
    BY DEF Accesses
  <2>2. Has(s, "number")
    BY <2>1 DEF Has
  <2> QED
    BY <2>1, <2>2, RollbackFits
<1>3. Begin(c, k)
  BY RollbackList DEF Rollback
<1> HIDE DEF s, row
<1>4. /\ k \in Callish /\ k.todo = s /\ k.row = row
      /\ k.decision = "none" /\ k.no = 0 /\ k.req = 0
  BY <1>1, <1>2, IdleCall DEF Callish, AdminIdle
<1> HIDE DEF k
<1> QED
  BY <1>1, <1>2, <1>3, <1>4, PublisherTypes

LEMMA AskTypes ==
  ASSUME Basis, PublishTypeInv, NEW c \in AdminCalls, NEW a \in Admins, NEW content \in Contents,
         AskToPublish(c, a, content)
  PROVE  PublishTypeInv'
<1> DEFINE s == <<"number", "insert", "point", "request", "fetch", "chain">>
           row == [content |-> content, status |-> "pending"]
           k == [AdminIdle EXCEPT !.todo = s, !.actor = a, !.row = row]
<1>1. row \in Rowed /\ row \in Rowish
  BY DEF Rowed, Rowish, AppStatuses
<1>2. /\ s \in Seq(Accesses) /\ Has(s, "number") /\ Has(s, "insert") /\ ~Has(s, "reload")
  <2>1. s \in Seq(Accesses) /\ 1 \in DOMAIN s /\ s[1] = "number"
    BY DEF Accesses
  <2>2. Has(s, "number")
    BY <2>1 DEF Has
  <2> QED
    BY <2>1, <2>2, AskingFits
<1>3. Begin(c, k)
  BY AskingList DEF AskToPublish
<1> HIDE DEF s, row
<1>4. /\ k \in Callish /\ k.todo = s /\ k.row = row
      /\ k.decision = "none" /\ k.no = 0 /\ k.req = 0
  BY <1>1, <1>2, IdleCall DEF Callish, AdminIdle
<1> HIDE DEF k
<1> QED
  BY <1>1, <1>2, <1>3, <1>4, PublisherTypes

\* A call about a request that is there has no row yet, and none to write but what it reloads.
LEMMA AboutRequest ==
  ASSUME Basis, PublishTypeInv, NEW c \in AdminCalls, NEW k \in Callish, k.row = NoRow, k.no = 0,
         NEW r \in DOMAIN requests, k.req = r, Begin(c, k),
         Has(k.todo, "reload") => k.decision # "none",
         Has(k.todo, "write") \/ Has(k.todo, "insert") => Has(k.todo, "reload"),
         Has(k.todo, "point") => Has(k.todo, "insert") /\ Has(k.todo, "number"),
         Has(k.todo, "apply") => Has(k.todo, "insert"), ~Has(k.todo, "request")
  PROVE  PublishTypeInv'
<1>1. r \in 1..Len(requests)
  BY Lengths
<1>2. r \in 0..MaxAdminCalls
  BY <1>1, ReqId, Constants DEF RequestId
<1>3. InHand(k, Len(versions), release)
  BY <1>2 DEF InHand, AppRow
<1> QED
  BY <1>1, <1>3, TypesBegin

LEMMA RemindTypes ==
  ASSUME Basis, PublishTypeInv, NEW c \in AdminCalls, NEW a \in Admins, NEW r \in DOMAIN requests,
         Remind(c, a, r)
  PROVE  PublishTypeInv'
<1> DEFINE k == [AdminIdle EXCEPT !.todo = Auditing, !.actor = a, !.req = r,
                                  !.event = "reminder_sent"]
<1>1. Auditing \in Seq(Accesses) /\ "reminder_sent" \in Events /\ r \in Nat
  BY Lengths DEF Accesses, Auditing, Events
<1>2. Begin(c, k)
  BY DEF Remind
<1>3. k \in Callish /\ k.todo = Auditing /\ k.row = NoRow /\ k.no = 0 /\ k.req = r
  BY <1>1, IdleCall DEF Callish, AdminIdle
<1> HIDE DEF k
<1>4. \A access \in {"reload", "write", "insert", "point", "apply", "request"} :
        ~Has(Auditing, access)
  BY DEF Has, Auditing
<1> QED
  BY <1>2, <1>3, <1>4, AboutRequest

LEMMA ReviewTypes ==
  ASSUME Basis, PublishTypeInv, NEW c \in AdminCalls, NEW a \in Admins, NEW r \in DOMAIN requests,
         NEW d \in Decisions, Review(c, a, r, d)
  PROVE  PublishTypeInv'
<1> DEFINE s == <<"decide", "fetch", "chain">>
           t == <<"decide", "fetch", "chain", "reload", "write", "number", "insert", "point",
                  "apply", "fetch", "chain">>
           list == IF d = "approved" THEN t ELSE s
           k == [AdminIdle EXCEPT !.todo = list, !.actor = a, !.req = r, !.decision = d]
<1>1. s \in Seq(Accesses) /\ t \in Seq(Accesses) /\ r \in Nat
  BY Lengths DEF Accesses
<1>2. Begin(c, k)
  <2>1. list = <<"decide">> \o Auditing \o (IF d = "approved" THEN Approving ELSE <<>>)
    BY ReviewLists
  <2> QED
    BY <2>1 DEF Review
<1>3. \A access \in {"reload", "write", "insert", "point", "apply", "request"} : ~Has(s, access)
  BY DEF Has
<1>4. Has(t, "reload") /\ Has(t, "insert") /\ Has(t, "number") /\ ~Has(t, "request")
  <2>1. 6 \in DOMAIN t /\ t[6] = "number"
    OBVIOUS
  <2>2. Has(t, "number")
    BY <2>1 DEF Has
  <2>3. ~Has(t, "request")
    BY DEF Has
  <2> QED
    BY <2>2, <2>3, ApprovingFits
<1> HIDE DEF s, t
<1>5. /\ k \in Callish /\ k.todo = list /\ k.row = NoRow /\ k.no = 0 /\ k.req = r
      /\ k.decision # "none"
  BY <1>1, IdleCall DEF Callish, AdminIdle, Decisions
<1> HIDE DEF k
<1> QED
  BY <1>2, <1>3, <1>4, <1>5, AboutRequest

-----------------------------------------------------------------------------
\* The types.

LEMMA InitTypes == PublishInit => PublishTypeInv
<1> SUFFICES ASSUME PublishInit PROVE PublishTypeInv
  OBVIOUS
<1>1. \A c \in AdminCalls : adminCall[c] = AdminIdle
  BY DEF PublishInit
<1>2. Inserting = {}
  BY <1>1, IdleCall DEF Inserting
<1>3. 1 \in VersionNo
  BY Constants DEF VersionNo
<1>4. app \in AppRow /\ requests = <<>> /\ begun = 0
  BY DEF PublishInit, AppRow
<1>5. CASE app = NoRow
  <2>1. versions = <<>> /\ release = NoRelease
    BY <1>5 DEF PublishInit
  <2>2. RowsThere
    BY <1>4, <2>1, Constants DEF PublishInit, RowsThere, ReleaseRow
  <2>3. Recorded
    BY <1>2, <1>4, <2>1, FS_EmptySet DEF Recorded
  <2> QED
    BY <1>1, <2>2, <2>3, IdleHand DEF PublishTypeInv
<1>6. CASE app # NoRow
  <2>1. /\ versions = <<[no |-> 1, channel |-> "draft", row |-> app]>>
        /\ release = [draft |-> 1, published |-> 0]
    BY <1>6 DEF PublishInit
  <2>2. app \in Rowed
    BY <1>4, <1>6 DEF AppRow, Rowed
  <2>3. release \in [Channels -> VersionNo \cup {0}]
    BY <1>3, <2>1 DEF Channels
  <2>4. Len(versions) = 1 /\ \A i \in DOMAIN versions : versions[i].row = app
    BY <2>1
  <2>5. RowsThere
    BY <1>4, <1>6, <2>2, <2>3, <2>4, Constants DEF PublishInit, RowsThere, ReleaseRow
  <2>6. Recorded
    BY <1>2, <1>4, <2>4, FS_EmptySet DEF Recorded
  <2> QED
    BY <1>1, <2>5, <2>6, IdleHand DEF PublishTypeInv
<1> QED
  BY <1>5, <1>6

LEMMA NextTypes ==
  IInv /\ IInv' /\ ReleaseInv /\ PublishTypeInv /\ [PublishNext]_publishVars => PublishTypeInv'
<1> SUFFICES ASSUME IInv, IInv', ReleaseInv, PublishTypeInv, [PublishNext]_publishVars PROVE PublishTypeInv'
  OBVIOUS
<1>1. Basis /\ Basis' /\ VersionsNumbered
  BY DEF IInv
<1>2. CASE UNCHANGED publishVars
  BY <1>2 DEF publishVars, PublishTypeInv, RowsThere, Recorded, Inserting
<1>3. CASE PublishNext
  <2> PICK c \in AdminCalls : \/ PublishStart(c)
                              \/ PublishStep(c)
                              \/ AdminAborts(c) \/ FetchFails(c) \/ AppendFails(c)
    BY <1>3 DEF PublishNext
  <2>1. CASE PublishStart(c)
    BY <1>1, <2>1, SavesTypes, AskTypes, RollbackTypes, RemindTypes, ReviewTypes DEF PublishStart
  <2>2. CASE PublishStep(c)
    BY <1>1, <2>2, WriteTypes, CreateTypes, NumberTypes, InsertTypes, PointTypes, RequestTypes,
       DecideTypes, ReloadTypes, ApplyTypes, AuditTypes DEF PublishStep
  <2>3. CASE AdminAborts(c)
    <3>1. adminFaults' \in 0..MaxAdminFaults
      BY <2>3, Constants DEF AdminAborts, PublishTypeInv, RowsThere
    <3> QED
      BY <1>1, <2>3, <3>1, TypesQuit DEF AdminAborts
  <2>4. CASE FetchFails(c) \/ AppendFails(c)
    BY <1>1, <2>4, AuditTypes
  <2> QED
    BY <2>1, <2>2, <2>3, <2>4
<1> QED
  BY <1>2, <1>3

\* The rows and the calls keep their types: no version or request is without its number,
\* no release names one that is not there, and no approval publishes an app that has no row.
THEOREM PublishTyped == PublishSpec => []PublishTypeOK
<1>1. IInv /\ PublishTypeInv => PublishTypeOK
  <2> SUFFICES ASSUME IInv, PublishTypeInv PROVE PublishTypeOK
    OBVIOUS
  <2>1. Basis /\ VersionsNumbered /\ RowsThere
    BY DEF IInv, PublishTypeInv
  <2>2. /\ app \in AppRow /\ release \in ReleaseRow /\ requests \in Seq(Request)
        /\ audit \in [RequestId -> Seq(AuditRow)] /\ begun \in 0..MaxAdminCalls
        /\ adminFaults \in 0..MaxAdminFaults
    BY <2>1 DEF RowsThere, Basis, RowsTyped, CallsTyped
  <2>3. Len(requests) <= MaxAdminCalls
    <3>1. /\ Len(requests) + Cardinality(Asking) <= begun /\ Cardinality(Asking) \in Nat
      BY <2>1, FS_CardinalityType DEF Basis, AskingCounted
    <3> QED
      BY <2>1, <3>1, Lengths, Constants
  <2>4. versions \in Seq(Version)
    <3>1. /\ versions \in Seq(Versionish) /\ Len(versions) \in Nat
          /\ DOMAIN versions = 1..Len(versions)
      BY <2>1, Here, Lengths DEF Basis, RowsTyped
    <3>2. Len(versions) <= MaxAdminCalls + 1
      <4>1. Len(versions) + Cardinality(Inserting) <= begun + 1 /\ Cardinality(Inserting) \in Nat
        BY FS_CardinalityType DEF PublishTypeInv, Recorded
      <4> QED
        BY <2>1, <3>1, <4>1, Lengths, Constants
    <3>3. ASSUME NEW i \in 1..Len(versions) PROVE versions[i] \in Version
      <4>1. versions[i] \in Versionish
        BY <3>1, ElementOfSeq
      <4>2. versions[i].no = i /\ versions[i].row \in Rowed
        BY <2>1, <3>1 DEF VersionsNumbered, RowsThere
      <4>3. i \in VersionNo /\ versions[i].row \in AppRow
        BY <3>1, <3>2, <4>2, Constants DEF VersionNo, Rowed, AppRow
      <4> QED
        BY <4>1, <4>2, <4>3 DEF Versionish, Version
    <3> QED
      BY <3>1, <3>3
  <2>5. adminCall \in [AdminCalls -> AdminRecord]
    <3>1. ASSUME NEW c \in AdminCalls PROVE adminCall[c] \in AdminRecord
      BY <2>1, Here DEF PublishTypeInv, InHand, Callish, AdminRecord
    <3> QED
      BY <2>1, <3>1 DEF Basis, CallsTyped
  <2>6. past \in [mixed : BOOLEAN, contested : SUBSET RequestId, forked : SUBSET RequestId,
                  abandoned : SUBSET RequestId]
    BY <2>1 DEF Basis, CallsTyped, Pastish, RowsThere
  <2> QED
    BY <2>2, <2>3, <2>4, <2>5, <2>6 DEF PublishTypeOK
<1> QED
  BY <1>1, Invariant, InitReleased, NextReleased, InitTypes, NextTypes, PTL DEF PublishSpec

-----------------------------------------------------------------------------
\* What a request that says applied names: the version follows the call that is to
\* apply it from the reload to the insert, and is that call's alone until it does.

ToApply(k) == Has(k.todo, "apply")
Made(k) == ToApply(k) /\ ~Has(k.todo, "insert")

\* A version with this number is published and active.
PublishedNo(no, vs) ==
  \E i \in DOMAIN vs : vs[i].no = no /\ vs[i].channel = "published" /\ vs[i].row.status = "active"

\* What the requests qs say, when the versions are vs.
Saying(qs, vs) ==
  \A r \in DOMAIN qs :
    /\ qs[r].version <= Len(vs)
    /\ qs[r].status = "applied" => qs[r].applied # 0
    /\ qs[r].applied # 0 =>
         /\ PublishedNo(qs[r].applied, vs) /\ qs[r].version < qs[r].applied
         /\ \A q \in DOMAIN qs : qs[q].applied = qs[r].applied => q = r

\* A call that is to apply k.req.
ToPublish(k) ==
  ToApply(k) /\ ~Has(k.todo, "reload") => k.row.status = "active" /\ k.channel = "published"
MadeFor(k, qs, vs) ==
  Made(k) => /\ PublishedNo(k.no, vs) /\ qs[k.req].version < k.no
             /\ \A q \in DOMAIN qs : qs[q].applied # k.no
MadeByOne ==
  \A c, d \in AdminCalls :
    Made(adminCall[c]) /\ Made(adminCall[d]) /\ adminCall[c].no = adminCall[d].no => c = d

AppliedInv ==
  /\ Saying(requests, versions) /\ MadeByOne
  /\ \A c \in AdminCalls : ToPublish(adminCall[c]) /\ MadeFor(adminCall[c], requests, versions)

\* A call goes on, or ends or begins, without making a version.
OnlyGoes(k, j) ==
  /\ ToPublish(j)
  /\ Made(j) => Made(k) /\ j.no = k.no /\ j.req = k.req

\* Requests that are as they were, but for what they say of a decision.
SameRequests(qs) ==
  /\ DOMAIN qs = DOMAIN requests
  /\ \A r \in DOMAIN requests :
       /\ qs[r].version = requests[r].version /\ qs[r].applied = requests[r].applied
       /\ qs[r].status = "applied" => requests[r].status = "applied"

LEMMA ToApplyHas ==
  ASSUME Basis, NEW c \in AdminCalls, ToApply(adminCall[c])
  PROVE  /\ adminCall[c].req \in 1..Len(requests) /\ adminCall[c].todo # <<>>
         /\ adminCall[c].decision = "approved"
BY Here DEF ToApply, Has, Shape

LEMMA OnlyGoing ==
  ASSUME Basis, AppliedInv, NEW c \in AdminCalls, OnlyGoes(adminCall[c], adminCall'[c]),
         \A d \in AdminCalls \ {c} : adminCall'[d] = adminCall[d],
         versions' = versions, SameRequests(requests')
  PROVE  AppliedInv'
<1>1. \A d \in AdminCalls :
        Made(adminCall'[d]) =>
          /\ Made(adminCall[d]) /\ adminCall'[d].no = adminCall[d].no
          /\ adminCall'[d].req = adminCall[d].req
  BY DEF OnlyGoes
<1>2. \A d \in AdminCalls : Made(adminCall[d]) => adminCall[d].req \in DOMAIN requests
  BY ToApplyHas, Lengths DEF Made
<1>3. MadeByOne'
  BY <1>1 DEF AppliedInv, MadeByOne
<1>4. \A d \in AdminCalls : ToPublish(adminCall'[d])
  BY DEF AppliedInv, OnlyGoes
<1>5. ASSUME NEW d \in AdminCalls PROVE MadeFor(adminCall'[d], requests', versions')
  BY <1>1, <1>2 DEF AppliedInv, MadeFor, SameRequests
<1>6. Saying(requests', versions')
  BY DEF AppliedInv, Saying, SameRequests
<1> QED
  BY <1>3, <1>4, <1>5, <1>6 DEF AppliedInv

\* An access that neither numbers nor inserts a version, and makes no request.
LEMMA PlainGoing ==
  ASSUME Basis, ReleaseInv, AppliedInv, NEW c \in AdminCalls, NEW access,
         access \notin {"number", "insert"}, Faces(adminCall[c], access),
         NEW k \in Callish, k.todo = adminCall[c].todo, k.no = adminCall[c].no,
         k.req = adminCall[c].req, Proceed(c, k), versions' = versions, SameRequests(requests'),
         IF access = "reload" THEN k.row.status = "active" /\ k.channel = "published"
                              ELSE k.row = adminCall[c].row /\ k.channel = adminCall[c].channel
  PROVE  AppliedInv'
<1> DEFINE j == Advanced(k)
<1>1. /\ k.todo # <<>> /\ Fits(k.todo) /\ Ordered(k.todo) /\ Faces(k, access)
      /\ adminCall \in [AdminCalls -> Callish] /\ ToPublish(adminCall[c])
  BY Going DEF Faces, Basis, CallsTyped, AppliedInv
<1>2. \A other : other # access => (Has(j.todo, other) <=> Has(k.todo, other))
  BY <1>1, Leaves
<1>3. Has(k.todo, access) /\ \A other : Has(j.todo, other) => Has(k.todo, other)
  BY <1>1, <1>2, Leaves
<1>4. j.todo # <<>> =>
        j.row = k.row /\ j.channel = k.channel /\ j.no = k.no /\ j.req = k.req
  BY <1>1, Rest, Advances
<1>5. adminCall' = [adminCall EXCEPT ![c] = j]
  BY DEF Proceed, Advanced
<1> HIDE DEF j
<1>6. ToApply(j) => j.todo # <<>> /\ ToApply(adminCall[c])
  BY <1>3 DEF ToApply, Has
<1>7. ToPublish(j)
  <2>1. CASE access = "reload"
    BY <1>4, <1>6, <2>1 DEF ToPublish
  <2>2. CASE access # "reload"
    BY <1>1, <1>2, <1>4, <1>6, <2>2 DEF ToPublish
  <2> QED
    BY <2>1, <2>2
<1>8. Made(j) => Made(adminCall[c]) /\ j.no = adminCall[c].no /\ j.req = adminCall[c].req
  BY <1>2, <1>4, <1>6 DEF Made
<1>9. adminCall'[c] = j /\ \A d \in AdminCalls \ {c} : adminCall'[d] = adminCall[d]
  BY <1>1, <1>5
<1> QED
  BY <1>7, <1>8, <1>9, OnlyGoing DEF OnlyGoes

\* The next number is a version's yet to be inserted.
LEMMA NumberGoes ==
  ASSUME Basis, VersionsNumbered, ReleaseInv, AppliedInv, NEW c \in AdminCalls, NextVersionNo(c)
  PROVE  AppliedInv'
<1> DEFINE old == adminCall[c]
<1>1. /\ old \in Callish /\ Ordered(old.todo) /\ Fits(old.todo) /\ Faces(old, "number")
      /\ old.todo # <<>> /\ old.todo \in Seq(Accesses)
      /\ adminCall \in [AdminCalls -> Callish] /\ ToPublish(old)
  BY Going, AtNext DEF NextVersionNo, Faces, Callish, Basis, CallsTyped, AppliedInv
<1>2. versions' = versions /\ SameRequests(requests')
  BY DEF NextVersionNo, Rows, SameRequests
<1>3. Has(old.todo, "insert")
  BY <1>1, YetToRecord
<1>4. ASSUME NEW k \in Callish, k.todo # <<>>, Fits(k.todo), Ordered(k.todo), Faces(k, "number"),
             k.row = old.row, k.channel = old.channel, Proceed(c, k),
             \A access \in {"insert", "reload", "apply"} : Has(k.todo, access) <=> Has(old.todo, access)
      PROVE  AppliedInv'
  <2> DEFINE j == Advanced(k)
  <2>1. /\ \A access \in {"insert", "reload"} : Has(j.todo, access) <=> Has(old.todo, access)
        /\ j.row = old.row /\ j.channel = old.channel
    BY <1>4, YetToRecord
  <2>2. Has(j.todo, "apply") <=> Has(old.todo, "apply")
    BY <1>4, Leaves
  <2>3. adminCall' = [adminCall EXCEPT ![c] = j]
    BY <1>4 DEF Proceed, Advanced
  <2> HIDE DEF j
  <2>4. ToPublish(j) /\ ~Made(j)
    BY <1>1, <1>3, <2>1, <2>2 DEF ToPublish, ToApply, Made
  <2>5. adminCall'[c] = j /\ \A d \in AdminCalls \ {c} : adminCall'[d] = adminCall[d]
    BY <1>1, <2>3
  <2> QED
    BY <1>2, <2>4, <2>5, OnlyGoing DEF OnlyGoes
<1>5. CASE release = NoRelease
  <2> DEFINE t == <<"number", "create">> \o old.todo
             k == [old EXCEPT !.todo = t]
  <2>1. old.todo[1] = "number"
    BY <1>1 DEF Faces
  <2>2. /\ t \in Seq(Accesses) /\ t # <<>> /\ Ordered(t) /\ t[1] = "number" /\ Fits(t)
        /\ \A access \in {"insert", "reload", "apply"} : Has(t, access) <=> Has(old.todo, access)
    BY <1>1, <2>1, CreatingList, FitsCreating
  <2> HIDE DEF t
  <2>3. k \in Callish /\ k.todo = t /\ k.row = old.row /\ k.channel = old.channel
    BY <1>1, <2>2 DEF Callish
  <2>4. Proceed(c, k)
    BY <1>5 DEF NextVersionNo, t
  <2> HIDE DEF k
  <2>5. Faces(k, "number")
    BY <2>2, <2>3 DEF Faces
  <2> QED
    BY <1>4, <2>2, <2>3, <2>4, <2>5
<1>6. CASE release # NoRelease
  <2> DEFINE k == [old EXCEPT !.no = Max(Numbers \cup {0}) + 1]
  <2>1. Max(Numbers \cup {0}) + 1 \in Nat
    BY MaxNumber, Here, LenProperties
  <2>2. k \in Callish /\ k.todo = old.todo /\ k.row = old.row /\ k.channel = old.channel
    BY <1>1, <2>1 DEF Callish
  <2>3. Proceed(c, k)
    BY <1>6 DEF NextVersionNo
  <2> HIDE DEF k
  <2>4. Faces(k, "number")
    BY <1>1, <2>2 DEF Faces
  <2> QED
    BY <1>1, <1>4, <2>2, <2>3, <2>4
<1> QED
  BY <1>5, <1>6

\* A call that ends, or begins, has made no version.
LEMMA QuitGoes ==
  ASSUME Basis, AppliedInv, NEW c \in AdminCalls, Quit(c), UNCHANGED <<versions, requests>>
  PROVE  AppliedInv'
<1>1. adminCall \in [AdminCalls -> Callish] /\ adminCall' = [adminCall EXCEPT ![c] = AdminIdle]
  BY DEF Basis, CallsTyped, Quit
<1>2. adminCall'[c] = AdminIdle /\ \A d \in AdminCalls \ {c} : adminCall'[d] = adminCall[d]
  BY <1>1
<1>3. OnlyGoes(adminCall[c], adminCall'[c]) /\ SameRequests(requests')
  BY <1>2, IdleCall DEF OnlyGoes, ToPublish, Made, ToApply, SameRequests
<1> QED
  BY <1>2, <1>3, OnlyGoing

LEMMA BeginGoes ==
  ASSUME Basis, AppliedInv, NEW c \in AdminCalls, NEW k, Begin(c, k),
         ToApply(k) => Has(k.todo, "reload") /\ Has(k.todo, "insert")
  PROVE  AppliedInv'
<1>1. /\ adminCall \in [AdminCalls -> Callish] /\ adminCall' = [adminCall EXCEPT ![c] = k]
      /\ versions' = versions /\ requests' = requests
  BY DEF Basis, CallsTyped, Begin
<1>2. adminCall'[c] = k /\ \A d \in AdminCalls \ {c} : adminCall'[d] = adminCall[d]
  BY <1>1
<1>3. OnlyGoes(adminCall[c], k) /\ SameRequests(requests')
  BY <1>1 DEF OnlyGoes, ToPublish, Made, SameRequests
<1> QED
  BY <1>1, <1>2, <1>3, OnlyGoing

\* Only a review that approves is to apply, and it has all of it to do.
LEMMA StartGoes ==
  ASSUME Basis, AppliedInv, NEW c \in AdminCalls, PublishStart(c)
  PROVE  AppliedInv'
<1>1. ASSUME NEW row, NEW channel, Begin(c, Saving(row, channel)) PROVE AppliedInv'
  <2> DEFINE s == <<"write", "number", "insert", "point">>
  <2>1. Saving(row, channel).todo = s /\ ~Has(s, "apply")
    BY SavingList DEF Saving, AdminIdle, Has
  <2> HIDE DEF s
  <2> QED
    BY <1>1, <2>1, BeginGoes DEF ToApply
<1>2. ASSUME NEW i \in DOMAIN versions, NEW channel \in Channels, Rollback(c, i, channel) PROVE AppliedInv'
  <2> DEFINE s == <<"number", "insert", "point", "write">>
             row == [versions[i].row EXCEPT !.status = RollbackStatus(versions[i].row, channel)]
             k == [AdminIdle EXCEPT !.todo = s, !.channel = channel, !.row = row]
  <2>1. Begin(c, k)
    BY <1>2, RollbackList DEF Rollback
  <2>2. k.todo = s /\ ~Has(s, "apply")
    BY DEF AdminIdle, Has
  <2> HIDE DEF s, k
  <2> QED
    BY <2>1, <2>2, BeginGoes DEF ToApply
<1>3. ASSUME NEW a \in Admins, NEW content \in Contents, AskToPublish(c, a, content) PROVE AppliedInv'
  <2> DEFINE s == <<"number", "insert", "point", "request", "fetch", "chain">>
             k == [AdminIdle EXCEPT !.todo = s, !.actor = a,
                                    !.row = [content |-> content, status |-> "pending"]]
  <2>1. Begin(c, k)
    BY <1>3, AskingList DEF AskToPublish
  <2>2. k.todo = s /\ ~Has(s, "apply")
    BY DEF AdminIdle, Has
  <2> HIDE DEF s, k
  <2> QED
    BY <2>1, <2>2, BeginGoes DEF ToApply
<1>4. ASSUME NEW a \in Admins, NEW r \in DOMAIN requests, Remind(c, a, r) PROVE AppliedInv'
  <2> DEFINE k == [AdminIdle EXCEPT !.todo = Auditing, !.actor = a, !.req = r, !.event = "reminder_sent"]
  <2>1. Begin(c, k)
    BY <1>4 DEF Remind
  <2>2. k.todo = Auditing /\ ~Has(Auditing, "apply")
    BY DEF AdminIdle, Has, Auditing
  <2> HIDE DEF k
  <2> QED
    BY <2>1, <2>2, BeginGoes DEF ToApply
<1>5. ASSUME NEW a \in Admins, NEW r \in DOMAIN requests, NEW d \in Decisions, Review(c, a, r, d)
      PROVE  AppliedInv'
  <2> DEFINE s == <<"decide", "fetch", "chain">>
             t == <<"decide", "fetch", "chain", "reload", "write", "number", "insert", "point",
                    "apply", "fetch", "chain">>
             list == IF d = "approved" THEN t ELSE s
             k == [AdminIdle EXCEPT !.todo = list, !.actor = a, !.req = r, !.decision = d]
  <2>1. Begin(c, k)
    <3>1. list = <<"decide">> \o Auditing \o (IF d = "approved" THEN Approving ELSE <<>>)
      BY ReviewLists
    <3> QED
      BY <1>5, <3>1 DEF Review
  <2>2. ~Has(s, "apply")
    BY DEF Has
  <2>3. Has(t, "reload") /\ Has(t, "insert")
    BY ApprovingFits
  <2> HIDE DEF s, t
  <2>4. k.todo = list
    BY DEF AdminIdle
  <2> HIDE DEF k
  <2> QED
    BY <2>1, <2>2, <2>3, <2>4, BeginGoes DEF ToApply
<1> QED
  BY <1>1, <1>2, <1>3, <1>4, <1>5 DEF PublishStart, Upsert, SetStatus

\* A version that is made is the last, and so no request names it or a later one.
LEMMA InsertGoes ==
  ASSUME Basis, VersionsNumbered, ReleaseInv, PublishTypeInv, AppliedInv, NEW c \in AdminCalls,
         InsertVersion(c)
  PROVE  AppliedInv'
<1> DEFINE k == adminCall[c]
           j == Advanced(k)
           v == [no |-> k.no, row |-> k.row, channel |-> k.channel]
           m == Len(versions)
<1>1. /\ k \in Callish /\ Ordered(k.todo) /\ Fits(k.todo) /\ Faces(k, "insert") /\ k.todo # <<>>
      /\ m \in Nat /\ requests' = requests /\ adminCall \in [AdminCalls -> Callish]
  BY Typing, AtNext DEF InsertVersion, Faces, Basis, CallsTyped
<1>2. CASE Taken(k.no)
  BY <1>1, <1>2, QuitGoes DEF InsertVersion
<1>3. CASE ~Taken(k.no)
  <2>1. Proceed(c, k) /\ versions' = Append(versions, v)
    BY <1>3 DEF InsertVersion, Pass
  <2>2. v \in Versionish /\ v.no = k.no /\ v.row = k.row /\ v.channel = k.channel
    BY <1>1 DEF Versionish, Callish
  <2> HIDE DEF v
  <2>3. versions \in Seq(Versionish) /\ DOMAIN versions = 1..m
    BY Here, Lengths
  <2>4. /\ versions' \in Seq(Versionish) /\ Len(versions') = m + 1
        /\ \A i \in 1..m : versions'[i] = versions[i]
        /\ versions'[m + 1] = v
    BY <2>1, <2>2, <2>3, Appended
  <2>5. DOMAIN versions' = 1..m + 1
    BY <2>4, LenProperties
  <2>6. k.no = m + 1
    <3>1. Numbers = 1..m
      BY <1>1, <2>3 DEF Numbers, VersionsNumbered
    <3>2. k.no \in 1..m + 1
      BY <1>1, Here DEF Shape
    <3> QED
      BY <1>1, <1>3, <3>1, <3>2 DEF Taken
  <2>7. \A no : PublishedNo(no, versions) => PublishedNo(no, versions') /\ no \in 1..m
    BY <1>1, <2>3, <2>4, <2>5 DEF PublishedNo, VersionsNumbered
  <2>8. /\ \A r \in DOMAIN requests : requests[r].version <= m /\ requests[r].applied # m + 1
        /\ \A r \in DOMAIN requests : requests[r].version \in Nat
    <3>1. ASSUME NEW r \in DOMAIN requests
          PROVE  requests[r].version <= m /\ requests[r].version \in Nat /\ requests[r].applied # m + 1
      <4>0. requests[r] \in Requestish
        BY Here, Lengths, ElementOfSeq
      <4>1. requests[r].version <= m /\ requests[r].version \in Nat
        BY <4>0 DEF AppliedInv, Saying, Requestish
      <4>2. requests[r].applied = m + 1 => requests[r].applied \in 1..m
        BY <1>1, <2>7 DEF AppliedInv, Saying
      <4> QED
        BY <1>1, <4>1, <4>2
    <3> QED
      BY <3>1
  <2>9. /\ \A other : other # "insert" => (Has(j.todo, other) <=> Has(k.todo, other))
        /\ j.todo # <<>> =>
             j.row = k.row /\ j.channel = k.channel /\ j.no = k.no /\ j.req = k.req
    BY <1>1, Leaves, Rest, Advances
  <2>10. adminCall' = [adminCall EXCEPT ![c] = j]
    BY <2>1 DEF Proceed, Advanced
  <2>11. ~Has(k.todo, "reload") /\ Has(k.todo, "insert")
    BY <1>1, Rest DEF FitsAt, Faces
  <2> HIDE DEF j
  <2>12. adminCall'[c] = j /\ \A d \in AdminCalls \ {c} : adminCall'[d] = adminCall[d]
    BY <1>1, <2>10
  <2>13. ToApply(j) => ToApply(k) /\ j.todo # <<>>
    BY <2>9 DEF ToApply, Has
  <2>14. ToPublish(j) /\ MadeFor(j, requests, versions')
    <3>1. SUFFICES ASSUME ToApply(j)
                   PROVE  /\ j.row.status = "active" /\ j.channel = "published"
                          /\ MadeFor(j, requests, versions')
      BY DEF ToPublish, MadeFor, Made
    <3>2. ToApply(k) /\ k.row.status = "active" /\ k.channel = "published"
      BY <2>11, <2>13, <3>1 DEF AppliedInv, ToPublish
    <3>3. PublishedNo(j.no, versions')
      BY <1>1, <2>2, <2>4, <2>5, <2>6, <2>9, <2>13, <3>1, <3>2 DEF PublishedNo
    <3>4. j.req \in DOMAIN requests /\ j.no = m + 1
      BY <2>6, <2>9, <2>13, <3>1, ToApplyHas, Lengths
    <3>5. requests[j.req].version < j.no
      BY <1>1, <2>8, <3>4
    <3> QED
      BY <2>8, <2>9, <2>13, <3>1, <3>2, <3>3, <3>4, <3>5 DEF MadeFor
  <2>15. ASSUME NEW d \in AdminCalls \ {c}
         PROVE  /\ ToPublish(adminCall'[d]) /\ MadeFor(adminCall'[d], requests, versions')
                /\ Made(adminCall'[d]) => adminCall'[d].no # m + 1
    BY <1>1, <2>7, <2>12 DEF AppliedInv, MadeFor
  <2>16. MadeByOne'
    <3>1. ~Made(k)
      BY <2>11 DEF Made
    <3>2. Made(j) => j.no = m + 1
      BY <2>6, <2>9, <2>13 DEF Made
    <3> QED
      BY <2>12, <2>15, <3>2 DEF AppliedInv, MadeByOne
  <2>17. Saying(requests, versions')
    BY <1>1, <2>4, <2>7, <2>8 DEF AppliedInv, Saying
  <2>18. \A d \in AdminCalls : ToPublish(adminCall'[d]) /\ MadeFor(adminCall'[d], requests', versions')
    BY <1>1, <2>12, <2>14, <2>15
  <2> QED
    BY <1>1, <2>16, <2>17, <2>18 DEF AppliedInv
<1> QED
  BY <1>2, <1>3

\* The version of a request is there, and the call that makes one applies none.
LEMMA RequestGoes ==
  ASSUME Basis, ReleaseInv, PublishTypeInv, AppliedInv, NEW c \in AdminCalls, CreateRequest(c)
  PROVE  AppliedInv'
<1> DEFINE old == adminCall[c]
           n == Len(requests) + 1
           q == [status |-> "pending", by |-> old.actor, version |-> old.no, applied |-> 0]
           k == [old EXCEPT !.req = n]
           j == Advanced(k)
<1>1. /\ old \in Callish /\ Ordered(old.todo) /\ Fits(old.todo) /\ Faces(old, "request")
      /\ old.todo # <<>> /\ requests \in Seq(Requestish) /\ DOMAIN requests = 1..Len(requests)
      /\ InHand(old, Len(versions), release) /\ Len(versions) \in Nat /\ Len(requests) \in Nat
      /\ versions' = versions /\ adminCall \in [AdminCalls -> Callish]
  BY Typing, Here, Lengths, AtNext DEF CreateRequest, Faces, Basis, CallsTyped
<1>2. CASE ~NonePending
  BY <1>1, <1>2, QuitGoes DEF CreateRequest
<1>3. CASE NonePending
  <2>1. Proceed(c, k) /\ requests' = Append(requests, q)
    BY <1>3 DEF CreateRequest
  <2>2. Has(old.todo, "request") /\ ~Has(old.todo, "insert") /\ ~ToApply(old)
    <3>1. Has(old.todo, "request") /\ ~Has(old.todo, "insert")
      BY <1>1, Rest DEF FitsAt, Faces
    <3> QED
      BY <3>1, Here DEF Shape, ToApply
  <2>3. old.no \in 1..Len(versions)
    BY <1>1, <2>2 DEF InHand
  <2>4. q \in Requestish /\ q.version <= Len(versions) /\ q.applied = 0 /\ q.status # "applied"
    BY <1>1, <2>3 DEF Requestish, RequestStatuses, Callish
  <2> HIDE DEF q
  <2>5. /\ requests' \in Seq(Requestish) /\ Len(requests') = n
        /\ \A r \in 1..Len(requests) : requests'[r] = requests[r]
        /\ requests'[n] = q
    BY <1>1, <2>1, <2>4, Appended
  <2>6. DOMAIN requests' = 1..n /\ n \in Nat
    BY <1>1, <2>5, LenProperties
  <2> HIDE DEF n
  <2>7. /\ k \in Callish /\ k.todo = old.todo
    BY <1>1, <2>6 DEF Callish
  <2>8. adminCall' = [adminCall EXCEPT ![c] = j]
    BY <2>1 DEF Proceed, Advanced
  <2> HIDE DEF k
  <2>9. ~ToApply(j)
    <3>1. Faces(k, "request")
      BY <1>1, <2>7 DEF Faces
    <3> QED
      BY <1>1, <2>2, <2>7, <3>1, Leaves DEF ToApply
  <2> HIDE DEF j
  <2>10. adminCall'[c] = j /\ \A d \in AdminCalls \ {c} : adminCall'[d] = adminCall[d]
    BY <1>1, <2>8
  <2>11. /\ \A r \in DOMAIN requests' : r \in DOMAIN requests \/ r = n
         /\ \A r \in DOMAIN requests : requests'[r] = requests[r]
    <3>1. \A r \in DOMAIN requests' : r \in DOMAIN requests \/ r = n
      BY <1>1, <2>6 DEF n
    <3>2. \A r \in DOMAIN requests : requests'[r] = requests[r]
      BY <1>1, <2>5
    <3> QED
      BY <3>1, <3>2
  <2>12. Saying(requests', versions)
    <3> SUFFICES ASSUME NEW r \in DOMAIN requests'
                 PROVE  /\ requests'[r].version <= Len(versions)
                        /\ requests'[r].status = "applied" => requests'[r].applied # 0
                        /\ requests'[r].applied # 0 =>
                             /\ PublishedNo(requests'[r].applied, versions)
                             /\ requests'[r].version < requests'[r].applied
                             /\ \A p \in DOMAIN requests' :
                                  requests'[p].applied = requests'[r].applied => p = r
      BY DEF Saying
    <3>1. CASE r = n
      BY <2>4, <2>5, <3>1
    <3>2. CASE r \in DOMAIN requests
      BY <2>4, <2>5, <2>11, <3>2 DEF AppliedInv, Saying
    <3> QED
      BY <2>11, <3>1, <3>2
  <2>13. \A d \in AdminCalls : Made(adminCall'[d]) => Made(adminCall[d]) /\ adminCall'[d] = adminCall[d]
    BY <2>9, <2>10 DEF Made
  <2>14. ASSUME NEW d \in AdminCalls PROVE ToPublish(adminCall'[d]) /\ MadeFor(adminCall'[d], requests', versions)
    <3>1. ToPublish(adminCall'[d])
      BY <2>9, <2>10 DEF AppliedInv, ToPublish
    <3>2. ASSUME Made(adminCall'[d]) PROVE MadeFor(adminCall'[d], requests', versions)
      <4>1. adminCall'[d] = adminCall[d] /\ adminCall[d].req \in 1..Len(requests)
        BY <2>13, <3>2, ToApplyHas DEF Made
      <4>2. /\ PublishedNo(adminCall[d].no, versions) /\ requests[adminCall[d].req].version < adminCall[d].no
            /\ \A r \in DOMAIN requests : requests[r].applied # adminCall[d].no
        BY <2>13, <3>2 DEF AppliedInv, MadeFor
      <4>3. adminCall[d].no # 0
        <5>1. requests[adminCall[d].req] \in Requestish /\ adminCall[d] \in Callish
          BY <1>1, <4>1, ElementOfSeq
        <5> QED
          BY <4>2, <5>1 DEF Requestish, Callish
      <4> QED
        BY <2>4, <2>5, <2>11, <4>1, <4>2, <4>3 DEF MadeFor
    <3> QED
      BY <3>1, <3>2 DEF MadeFor
  <2>15. MadeByOne'
    BY <2>13 DEF AppliedInv, MadeByOne
  <2> QED
    BY <1>1, <2>12, <2>14, <2>15 DEF AppliedInv
<1> QED
  BY <1>2, <1>3

\* What the call that applies has made is published, and no other request's.
LEMMA ApplyGoes ==
  ASSUME Basis, ReleaseInv, AppliedInv, NEW c \in AdminCalls, Apply(c)
  PROVE  AppliedInv'
<1> DEFINE old == adminCall[c]
           was == requests[old.req]
           q == [was EXCEPT !.status = "applied", !.applied = old.no]
           k == [old EXCEPT !.event = "request_applied"]
           j == Advanced(k)
<1>1. /\ old \in Callish /\ Ordered(old.todo) /\ Fits(old.todo) /\ Faces(old, "apply")
      /\ old.todo # <<>> /\ requests \in Seq(Requestish) /\ DOMAIN requests = 1..Len(requests)
      /\ versions' = versions /\ adminCall \in [AdminCalls -> Callish] /\ Proceed(c, k)
      /\ old.req \in 1..Len(requests) /\ was \in Requestish
  BY Going, Here, Lengths, AtNext, Marking DEF Apply, Faces, Basis, CallsTyped
<1>2. /\ q \in Requestish /\ q.version = was.version /\ q.applied = old.no
  BY <1>1 DEF Requestish, RequestStatuses, Callish
<1>3. requests' = [requests EXCEPT ![old.req] = q]
  BY <1>1 DEF Apply
<1> HIDE DEF q
<1>4. /\ DOMAIN requests' = DOMAIN requests
      /\ \A r \in DOMAIN requests : requests'[r] = IF r = old.req THEN q ELSE requests[r]
  BY <1>1, <1>3
<1>5. Made(old)
  BY <1>1, Rest DEF FitsAt, Faces, Made, ToApply
<1>6. /\ PublishedNo(old.no, versions) /\ was.version < old.no
      /\ \A r \in DOMAIN requests : requests[r].applied # old.no
  BY <1>5 DEF AppliedInv, MadeFor
<1>7. old.no # 0 /\ was.version <= Len(versions)
  BY <1>1, <1>6 DEF AppliedInv, Saying, Requestish, Callish
<1>8. Saying(requests', versions)
  BY <1>1, <1>2, <1>4, <1>6, <1>7 DEF AppliedInv, Saying
<1>9. ~ToApply(j)
  <2>1. k \in Callish /\ k.todo = old.todo
    BY <1>1 DEF Callish, Events
  <2> HIDE DEF k
  <2>2. Faces(k, "apply") /\ Ordered(k.todo) /\ Fits(k.todo) /\ k.todo # <<>>
    BY <1>1, <2>1 DEF Faces
  <2>3. Becomes(k, j)
    BY <2>1, <2>2, Advances
  <2> QED
    BY <2>2, <2>3 DEF Becomes, ToApply
<1>10. adminCall' = [adminCall EXCEPT ![c] = j]
  BY <1>1 DEF Proceed, Advanced
<1> HIDE DEF j
<1>11. adminCall'[c] = j /\ \A d \in AdminCalls \ {c} : adminCall'[d] = adminCall[d]
  BY <1>1, <1>10
<1>12. ASSUME NEW d \in AdminCalls PROVE ToPublish(adminCall'[d]) /\ MadeFor(adminCall'[d], requests', versions)
  <2>1. CASE d = c
    BY <1>9, <1>11, <2>1 DEF ToPublish, MadeFor, Made
  <2>2. CASE d # c
    <3>1. adminCall'[d] = adminCall[d] /\ ToPublish(adminCall[d])
      BY <1>11, <2>2 DEF AppliedInv
    <3>2. ASSUME Made(adminCall[d]) PROVE MadeFor(adminCall[d], requests', versions)
      <4>1. adminCall[d].req \in DOMAIN requests
        BY <1>1, <3>2, ToApplyHas DEF Made
      <4>2. adminCall[d].no # old.no
        BY <1>5, <2>2, <3>2 DEF AppliedInv, MadeByOne
      <4> QED
        BY <1>2, <1>4, <3>2, <4>1, <4>2 DEF AppliedInv, MadeFor
    <3> QED
      BY <3>1, <3>2 DEF MadeFor
  <2> QED
    BY <2>1, <2>2
<1>13. MadeByOne'
  BY <1>9, <1>11 DEF AppliedInv, MadeByOne, Made
<1> QED
  BY <1>1, <1>8, <1>12, <1>13 DEF AppliedInv

\* A decision is not that a request is applied.
LEMMA DecideGoes ==
  ASSUME Basis, ReleaseInv, AppliedInv, NEW c \in AdminCalls, Decide(c)
  PROVE  AppliedInv'
<1> DEFINE old == adminCall[c]
           k == [old EXCEPT !.event = old.decision]
           q == [requests[old.req] EXCEPT !.status = old.decision]
<1>1. /\ old \in Callish /\ Faces(old, "decide") /\ old.decision \in Decisions
      /\ old.req \in DOMAIN requests /\ requests[old.req] \in Requestish
      /\ requests \in Seq(Requestish)
      /\ Proceed(c, k) /\ versions' = versions
  BY Going, Here, AtNext, Marking DEF Decide
<1>2. k \in Callish /\ k.todo = old.todo /\ k.no = old.no /\ k.req = old.req
      /\ k.row = old.row /\ k.channel = old.channel
  BY <1>1 DEF Callish, Decisions, Events
<1> HIDE DEF k
<1>3. /\ q.version = requests[old.req].version /\ q.applied = requests[old.req].applied
      /\ q.status # "applied"
  BY <1>1 DEF Requestish, Decisions
<1>4. requests' = [requests EXCEPT ![old.req] = q]
  BY <1>1 DEF Decide
<1> HIDE DEF q
<1>5. SameRequests(requests')
  BY <1>1, <1>3, <1>4 DEF SameRequests
<1>6. "decide" \notin {"number", "insert"} /\ "decide" # "reload"
  OBVIOUS
<1> QED
  BY <1>1, <1>2, <1>5, <1>6, PlainGoing

\* The accesses that leave both the versions and the requests as they are.
LEMMA ReloadGoes ==
  ASSUME Basis, ReleaseInv, PublishTypeInv, AppliedInv, NEW c \in AdminCalls, ReloadApp(c)
  PROVE  AppliedInv'
<1> DEFINE old == adminCall[c]
           row == [content |-> app.content, status |-> "active"]
           k == [old EXCEPT !.row = row, !.channel = "published"]
<1>1. old \in Callish /\ Faces(old, "reload") /\ Ordered(old.todo) /\ Fits(old.todo)
      /\ InHand(old, Len(versions), release) /\ RowsThere
  BY Typing, AtNext DEF ReloadApp
<1>2. /\ versions' = versions /\ SameRequests(requests') /\ Proceed(c, k)
  BY DEF ReloadApp, Rows, SameRequests
<1>3. row \in Rowish
  BY Here DEF Rowish, AppStatuses
<1>4. row.status = "active"
  OBVIOUS
<1> HIDE DEF row
<1>5. /\ k \in Callish /\ k.todo = old.todo /\ k.row = row /\ k.channel = "published"
      /\ k.no = old.no /\ k.req = old.req
  BY <1>1, <1>3 DEF Callish, Channels
<1> HIDE DEF k
<1> QED
  BY <1>1, <1>2, <1>4, <1>5, PlainGoing

LEMMA OthersGo ==
  ASSUME Basis, ReleaseInv, AppliedInv, NEW c \in AdminCalls,
         \/ WriteApp(c) \/ CreateRelease(c) \/ PointRelease(c)
         \/ FetchLatest(c) \/ FetchFails(c) \/ AppendAudit(c) \/ AppendFails(c)
  PROVE  AppliedInv'
<1> DEFINE old == adminCall[c]
<1>1. old \in Callish
  BY Going
<1>2. /\ versions' = versions /\ requests' = requests /\ SameRequests(requests')
  BY DEF WriteApp, CreateRelease, PointRelease, FetchLatest, FetchFails, Fetched, AppendAudit,
         AppendFails, Rows, SameRequests
<1>3. ASSUME Quit(c) PROVE AppliedInv'
  BY <1>2, <1>3, QuitGoes
<1>4. ASSUME NEW access \in {"write", "create", "point", "chain"}, Faces(old, access), Proceed(c, old)
      PROVE  AppliedInv'
  BY <1>1, <1>2, <1>4, PlainGoing
<1>5. ASSUME NEW prev \in Nat, NEW forks, Faces(old, "fetch"), Fetched(c, prev, forks)
      PROVE  AppliedInv'
  <2> DEFINE k == [old EXCEPT !.prev = prev]
  <2>1. /\ k \in Callish /\ k.todo = old.todo /\ k.no = old.no /\ k.req = old.req
        /\ k.row = old.row /\ k.channel = old.channel
    BY <1>1 DEF Callish
  <2>2. Proceed(c, k)
    BY <1>5 DEF Fetched
  <2> HIDE DEF k
  <2> QED
    BY <1>2, <1>5, <2>1, <2>2, PlainGoing
<1>6. CASE WriteApp(c)
  BY <1>4, <1>6, AtNext DEF WriteApp, Pass
<1>7. CASE CreateRelease(c)
  BY <1>3, <1>4, <1>7, AtNext DEF CreateRelease, Pass
<1>8. CASE PointRelease(c)
  BY <1>4, <1>8, AtNext DEF PointRelease, Pass
<1>9. CASE FetchLatest(c)
  <2>1. Faces(old, "fetch")
    BY <1>9, AtNext DEF FetchLatest
  <2>2. Latest(c) \in Nat
    BY <2>1, Here, ReqId, LenProperties DEF Shape, Latest, Log
  <2> QED
    BY <1>5, <1>9, <2>1, <2>2 DEF FetchLatest
<1>10. CASE FetchFails(c)
  BY <1>5, <1>10, AtNext DEF FetchFails
<1>11. CASE AppendAudit(c) \/ AppendFails(c)
  BY <1>4, <1>11, AtNext DEF AppendAudit, AppendFails, Pass
<1> QED
  BY <1>6, <1>7, <1>8, <1>9, <1>10, <1>11

LEMMA InitApplied == PublishInit => AppliedInv
<1> SUFFICES ASSUME PublishInit PROVE AppliedInv
  OBVIOUS
<1>1. requests = <<>> /\ \A c \in AdminCalls : adminCall[c] = AdminIdle
  BY DEF PublishInit
<1>2. \A c \in AdminCalls : ~ToApply(adminCall[c])
  BY <1>1, IdleCall DEF ToApply
<1>3. Saying(requests, versions)
  BY <1>1 DEF Saying
<1> QED
  BY <1>2, <1>3 DEF AppliedInv, MadeByOne, Made, ToPublish, MadeFor

LEMMA NextApplied ==
  IInv /\ ReleaseInv /\ PublishTypeInv /\ AppliedInv /\ [PublishNext]_publishVars => AppliedInv'
<1> SUFFICES ASSUME IInv, ReleaseInv, PublishTypeInv, AppliedInv, [PublishNext]_publishVars
             PROVE  AppliedInv'
  OBVIOUS
<1>1. Basis /\ VersionsNumbered
  BY DEF IInv
<1>2. CASE UNCHANGED publishVars
  BY <1>2 DEF publishVars, AppliedInv, MadeByOne
<1>3. CASE PublishNext
  <2> PICK c \in AdminCalls : \/ PublishStart(c)
                              \/ PublishStep(c)
                              \/ AdminAborts(c) \/ FetchFails(c) \/ AppendFails(c)
    BY <1>3 DEF PublishNext
  <2>1. CASE PublishStart(c)
    BY <1>1, <2>1, StartGoes
  <2>2. CASE PublishStep(c)
    BY <1>1, <2>2, NumberGoes, InsertGoes, RequestGoes, DecideGoes, ReloadGoes, ApplyGoes, OthersGo
       DEF PublishStep
  <2>3. CASE AdminAborts(c)
    BY <1>1, <2>3, QuitGoes DEF AdminAborts, Rows
  <2>4. CASE FetchFails(c) \/ AppendFails(c)
    BY <1>1, <2>4, OthersGo
  <2> QED
    BY <2>1, <2>2, <2>3, <2>4
<1> QED
  BY <1>2, <1>3

\* A request that says applied names a version that its own review has recorded: published
\* and active, later than the requested one and of no other request, although the version is
\* numbered, inserted and written into the request by separate accesses, any of which may
\* fail, while other calls record versions and other reviews hold the same request.
THEOREM AppliedWasPublished == PublishSpec => []AppliedIsPublished
<1>1. AppliedInv => AppliedIsPublished
  <2> SUFFICES ASSUME AppliedInv, NEW r \in DOMAIN requests,
                      requests[r].status = "applied" \/ requests[r].applied # 0
               PROVE  /\ PublishedNo(requests[r].applied, versions)
                      /\ requests[r].version < requests[r].applied
                      /\ \A q \in DOMAIN requests \ {r} : requests[q].applied # requests[r].applied
    BY DEF AppliedIsPublished, PublishedNo
  <2> QED
    BY DEF AppliedInv, Saying
<1> QED
  BY <1>1, Invariant, InitReleased, NextReleased, InitTypes, NextTypes, InitApplied, NextApplied, PTL
     DEF PublishSpec
=============================================================================
