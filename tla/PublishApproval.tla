-------------------------- MODULE PublishApproval --------------------------
(***************************************************************************)
(* The lifecycle of one mini-app in the admin API of the host app: saving, *)
(* publishing directly or by request and review, changing the status,      *)
(* rolling back, and the hash-chained audit log of every publish request.  *)
(*                                                                         *)
(* The handlers run concurrently without transactions: each makes a fixed  *)
(* list of database accesses, and `todo' holds those that a call has still *)
(* to make, so that one action is one access.  Apps share no rows.  The    *)
(* release history, which is only ever inserted into, and everything that  *)
(* is answered before a write are left out; a row's content stands for its *)
(* manifest, and an audit row names the place of the row its prev_hash is  *)
(* taken from, 0 for none, in the place of the hash.                       *)
(***************************************************************************)
EXTENDS Integers, Sequences, FiniteSetsExt

CONSTANTS
  Contents,       \* manifests
  Admins, ApiKey, \* actors: wallets, and the shared API key
  Reviewers,
  GatedPublish,   \* MINIAPP_PUBLISH_APPROVAL_REQUIRED
  AdminCalls,     \* calls in progress
  MaxAdminCalls,  \* bound on the calls made in all
  MaxAdminFaults  \* bound on faults

ASSUME PublishAssumption ==
  /\ GatedPublish \in BOOLEAN
  /\ ApiKey \in Admins /\ Reviewers \subseteq Admins
  /\ {MaxAdminCalls, MaxAdminFaults} \subseteq Nat

VARIABLES
  app,         \* the row of miniapps
  versions,    \* miniapp_versions
  release,     \* the row of miniapp_releases
  requests,    \* miniapp_publish_requests
  audit,       \* miniapp_publish_request_audit, by request
  adminCall,
  begun,       \* number of calls made
  past,        \* history: what calls have met
  adminFaults

publishVars == <<app, versions, release, requests, audit, adminCall, begun, past, adminFaults>>

NoRow == [content |-> "none", status |-> "none"]
AppStatuses == {"active", "pending", "disabled"}
AppRow == [content : Contents, status : AppStatuses] \cup {NoRow}
Channels == {"draft", "published"}
ChannelOf(status) == IF status = "active" THEN "published" ELSE "draft"
VersionNo == 1..(MaxAdminCalls + 1)
Version == [no : VersionNo, channel : Channels, row : AppRow]

\* The heads of the channels, 0 for none.
NoRelease == [draft |-> -1, published |-> -1]
ReleaseRow == [Channels -> VersionNo \cup {0}] \cup {NoRelease}

RequestId == 1..MaxAdminCalls
Decisions == {"approved", "rejected", "cancelled"}
RequestStatuses == {"pending", "applied"} \cup Decisions
Request == [status : RequestStatuses, by : Admins, version : VersionNo, applied : VersionNo \cup {0}]
Events == {"request_created", "reminder_sent", "request_applied"} \cup Decisions
AuditRow == [event : Events, actor : Admins, prev : Nat]

Accesses == {"write", "create", "number", "insert", "point", "request",
             "decide", "reload", "apply", "fetch", "chain"}

\* row: what is written; channel: where the version is released; no: its
\* number; req: the publish request; decision: of a review; event: what is
\* audited; prev: the last audit row that was read.
AdminIdle ==
  [todo |-> <<>>, actor |-> ApiKey, row |-> NoRow, channel |-> "draft", no |-> 0, req |-> 0,
   decision |-> "none", event |-> "request_created", prev |-> 0]
AdminRecord ==
  [todo : Seq(Accesses), actor : Admins, row : AppRow, channel : Channels, no : VersionNo \cup {0},
   req : 0..MaxAdminCalls, decision : Decisions \cup {"none"}, event : Events, prev : Nat]

PublishTypeOK ==
  /\ app \in AppRow
  /\ versions \in Seq(Version)
  /\ release \in ReleaseRow
  /\ requests \in Seq(Request) /\ Len(requests) <= MaxAdminCalls
  /\ audit \in [RequestId -> Seq(AuditRow)]
  /\ adminCall \in [AdminCalls -> AdminRecord]
  /\ past \in [mixed : BOOLEAN, contested : SUBSET RequestId, forked : SUBSET RequestId,
               abandoned : SUBSET RequestId]
  /\ begun \in 0..MaxAdminCalls /\ adminFaults \in 0..MaxAdminFaults

\* The app is new, or has been saved as a draft.
PublishInit ==
  /\ app \in {NoRow} \cup {row \in AppRow : row.status = "pending"}
  /\ versions = IF app = NoRow THEN <<>> ELSE <<[no |-> 1, channel |-> "draft", row |-> app]>>
  /\ release = IF app = NoRow THEN NoRelease ELSE [draft |-> 1, published |-> 0]
  /\ requests = <<>>
  /\ audit = [r \in RequestId |-> <<>>]
  /\ adminCall = [c \in AdminCalls |-> AdminIdle]
  /\ past = [mixed |-> FALSE, contested |-> {}, forked |-> {}, abandoned |-> {}]
  /\ begun = 0 /\ adminFaults = 0

-----------------------------------------------------------------------------
\* Calls and their accesses.

Does(call, S) == \E i \in DOMAIN call.todo : call.todo[i] \in S
Releases(call) == Does(call, {"write", "point"})
Reviewing(call) == IF call.todo # <<>> /\ call.decision # "none" THEN {call.req} ELSE {}

\* mixed: two calls that change the app have overlapped; contested: requests
\* that two reviews have held at once.
Begin(c, call) ==
  LET others == {adminCall[d] : d \in AdminCalls \ {c}}
  IN  /\ adminCall[c].todo = <<>>
      /\ begun < MaxAdminCalls /\ begun' = begun + 1
      /\ adminCall' = [adminCall EXCEPT ![c] = call]
      /\ past' =
           [past EXCEPT
              !.mixed = @ \/ (Releases(call) /\ \E d \in others : Releases(d)),
              !.contested = @ \cup {r \in Reviewing(call) : \E d \in others : r \in Reviewing(d)}]
      /\ UNCHANGED <<app, versions, release, requests, audit, adminFaults>>

At(c, access) == adminCall[c].todo # <<>> /\ Head(adminCall[c].todo) = access

Proceed(c, call) ==
  /\ adminCall' = [adminCall EXCEPT ![c] = IF Len(call.todo) = 1 THEN AdminIdle
                                           ELSE [call EXCEPT !.todo = Tail(@)]]
  /\ UNCHANGED begun
Pass(c) == Proceed(c, adminCall[c]) /\ UNCHANGED <<past, adminFaults>>

\* The call ends with an error; abandoned: requests whose review has so ended.
Quit(c) ==
  /\ adminCall' = [adminCall EXCEPT ![c] = AdminIdle]
  /\ past' = [past EXCEPT
                !.mixed = @ \/ Releases(adminCall[c]),
                !.abandoned = @ \cup Reviewing(adminCall[c])]
  /\ UNCHANGED begun

Rows == <<app, versions, release, requests, audit>>

\* An access fails, or its answer is lost, or the process stops.
AdminAborts(c) ==
  /\ adminCall[c].todo # <<>>
  /\ adminFaults < MaxAdminFaults /\ adminFaults' = adminFaults + 1
  /\ Quit(c)
  /\ UNCHANGED Rows

-----------------------------------------------------------------------------
\* The handlers.  An action publishes, saves a draft or disables.

Recording == <<"number", "insert", "point">>
Auditing == <<"fetch", "chain">>

Saving(row, channel) ==
  [AdminIdle EXCEPT !.todo = <<"write">> \o Recording, !.row = row, !.channel = channel]

\* upsert, when it needs no approval or publish_override is set; the items of
\* import-batch, which ask for none.
Upsert(c, row) == Begin(c, Saving(row, ChannelOf(row.status)))

NonePending == \A r \in DOMAIN requests : requests[r].status # "pending"

\* upsert of a publish that needs approval.
AskToPublish(c, a, content) ==
  /\ GatedPublish
  /\ NonePending
  /\ Begin(c, [AdminIdle EXCEPT !.todo = Recording \o <<"request">> \o Auditing, !.actor = a,
                                !.row = [content |-> content, status |-> "pending"]])

\* status, and import-batch-rollback of an app that the batch has created: the
\* manifest is read and written back.
SetStatus(c, status) ==
  /\ app # NoRow
  /\ Begin(c, Saving([content |-> app.content, status |-> status], ChannelOf(status)))

\* mutant: the snapshot keeps its status on either channel
RollbackStatusKept(row, channel) == row.status
RollbackStatus(row, channel) ==
  IF channel = "draft" THEN "pending" ELSE IF row.status = "disabled" THEN "disabled" ELSE "active"

\* rollback, and import-batch-rollback: the version is recorded first.
Rollback(c, i, channel) ==
  /\ Begin(c, [AdminIdle EXCEPT
                 !.todo = Recording \o <<"write">>, !.channel = channel,
                 !.row = [versions[i].row EXCEPT !.status = RollbackStatus(versions[i].row, channel)]])

\* mutant: a request that has been decided is reviewed again
ReviewableAny(r) == TRUE
Reviewable(r) == requests[r].status = "pending"

\* mutant: the request is marked as applied before its version is recorded
ApprovingEarly == <<"reload", "write", "apply">> \o Recording \o Auditing
\* mutant: the request is never marked as applied
ApprovingUnmarked == <<"reload", "write">> \o Recording \o Auditing
Approving == <<"reload", "write">> \o Recording \o <<"apply">> \o Auditing

\* publish-requests: no one reviews a request of their own.
MayReview(a, r) ==
  /\ a \in Reviewers
  /\ a # requests[r].by \/ a = ApiKey

Review(c, a, r, decision) ==
  /\ Reviewable(r)
  /\ MayReview(a, r)
  /\ Begin(c, [AdminIdle EXCEPT
                 !.todo = <<"decide">> \o Auditing
                          \o (IF decision = "approved" THEN Approving ELSE <<>>),
                 !.actor = a, !.req = r, !.decision = decision])

\* publish-reminders.
Remind(c, a, r) ==
  /\ requests[r].status = "pending"
  /\ Begin(c, [AdminIdle EXCEPT !.todo = Auditing, !.actor = a, !.req = r,
                                !.event = "reminder_sent"])

-----------------------------------------------------------------------------
\* Writing the app and recordMiniAppVersion.

WriteApp(c) ==
  /\ At(c, "write")
  /\ app' = adminCall[c].row
  /\ Pass(c)
  /\ UNCHANGED <<versions, release, requests, audit>>

\* The app has no row yet, or another call has made its release row.
CreateRelease(c) ==
  /\ At(c, "create")
  /\ IF app = NoRow \/ release # NoRelease
     THEN Quit(c) /\ UNCHANGED <<release, adminFaults>>
     ELSE release' = [draft |-> 0, published |-> 0] /\ Pass(c)
  /\ UNCHANGED <<app, versions, requests, audit>>

Numbers == {versions[i].no : i \in DOMAIN versions}

\* A release row that is not there is made first, which no call takes back.
NextVersionNo(c) ==
  /\ At(c, "number")
  /\ Proceed(c, IF release = NoRelease
                THEN [adminCall[c] EXCEPT !.todo = <<"number", "create">> \o @]
                ELSE [adminCall[c] EXCEPT !.no = Max(Numbers \cup {0}) + 1])
  /\ UNCHANGED <<Rows, past, adminFaults>>

\* mutant: there is no unique index on the number
TakenNever(no) == FALSE
Taken(no) == no \in Numbers

InsertVersion(c) ==
  /\ At(c, "insert")
  /\ IF Taken(adminCall[c].no)
     THEN Quit(c) /\ UNCHANGED <<versions, adminFaults>>
     ELSE /\ versions' = Append(versions, [no |-> adminCall[c].no, row |-> adminCall[c].row,
                                           channel |-> adminCall[c].channel])
          /\ Pass(c)
  /\ UNCHANGED <<app, release, requests, audit>>

PointRelease(c) ==
  /\ At(c, "point")
  /\ release' = [release EXCEPT ![adminCall[c].channel] = adminCall[c].no]
  /\ Pass(c)
  /\ UNCHANGED <<app, versions, requests, audit>>

-----------------------------------------------------------------------------
\* Publish requests.

\* uq_miniapp_publish_requests_pending_app
CreateRequest(c) ==
  /\ At(c, "request")
  /\ IF NonePending
     THEN /\ requests' = Append(requests, [status |-> "pending", by |-> adminCall[c].actor,
                                           version |-> adminCall[c].no, applied |-> 0])
          /\ Proceed(c, [adminCall[c] EXCEPT !.req = Len(requests) + 1])
          /\ UNCHANGED past
     ELSE Quit(c) /\ UNCHANGED requests
  /\ UNCHANGED <<app, versions, release, audit, adminFaults>>

\* By the id alone, whatever the status is by now.
Decide(c) ==
  /\ At(c, "decide")
  /\ requests' = [requests EXCEPT ![adminCall[c].req].status = adminCall[c].decision]
  /\ Proceed(c, [adminCall[c] EXCEPT !.event = adminCall[c].decision])
  /\ UNCHANGED <<app, versions, release, audit, past, adminFaults>>

\* What is published is the row as it is now.
ReloadApp(c) ==
  /\ At(c, "reload")
  /\ Proceed(c, [adminCall[c] EXCEPT !.row = [content |-> app.content, status |-> "active"],
                                     !.channel = "published"])
  /\ UNCHANGED <<Rows, past, adminFaults>>

Apply(c) ==
  /\ At(c, "apply")
  /\ requests' = [requests EXCEPT ![adminCall[c].req].status = "applied",
                                  ![adminCall[c].req].applied = adminCall[c].no]
  /\ Proceed(c, [adminCall[c] EXCEPT !.event = "request_applied"])
  /\ UNCHANGED <<app, versions, release, audit, past, adminFaults>>

-----------------------------------------------------------------------------
\* appendPublishApprovalAuditEvent: errors are logged, and the handler goes on.

Log(c) == audit[adminCall[c].req]

\* mutant: the log is read before the first event only
LatestOnce(c) == IF adminCall[c].prev = 0 THEN Len(Log(c)) ELSE adminCall[c].prev
Latest(c) == Len(Log(c))

\* forked: logs to which two calls append at once, or whose head was not found.
Fetched(c, prev, forks) ==
  /\ Proceed(c, [adminCall[c] EXCEPT !.prev = prev])
  /\ past' = [past EXCEPT !.forked = IF forks THEN @ \cup {adminCall[c].req} ELSE @]
  /\ UNCHANGED Rows

FetchLatest(c) ==
  /\ At(c, "fetch")
  /\ Fetched(c, Latest(c), \E d \in AdminCalls : At(d, "chain") /\ adminCall[d].req = adminCall[c].req)
  /\ UNCHANGED adminFaults

FetchFails(c) ==
  /\ At(c, "fetch")
  /\ adminFaults < MaxAdminFaults /\ adminFaults' = adminFaults + 1
  /\ Fetched(c, 0, TRUE)

\* Two rows with one hash are refused by an index.
AppendAudit(c) ==
  LET entry == [event |-> adminCall[c].event, actor |-> adminCall[c].actor, prev |-> adminCall[c].prev]
  IN  /\ At(c, "chain")
      /\ audit' = IF \E i \in DOMAIN Log(c) : Log(c)[i] = entry THEN audit
                  ELSE [audit EXCEPT ![adminCall[c].req] = Append(@, entry)]
      /\ Pass(c)
      /\ UNCHANGED <<app, versions, release, requests>>

AppendFails(c) ==
  /\ At(c, "chain")
  /\ adminFaults < MaxAdminFaults /\ adminFaults' = adminFaults + 1
  /\ Proceed(c, adminCall[c])
  /\ UNCHANGED <<Rows, past>>

-----------------------------------------------------------------------------
PublishStart(c) ==
  \/ \E row \in AppRow \ {NoRow} : Upsert(c, row)
  \/ \E a \in Admins, content \in Contents : AskToPublish(c, a, content)
  \/ \E status \in AppStatuses : SetStatus(c, status)
  \/ \E i \in DOMAIN versions, channel \in Channels : Rollback(c, i, channel)
  \/ \E a \in Admins, r \in DOMAIN requests :
       Remind(c, a, r) \/ \E d \in Decisions : Review(c, a, r, d)

PublishStep(c) ==
  \/ WriteApp(c)
  \/ CreateRelease(c) \/ NextVersionNo(c) \/ InsertVersion(c) \/ PointRelease(c)
  \/ CreateRequest(c) \/ Decide(c) \/ ReloadApp(c) \/ Apply(c)
  \/ FetchLatest(c) \/ AppendAudit(c)

PublishNext ==
  \E c \in AdminCalls :
    \/ PublishStart(c)
    \/ PublishStep(c)
    \/ AdminAborts(c) \/ FetchFails(c) \/ AppendFails(c)

PublishSpec == PublishInit /\ [][PublishNext]_publishVars

-----------------------------------------------------------------------------
\* Correctness.

\* "version_no (monotonic per app)" (docs/MINIAPP_VERSIONING_MODEL.md:23):
\* although the next number is read long before it is used, versions are
\* numbered in the order in which they are made, without gaps.
VersionsNumbered == \A i \in DOMAIN versions : versions[i].no = i

Quiet == \A c \in AdminCalls : adminCall[c].todo = <<>>

\* An active app is what its published version says, whichever way it became
\* active, unless calls that change it have overlapped or failed half way.
ActiveIsReleased ==
  Quiet /\ app.status = "active" /\ ~past.mixed =>
    \E i \in DOMAIN versions : versions[i].no = release.published /\ versions[i].row = app

\* A decision on a publish request is final and only an approval is applied,
\* unless two reviews have held the request at once.
DecidedOnce ==
  [][\A r \in DOMAIN requests \ past.contested :
       requests'[r].status # requests[r].status =>
         \/ requests[r].status = "pending" /\ requests'[r].status \in Decisions
         \/ requests[r].status = "approved" /\ requests'[r].status = "applied"]_publishVars

\* An approved request is being applied, and will not be left approved by any
\* order of calls, only by a failure in the middle of its review.
ApprovedMeansApplying ==
  \A r \in DOMAIN requests :
    requests[r].status = "approved" =>
      \/ r \in past.contested \cup past.abandoned
      \/ \E c \in AdminCalls : r \in Reviewing(adminCall[c])

\* A request that says applied names a version that its own review has recorded:
\* published and active, later than the requested one, and of no other request.  No
\* failure half way and no review that overlaps makes a request say so too early.
AppliedIsPublished ==
  \A r \in DOMAIN requests :
    requests[r].status = "applied" \/ requests[r].applied # 0 =>
      /\ \E i \in DOMAIN versions :
           /\ versions[i].no = requests[r].applied
           /\ versions[i].channel = "published" /\ versions[i].row.status = "active"
      /\ requests[r].version < requests[r].applied
      /\ \A q \in DOMAIN requests \ {r} : requests[q].applied # requests[r].applied

\* verifyPublishApprovalAuditChain accepts every audit log that no two calls
\* have appended to at once, whatever else overlaps or fails.
AuditVerifies ==
  \A r \in RequestId \ past.forked : \A i \in DOMAIN audit[r] : audit[r][i].prev = i - 1

\* "reviewer approval endpoint applies final publish" of the draft snapshot
\* that was stored for the request (docs/MINIAPP_VERSIONING_MODEL.md:130-132).
\* It does not hold: approval publishes the app as it was before.
ApprovalPublishesRequest ==
  \A r \in DOMAIN requests :
    requests[r].status = "applied" =>
      versions[requests[r].applied].row.content = versions[requests[r].version].row.content
=============================================================================
