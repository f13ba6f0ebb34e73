-------------------------- MODULE EmailAccountSync --------------------------
(***************************************************************************)
(* The life of one EmailAccount row: the minutely scheduler, the Celery    *)
(* tasks that synchronise the mailbox, the web requests that change the    *)
(* account and the nightly clean-up, all working on the same row without a *)
(* lock or a transaction around read and write.                            *)
(*                                                                         *)
(* Every task and every request first loads the row into a snapshot (a     *)
(* Django model instance), then talks to Gmail, and writes later.  Two     *)
(* kinds of write exist and the difference is the heart of the module:     *)
(*   - save(update_fields=[...]) writes the named columns only and fails   *)
(*     when the row is gone                                   (SaveFields) *)
(*   - save() writes ALL columns of the snapshot, and inserts the row      *)
(*     again when it is gone                                     (SaveAll) *)
(*                                                                         *)
(* Abstracted: the content of the mailbox.  A change in the mailbox is its *)
(* history id; `handed' holds the ids for which a download or label task   *)
(* was created.  What those tasks do to messages is module MailboxMirror.  *)
(***************************************************************************)
EXTENDS Naturals

CONSTANTS
    Workers,          \* processes that run tasks and requests concurrently
    MaxSyncFailures,  \* settings.MAX_SYNC_FAILURES
    LastHistoryId,    \* bound: the mailbox changes at most this many times
    QueueBound,       \* bound: beat and the syncs add no task beyond so many
    Scenarios         \* what goes wrong, which web requests users make and how
                      \* often the mailbox changes, in one behaviour

FaultKinds == {"crash", "call", "token", "expiry", "broken_history"}
RequestKinds == {"patch", "reconnect", "destroy", "cleanup"}

ASSUME SyncAssumption ==
    /\ MaxSyncFailures \in Nat
    /\ LastHistoryId \in Nat
    /\ QueueBound \in Nat \ {0}
    /\ Scenarios \subseteq [faults : SUBSET FaultKinds,
                            requests : SUBSET RequestKinds,
                            changes : 1 .. LastHistoryId]

VARIABLES
    scenario, \* what happens in this behaviour, never changes
    row,      \* the EmailAccount row in the database
    token,    \* the OAuth credentials, see Refused and NoCredentials
    now,      \* Gmail: the mailbox's current history id
    oldest,   \* Gmail: the oldest history id it still answers for
    queue,    \* tasks waiting on the broker, counted per kind
    job,      \* what each worker is doing, with its snapshot of the row
    handed,   \* history ids of changes for which tasks have been created
    lost      \* history ids dropped by a worker that died while handing over

vars == <<scenario, row, token, now, oldest, queue, job, handed, lost>>
gmail == <<scenario, now, oldest>>
-----------------------------------------------------------------------------
NoHistory == 0
HistoryIds == NoHistory .. LastHistoryId
Changes == 1 .. LastHistoryId

Account == [exists : BOOLEAN, is_authorized : BOOLEAN, is_deleted : BOOLEAN,
            is_syncing : BOOLEAN, sync_failure_count : 0 .. MaxSyncFailures + 1,
            history_id : HistoryIds]

\* The row as OAuth2Callback creates it (model defaults, null history_id).
NewAccount == [exists |-> TRUE, is_authorized |-> FALSE, is_deleted |-> FALSE,
               is_syncing |-> FALSE, sync_failure_count |-> 0,
               history_id |-> NoHistory]
NoRow == [NewAccount EXCEPT !.exists = FALSE]

MessageTasks == {"message", "first_message"}
SyncTasks == {"full", "incremental", "finished", "labels"} \union MessageTasks
TaskKinds == SyncTasks \union {"purge"}
JobKinds == SyncTasks \union (RequestKinds \ {"cleanup"})

Steps == {"idle", "invalid", "refused", "mark", "profile", "list", "dispatch",
          "close", "store", "call", "count", "terminate", "unmark",
          "connect", "only_new", "authorize", "save"}

\* snap: the loaded model instance; next: GmailConnector.history_id;
\* covers: the changes the answer of Gmail told this job about.
Job == [kind : JobKinds \union {"none"}, step : Steps, snap : Account,
        next : HistoryIds, covers : SUBSET Changes]
Idle == [kind |-> "none", step |-> "idle", snap |-> NoRow,
         next |-> NoHistory, covers |-> {}]

FullSyncNeeded(a) ==
    (a.history_id = NoHistory \/ a.sync_failure_count > 0) /\ ~a.is_syncing

\* Beyond MAX_SYNC_FAILURES all counts behave alike, so the counter saturates.
Increment(n) == IF n > MaxSyncFailures THEN n ELSE n + 1

Enqueue(k) == queue' = [queue EXCEPT ![k] = @ + 1]

Become(w, j) == job' = [job EXCEPT ![w] = j]
Goto(w, step, snap) == Become(w, [job[w] EXCEPT !.step = step, !.snap = snap])
Finish(w) == Become(w, Idle)
SaveAll(snap) == row' = snap
-----------------------------------------------------------------------------
Init ==
    /\ scenario \in Scenarios
    /\ row \in {NewAccount, [NewAccount EXCEPT !.is_authorized = TRUE]}
    /\ token = "good"
    /\ now \in 1 .. scenario.changes
    /\ oldest = 1
    /\ queue = [k \in TaskKinds |-> 0]
    /\ job = [w \in Workers |-> Idle]
    /\ handed = {}
    /\ lost = {}

-----------------------------------------------------------------------------
(* Gmail and Google accounts.                                              *)

MailboxChanges ==
    /\ now < scenario.changes
    /\ now' = now + 1
    /\ UNCHANGED <<scenario, row, token, oldest, queue, job, handed, lost>>

HistoryExpires ==
    /\ "expiry" \in scenario.faults
    /\ oldest < now
    /\ oldest' = now
    /\ UNCHANGED <<scenario, row, token, now, queue, job, handed, lost>>

\* Google refuses to refresh the access token; the stored credentials learn of
\* it (become invalid) when the refresh is tried.  A removed account takes its
\* credentials along ("gone"), but running jobs hold a copy that still works.
Refused == token \in {"refused", "invalid"}
NoCredentials == token \in {"invalid", "gone"}

AccessRevoked ==
    /\ "token" \in scenario.faults
    /\ token = "good"
    /\ token' = "refused"
    /\ UNCHANGED <<row, gmail, queue, job, handed, lost>>

-----------------------------------------------------------------------------
(* Celery beat.                                                            *)

\* Mutant of Active: the soft delete is not looked at.
ActiveUnlessPurged(a) == a.exists /\ a.is_authorized

Active(a) == a.exists /\ a.is_authorized /\ ~a.is_deleted

\* The bound: beat pauses while the broker is that far behind.
Schedule(k) == queue[k] < QueueBound /\ Enqueue(k)

ScheduleSync ==
    /\ Active(row)
    /\ queue["finished"] < QueueBound
    /\ \/ FullSyncNeeded(row) /\ Schedule("full")
       \/ ~FullSyncNeeded(row) /\ ~row.is_syncing /\ Schedule("incremental")
    /\ UNCHANGED <<row, token, gmail, job, handed, lost>>

\* Mutant of ScheduleLabels: skips accounts that are syncing.
ScheduleLabelsWhenIdle ==
    /\ Active(row)
    /\ ~row.is_syncing
    /\ Schedule("labels")
    /\ UNCHANGED <<row, token, gmail, job, handed, lost>>

ScheduleLabels ==
    /\ Active(row)
    /\ Schedule("labels")
    /\ UNCHANGED <<row, token, gmail, job, handed, lost>>

ScheduleCleanup ==
    /\ "cleanup" \in scenario.requests
    /\ row.exists /\ row.is_deleted
    /\ Schedule("purge")
    /\ UNCHANGED <<row, token, gmail, job, handed, lost>>

-----------------------------------------------------------------------------
(* Taking a task from the broker: load the row, give up unless the account *)
(* is live and authorised, then build the GmailManager, which checks the   *)
(* stored credentials.                                                     *)

FirstStep(k) == CASE k = "full" -> "mark"
                  [] k = "finished" -> "unmark"
                  [] OTHER -> "call"

Start(w, k) ==
    /\ job[w].kind = "none"
    /\ queue[k] > 0
    /\ queue' = [queue EXCEPT ![k] = @ - 1]
    /\ IF Active(row)
       THEN Become(w, [Idle EXCEPT !.kind = k, !.snap = row,
                                   !.step = IF NoCredentials
                                            THEN "invalid" ELSE FirstStep(k)])
       ELSE UNCHANGED job
    /\ UNCHANGED <<row, token, gmail, handed, lost>>

\* self.retry of the message tasks, until their retries are used up.
RetryOrGiveUp(w) ==
    /\ Finish(w)
    /\ \/ job[w].kind \in MessageTasks /\ Enqueue(job[w].kind)
       \/ UNCHANGED queue

\* get_credentials found no valid credentials.
InvalidCredentials(w) ==
    /\ job[w].step = "invalid"
    /\ SaveAll([job[w].snap EXCEPT !.is_authorized = FALSE])
    /\ RetryOrGiveUp(w)
    /\ UNCHANGED <<token, gmail, handed, lost>>

\* execute_service_call: refreshing the access token is refused by Google.
TokenRefused(w) ==
    /\ job[w].step \in {"call", "profile", "list"}
    /\ Refused
    /\ token' = "invalid"
    /\ Goto(w, "refused", job[w].snap)
    /\ UNCHANGED <<row, gmail, queue, handed, lost>>

SaveRefused(w) ==
    /\ job[w].step = "refused"
    /\ SaveAll([job[w].snap EXCEPT !.is_authorized = FALSE,
                                   !.is_syncing = FALSE])
    /\ Finish(w)
    /\ UNCHANGED <<token, gmail, queue, handed, lost>>

\* execute_service_call gives up, or meets an error it does not know (among
\* them the 400 for a null startHistoryId).  The synchronise tasks swallow it.
CallFails(w) ==
    /\ job[w].step \in {"call", "profile", "list"}
    /\ ~Refused
    /\ \/ "call" \in scenario.faults
       \/ job[w].kind = "incremental" /\ job[w].snap.history_id = NoHistory
    /\ RetryOrGiveUp(w)
    /\ UNCHANGED <<row, token, gmail, handed, lost>>

\* A message or label-list task whose calls succeed; it leaves the row alone.
CallDone(w) ==
    /\ job[w].kind \in MessageTasks \union {"labels"}
    /\ job[w].step = "call"
    /\ ~Refused
    /\ Finish(w)
    /\ UNCHANGED <<row, token, gmail, queue, handed, lost>>

-----------------------------------------------------------------------------
(* incremental_synchronize_email_account: sync_by_history.                 *)

\* The changes that Gmail lists for a startHistoryId.
ListedSince(h) == h + 1 .. now

HistoryGone(a) == a.history_id < oldest \/ "broken_history" \in scenario.faults

HistoryListed(w) ==
    /\ job[w].kind = "incremental" /\ job[w].step = "call"
    /\ ~Refused
    /\ job[w].snap.history_id # NoHistory
    /\ IF HistoryGone(job[w].snap)
       THEN Goto(w, "count", job[w].snap)
       ELSE Become(w, [job[w] EXCEPT !.step = "store", !.next = now,
                         !.covers = ListedSince(job[w].snap.history_id)])
    /\ UNCHANGED <<row, token, gmail, queue, handed, lost>>

\* The 404 branch: one more failure, and above the limit a second save.
CountFailure(w) ==
    /\ job[w].step = "count"
    /\ LET counted == [job[w].snap EXCEPT !.sync_failure_count = Increment(@)]
       IN /\ SaveAll(counted)
          /\ IF counted.sync_failure_count > MaxSyncFailures
             THEN Goto(w, "terminate", counted)
             ELSE Finish(w)
    /\ UNCHANGED <<token, gmail, queue, handed, lost>>

TerminateSync(w) ==
    /\ job[w].step = "terminate"
    /\ SaveAll([job[w].snap EXCEPT !.is_authorized = FALSE,
                                   !.is_syncing = FALSE])
    /\ Finish(w)
    /\ UNCHANGED <<token, gmail, queue, handed, lost>>

\* save_history_id.  The incremental sync stores it before it creates the
\* tasks, the full sync afterwards.
StoreHistoryId(w) ==
    /\ job[w].step = "store"
    /\ IF row.exists
       THEN /\ row' = [row EXCEPT !.history_id = job[w].next]
            /\ IF job[w].kind = "incremental"
               THEN Goto(w, "dispatch",
                         [job[w].snap EXCEPT !.history_id = job[w].next])
               ELSE Finish(w)
       ELSE Finish(w) /\ UNCHANGED row
    /\ UNCHANGED <<token, gmail, queue, handed, lost>>

\* Tasks for messages: none when there is nothing to do, or up to the bound.
EnqueueSome(k) ==
    \/ UNCHANGED queue
    \/ \E n \in queue[k] + 1 .. QueueBound : queue' = [queue EXCEPT ![k] = n]

DispatchIncremental(w) ==
    /\ job[w].kind = "incremental" /\ job[w].step = "dispatch"
    /\ IF job[w].covers = {} THEN UNCHANGED queue ELSE EnqueueSome("message")
    /\ handed' = handed \union job[w].covers
    /\ Finish(w)
    /\ UNCHANGED <<row, token, gmail, lost>>

-----------------------------------------------------------------------------
(* full_synchronize_email_account and full_sync_finished.                  *)

\* Mutant of AdministerSyncStatus: the failure count is not reset.
AdministerWithoutReset(is_syncing) ==
    row' = [row EXCEPT !.is_syncing = is_syncing]

\* administer_sync_status: two columns only.
AdministerSyncStatus(is_syncing) ==
    row' = [row EXCEPT !.is_syncing = is_syncing, !.sync_failure_count = 0]

MarkSyncing(w) ==
    /\ job[w].step = "mark"
    /\ IF row.exists
       THEN /\ AdministerSyncStatus(TRUE)
            /\ Goto(w, "profile", [job[w].snap EXCEPT !.is_syncing = TRUE,
                                                      !.sync_failure_count = 0])
       ELSE Finish(w) /\ UNCHANGED row
    /\ UNCHANGED <<token, gmail, queue, handed, lost>>

\* Mutant of ReadProfile: keeps the id of the next change.
ReadProfileAhead(w) ==
    /\ job[w].step = "profile"
    /\ ~Refused
    /\ Become(w, [job[w] EXCEPT !.step = "list", !.next = now + 1])
    /\ UNCHANGED <<row, token, gmail, queue, handed, lost>>

\* get_all_message_id_list asks for the history id first, then for the list.
ReadProfile(w) ==
    /\ job[w].step = "profile"
    /\ ~Refused
    /\ Become(w, [job[w] EXCEPT !.step = "list", !.next = now])
    /\ UNCHANGED <<row, token, gmail, queue, handed, lost>>

\* Mutant of ListMessages: the history id is stored before the tasks are created.
ListAndStore(w) ==
    /\ job[w].step = "list"
    /\ ~Refused
    /\ Become(w, [job[w] EXCEPT !.step = "store", !.covers = 1 .. now])
    /\ UNCHANGED <<row, token, gmail, queue, handed, lost>>

ListMessages(w) ==
    /\ job[w].step = "list"
    /\ ~Refused
    /\ Become(w, [job[w] EXCEPT !.step = "dispatch", !.covers = 1 .. now])
    /\ UNCHANGED <<row, token, gmail, queue, handed, lost>>

DispatchFull(w) ==
    /\ job[w].kind = "full" /\ job[w].step = "dispatch"
    /\ EnqueueSome("first_message")
    /\ handed' = handed \union job[w].covers
    /\ Goto(w, "close", job[w].snap)
    /\ UNCHANGED <<row, token, gmail, lost>>

EnqueueFinished(w) ==
    /\ job[w].step = "close"
    /\ Enqueue("finished")
    /\ Goto(w, "store", job[w].snap)
    /\ UNCHANGED <<row, token, gmail, handed, lost>>

UnmarkSyncing(w) ==
    /\ job[w].step = "unmark"
    /\ IF row.exists THEN AdministerSyncStatus(FALSE) ELSE UNCHANGED row
    /\ Finish(w)
    /\ UNCHANGED <<token, gmail, queue, handed, lost>>

-----------------------------------------------------------------------------
(* Web requests: load, change the instance, save all columns.              *)

BeginRequest(w, k, step, snap) ==
    /\ k \in scenario.requests
    /\ job[w].kind = "none"
    /\ row.exists
    /\ Become(w, [Idle EXCEPT !.kind = k, !.step = step, !.snap = snap])
    /\ UNCHANGED <<row, token, gmail, queue, handed, lost>>

\* EmailAccountSerializer.update.  Without authorisation, or when the request
\* carries only_new, the stored credentials are checked and authorise; then the
\* instance is saved once more than otherwise.
Patch(w) ==
    /\ ~row.is_deleted
    /\ \/ /\ row.is_authorized
          /\ BeginRequest(w, "patch", "save", row)
       \/ /\ NoCredentials
          /\ BeginRequest(w, "patch", "invalid", row)
       \/ /\ ~NoCredentials
          /\ \E step \in {"authorize", "only_new"} :
               BeginRequest(w, "patch", step,
                            [row EXCEPT !.is_authorized = TRUE])

\* only_new = True: start the history at this moment, older changes by choice
\* never get a task.  When the call fails the instance stays unsaved.
SkipToPresent(w) ==
    /\ job[w].step = "only_new"
    /\ \/ /\ ~Refused
          /\ Become(w, [job[w] EXCEPT !.step = "authorize", !.covers = 1 .. now,
                          !.snap = [@ EXCEPT !.history_id = now,
                                             !.is_syncing = FALSE]])
          /\ UNCHANGED token
       \/ /\ Refused
          /\ token' = "invalid"
          /\ Finish(w)
       \/ /\ "call" \in scenario.faults
          /\ Finish(w)
          /\ UNCHANGED token
    /\ UNCHANGED <<row, gmail, queue, handed, lost>>

\* perform_destroy and cancel: a soft delete.
Destroy(w) ==
    /\ ~row.is_deleted \/ ~row.is_authorized
    /\ BeginRequest(w, "destroy", "save", [row EXCEPT !.is_deleted = TRUE])

\* OAuth2Callback finds the account, deleted or not, puts the new credentials
\* (which fails when the row is gone) and saves.
Reconnect(w) ==
    BeginRequest(w, "reconnect", "connect", [row EXCEPT !.is_deleted = FALSE])

PutCredentials(w) ==
    /\ job[w].step = "connect"
    /\ IF row.exists
       THEN token' = "good" /\ Goto(w, "save", job[w].snap)
       ELSE Finish(w) /\ UNCHANGED token
    /\ UNCHANGED <<row, gmail, queue, handed, lost>>

SaveRequest(w) ==
    /\ job[w].step \in {"authorize", "save"}
    /\ SaveAll(job[w].snap)
    /\ handed' = handed \union job[w].covers
    /\ IF job[w].step = "authorize"
       THEN Goto(w, "save", job[w].snap)
       ELSE Finish(w)
    /\ UNCHANGED <<token, gmail, queue, lost>>

-----------------------------------------------------------------------------
(* delete_email_account, its last round: the messages are gone, the row is *)
(* removed by primary key, without looking at is_deleted again.            *)

PurgeAccount ==
    /\ queue["purge"] > 0
    /\ queue' = [queue EXCEPT !["purge"] = @ - 1]
    /\ row' = NoRow
    /\ token' = "gone"
    /\ UNCHANGED <<gmail, job, handed, lost>>

-----------------------------------------------------------------------------
\* A worker is killed (time_limit, restart) or the broker refuses a task.  Of
\* the message tasks, the late-acknowledged ones are delivered again.
Crash(w) ==
    /\ "crash" \in scenario.faults
    /\ job[w].kind # "none"
    /\ RetryOrGiveUp(w)
    /\ lost' = IF job[w].kind = "incremental" /\ job[w].step = "dispatch"
               THEN lost \union job[w].covers ELSE lost
    /\ UNCHANGED <<row, token, gmail, handed>>

Step(w) ==
    \/ InvalidCredentials(w) \/ TokenRefused(w) \/ SaveRefused(w)
    \/ CallFails(w) \/ CallDone(w)
    \/ HistoryListed(w) \/ CountFailure(w) \/ TerminateSync(w)
    \/ StoreHistoryId(w) \/ DispatchIncremental(w)
    \/ MarkSyncing(w) \/ ReadProfile(w) \/ ListMessages(w)
    \/ DispatchFull(w) \/ EnqueueFinished(w) \/ UnmarkSyncing(w)
    \/ SkipToPresent(w) \/ PutCredentials(w) \/ SaveRequest(w)

Next ==
    \/ MailboxChanges \/ HistoryExpires \/ AccessRevoked
    \/ ScheduleSync \/ ScheduleLabels \/ ScheduleCleanup
    \/ PurgeAccount
    \/ \E w \in Workers :
         \/ \E k \in SyncTasks : Start(w, k)
         \/ Step(w)
         \/ Patch(w) \/ Destroy(w) \/ Reconnect(w)
         \/ Crash(w)

Spec == Init /\ [][Next]_vars

\* Beat keeps ticking, a running task keeps running, and the broker delivers
\* every task (queues are first-in first-out): users, faults and the mailbox
\* owe nothing.
Fairness ==
    /\ WF_vars(ScheduleSync) /\ WF_vars(ScheduleLabels)
    /\ \A w \in Workers : WF_vars(Step(w))
    /\ \A k \in SyncTasks : SF_vars(\E w \in Workers : Start(w, k))

FairSpec == Spec /\ Fairness

-----------------------------------------------------------------------------
\* The row, and the copies of it that workers and requests have loaded, hold what
\* the columns may hold; history ids are ids Gmail can give out.  (connector.py:270-275.)
TypeOK ==
    /\ scenario \in Scenarios
    /\ row \in Account
    /\ token \in {"good", "refused", "invalid", "gone"}
    /\ now \in Changes /\ oldest \in Changes
    /\ queue \in [TaskKinds -> Nat]
    /\ job \in [Workers -> Job]
    /\ handed \subseteq Changes
    /\ lost \subseteq Changes

\* An incremental sync claims changes by storing the history id; worker w has
\* done so for change c and is about to create the tasks.
HandingOver(w, c) ==
    /\ job[w].kind = "incremental" /\ job[w].step = "dispatch"
    /\ c \in job[w].covers

InCharge(c) == \/ c \in handed
               \/ c \in lost
               \/ \E w \in Workers : HandingOver(w, c)

\* Whatever tasks, requests, stale saves, crashes and failures do to the row,
\* its history id never points past a change nobody took charge of: every
\* change up to it got its tasks, is being handed over by a running
\* incremental sync, or was dropped by one that died at exactly that point.
\* (manager.py:80-87 and 139-196: when the history id may be stored.)
NoChangeSkipped == \A c \in 1 .. row.history_id : InCharge(c)

\* What worker w will ever write as history id is accounted for as well: its
\* snapshot, and the id it read from Gmail, at every step of the sync.
Backed(w) ==
    LET j == job[w] IN
    /\ \A c \in 1 .. j.snap.history_id :
         InCharge(c) \/ (j.step \in {"authorize", "save"} /\ c \in j.covers)
    /\ j.step \in {"mark", "profile", "list", "close"} => j.kind = "full"
    /\ j.step \in {"store", "dispatch"} => j.kind \in {"full", "incremental"}
    /\ j.step = "list" => j.next <= now
    /\ j.step = "dispatch" /\ j.kind = "full" => 1 .. j.next \subseteq j.covers
    /\ j.step = "close" => 1 .. j.next \subseteq handed
    /\ j.step = "store" /\ j.kind = "full" => 1 .. j.next \subseteq handed
    /\ j.step = "store" /\ j.kind = "incremental" =>
         j.covers = j.snap.history_id + 1 .. j.next

\* The inductive strengthening of NoChangeSkipped.
HistoryInv == NoChangeSkipped /\ \A w \in Workers : Backed(w)

\* is_syncing is up only while something will take it down again: a full sync on its
\* way to full_sync_finished, that task waiting, or that task running.  The scheduler
\* takes the flag at its word and leaves a syncing account alone.
\* (models.py:105-109 reads is_syncing as "busy syncing already".)
SyncingMeansBusy ==
    row.exists /\ row.is_syncing =>
        \/ queue["finished"] > 0
        \/ \E w \in Workers : job[w].kind \in {"full", "finished"}

\* A deleted account is not synchronised any more once the tasks and requests
\* that had loaded it before are through, unless somebody may reconnect it:
\* nothing started later takes it up, and no late write revives it.
\* (tasks.py:22-229 and api/views.py:92-97, against the stale saves.)
DeletedIsLeftAlone ==
    "reconnect" \notin scenario.requests =>
        []((row.is_deleted /\ \A w \in Workers : job[w].kind = "none")
               => [](\A w \in Workers : job[w].kind \notin SyncTasks))

\* Credentials that Google refuses end up switching the account off, whatever
\* the user saves meanwhile and even if a failed full sync left it stuck in
\* is_syncing, because the label schedule does not look at that flag.
\* (credentials.py:18-19, connector.py:121-128, tasks.py:43-51.)
RevokedIsNoticed ==
    "crash" \notin scenario.faults => (Refused ~> ~Refused \/ ~Active(row))

\* While nobody touches the account, the scheduler brings it up to date with
\* the mailbox and leaves it there, through history ids that expire on the way.
\* (manager.py:124-126, tasks.py:17-40.)
CatchesUp ==
    scenario.faults \subseteq {"expiry"} /\ scenario.requests = {} =>
        <>[](Active(row) => row.history_id = now /\ ~row.is_syncing)

\* An account whose history cannot be listed even after full syncs is
\* switched off.  (manager.py:129-134.)
BrokenHistoryIsTerminated == Active(row) ~> ~Active(row)

=============================================================================
