---------------------------- MODULE MailboxMirror ----------------------------
(***************************************************************************)
(* The local copy of one Gmail mailbox: EmailMessage rows with their       *)
(* labels and read flag, kept up to date by tasks that download a message, *)
(* update its labels or carry a user's change to Gmail, and by the two     *)
(* kinds of synchronisation, which create those tasks and delete rows.     *)
(*                                                                         *)
(* No task holds a lock, and only the replacement of a row's labels is a   *)
(* transaction.  Every call to Gmail and every group of statements on the  *)
(* database between two calls that another task could tell apart is an     *)
(* action.  Which sync runs when, and the account row, are the business of *)
(* EmailAccountSync; here a sync may start at any time.                    *)
(*                                                                         *)
(* Abstracted: the content of a message (a message that can be parsed has  *)
(* a date and a sender), threads, drafts, attachments, and the list of     *)
(* labels (every label has its EmailLabel row).                            *)
(***************************************************************************)
EXTENDS Naturals, Sequences, FiniteSets
LOCAL INSTANCE FiniteSetsExt

CONSTANTS
    Messages,      \* Gmail message ids
    Labels,        \* Gmail label ids, Unread and Trash among them
    Unread, Trash,
    UserChanges,   \* label changes users ask for
    Workers,       \* processes that run tasks and requests concurrently
    RowIds,        \* bound: primary keys of EmailMessage rows
    MaxHistory,    \* bound: changes in the mailbox
    MaxSyncs,      \* bound: synchronisations of both kinds
    Faults         \* what goes wrong in this instance

Change == [add : SUBSET Labels, remove : SUBSET Labels]
MarkRead == [add |-> {}, remove |-> {Unread}]
MarkUnread == [add |-> {Unread}, remove |-> {}]
ReadChanges == {MarkRead, MarkUnread}

ASSUME MirrorAssumption ==
    /\ {Unread, Trash} \subseteq Labels
    /\ UserChanges \subseteq Change
    /\ 0 \notin RowIds
    /\ MaxHistory \in Nat
    /\ MaxSyncs \in Nat
    /\ Faults \subseteq {"crash", "call", "revoked"}

VARIABLES
    sort,     \* Gmail: what each message is, never changes
    remote,   \* Gmail: the messages
    log,      \* Gmail: the history of the mailbox
    synced,   \* EmailAccount.history_id
    rows,     \* EmailMessage: primary key -> row
    noEmail,  \* NoEmailMessageId: ids that are skipped by a full sync
    tasks,    \* tasks waiting on the broker, counted
    dropped,  \* messages whose task was given up, or never sent, without a row
    disturbed,  \* messages two jobs worked on at a time, or one gave up on
    skipped,  \* messages whose deletion a sync jumped over or died with
    syncs,    \* how many synchronisations have begun
    job       \* what each worker is doing

vars == <<sort, remote, log, synced, rows, noEmail, tasks, dropped,
          disturbed, skipped, syncs, job>>
gmail == <<sort, remote, log>>
database == <<synced, rows, noEmail>>
broker == <<tasks, dropped, disturbed>>
marks == <<skipped, syncs>>
-----------------------------------------------------------------------------
\* "undated": it has no Date or no From header, as some drafts and notes.
Sorts == {"mail", "undated", "chat"}
Status == {"unborn", "there", "gone"}
\* "unlabelled": added, as a message that has no label (an archived mail).
HistoryItem ==
    [what : {"added", "unlabelled", "labels", "deleted"}, msg : Messages]

NoKey == 0
Row == [msg : Messages, labels : SUBSET Labels, read : BOOLEAN]
NoRow == [msg |-> "none"]

MirrorTask == [kind : {"download", "update"}, msg : Messages]
LabelTask ==
    [kind : {"read"}, row : RowIds, change : UserChanges \intersect ReadChanges]
      \union
    [kind : {"labels"}, row : RowIds, change : UserChanges \ ReadChanges]
TrashTask == [kind : {"trash"}, row : RowIds]
Task == MirrorTask \union LabelTask \union TrashTask
Errand == MirrorTask \union [kind : {"delete"}, msg : Messages]
Other == [kind : {"none", "incremental", "full", "patch"}]

Steps == {"idle", "exists", "get", "fetch", "short", "compare", "build",
          "insert", "labels", "save",
          "info", "modify", "unlabel", "relabel", "trash", "patch",
          "history", "apply", "carry", "profile", "list", "look", "send"}

\* msg, row: the message and the key of the loaded instance; read: its flag;
\* full: the whole message was fetched, not only its labels; seen: the labels
\* Gmail answered with; upto, listed: the history id and the message list;
\* todo: what a sync has still to do about single messages.
Job == [task : Task \union Other, step : Steps, msg : Messages \union {"none"},
        row : RowIds \union {NoKey}, read : BOOLEAN, full : BOOLEAN,
        seen : SUBSET Labels, from : Nat, upto : Nat, listed : SUBSET Messages,
        todo : SUBSET Errand, change : Change]
NoChange == [add |-> {}, remove |-> {}]
Idle == [task |-> [kind |-> "none"], step |-> "idle", msg |-> "none",
         row |-> NoKey, read |-> FALSE, full |-> FALSE, seen |-> {},
         from |-> 0, upto |-> 0, listed |-> {}, todo |-> {},
         change |-> NoChange]

IsIdle(w) == job[w].step = "idle"
Become(w, j) == job' = [job EXCEPT ![w] = j]
Goto(w, step) == Become(w, [job[w] EXCEPT !.step = step])
Finish(w) == Become(w, Idle)
Enqueue(S) == tasks' = [t \in Task |-> IF t \in S THEN tasks[t] + 1 ELSE tasks[t]]

Exists(r) == r \in RowIds /\ rows[r] # NoRow
Mirror(m, ls) == [msg |-> m, labels |-> ls, read |-> Unread \notin ls]
RowsOf(m) == {r \in RowIds : rows[r] # NoRow /\ rows[r].msg = m}
Download(m) == [kind |-> "download", msg |-> m]
Update(m) == [kind |-> "update", msg |-> m]
Deletion(m) == [kind |-> "delete", msg |-> m]

\* A primary key that no row has and nobody remembers.
Fresh(r) ==
    /\ rows[r] = NoRow
    /\ \A w \in Workers : job[w].row # r
    /\ \A t \in LabelTask \union TrashTask : tasks[t] > 0 => t.row # r
FreshKey == CHOOSE r \in RowIds : Fresh(r)
-----------------------------------------------------------------------------
\* A mailbox in which key[m] is the row of a mail that was there before the
\* history begins.
Init ==
    /\ sort \in [Messages -> Sorts]
    /\ \E key \in [Messages -> RowIds \union {NoKey}],
          ls \in [Messages -> SUBSET Labels] :
         LET stored == {m \in Messages : key[m] # NoKey} IN
         /\ \A m \in stored : sort[m] = "mail"
         /\ \A m, n \in stored : key[m] = key[n] => m = n
         /\ remote = [m \in Messages |->
                        IF m \in stored
                        THEN [status |-> "there", labels |-> ls[m]]
                        ELSE [status |-> "unborn", labels |-> {}]]
         /\ rows \in [RowIds -> {NoRow} \union {Mirror(m, ls[m]) : m \in stored}]
         /\ \A r \in RowIds, m \in stored :
                (rows[r] # NoRow /\ rows[r].msg = m) <=> key[m] = r
    /\ log = <<>>
    /\ synced = 0
    /\ noEmail = {}
    /\ tasks = [t \in Task |-> 0]
    /\ dropped = {}
    /\ disturbed = {}
    /\ skipped = {}
    /\ syncs = 0
    /\ job = [w \in Workers |-> Idle]

-----------------------------------------------------------------------------
(* Gmail.                                                                  *)

UserTasksUnderWay ==
    MapThenSumSet(LAMBDA t : tasks[t], LabelTask \union TrashTask)
        + Cardinality({w \in Workers : job[w].task.kind \in
                                         {"read", "labels", "trash", "patch"}})

\* The bound: leave room in the history for the changes Lily makes itself.
Room == Len(log) + UserTasksUnderWay < MaxHistory

Logged(what, m) == log' = Append(log, [what |-> what, msg |-> m])

SetLabels(m, ls) ==
    /\ remote' = [remote EXCEPT ![m].labels = ls]
    /\ IF ls = remote[m].labels THEN UNCHANGED log ELSE Logged("labels", m)

Delete(m) ==
    /\ remote' = [remote EXCEPT ![m] = [status |-> "gone", labels |-> {}]]
    /\ Logged("deleted", m)

Arrive(m, ls) ==
    /\ Room
    /\ remote[m].status = "unborn"
    /\ remote' = [remote EXCEPT ![m] = [status |-> "there", labels |-> ls]]
    /\ Logged(IF ls = {} THEN "unlabelled" ELSE "added", m)
    /\ UNCHANGED <<sort, database, broker, marks, job>>

Relabel(m, ls) ==
    /\ Room
    /\ remote[m].status = "there"
    /\ ls # remote[m].labels
    /\ SetLabels(m, ls)
    /\ UNCHANGED <<sort, database, broker, marks, job>>

Vanish(m) ==
    /\ Room
    /\ remote[m].status = "there"
    /\ Delete(m)
    /\ UNCHANGED <<sort, database, broker, marks, job>>

There(w) == remote[job[w].msg].status = "there"
-----------------------------------------------------------------------------
(* How tasks begin and end.                                                *)

\* A message task that ends for good while its message has no row.
WithoutRow(S) == {m \in S : RowsOf(m) = {}}
GivenUp(t) == WithoutRow(IF t \in MirrorTask THEN {t.msg} ELSE {})

Disturb(S) == disturbed' = disturbed \union (S \intersect Messages)

GiveUp(w) ==
    /\ Finish(w)
    /\ dropped' = dropped \union GivenUp(job[w].task)
    /\ Disturb({job[w].msg})
    /\ UNCHANGED tasks

\* self.retry, until the retries are used up.
Retry(w) ==
    \/ Enqueue({job[w].task}) /\ Finish(w) /\ UNCHANGED <<dropped, disturbed>>
    \/ GiveUp(w)

IsMirrorJob(w) == job[w].task.kind \in {"download", "update"}
IsUserJob(w) == job[w].task.kind \in {"read", "labels", "trash"}
IsSync(w) == job[w].task.kind \in {"incremental", "full"}

\* Worker w takes up message m, or deletes its row, beside another job on it.
Meet(w, m) == Disturb({n \in {m} : \E v \in Workers \ {w} : job[v].msg = n})

\* The message tasks load the account, the others load the message by key.
StartMirror(w, t) ==
    /\ Become(w, [Idle EXCEPT !.task = t, !.msg = t.msg,
                     !.step = IF t.kind = "download" THEN "exists" ELSE "get"])
    /\ Meet(w, t.msg)

StartByUser(w, t) ==
    /\ Become(w, [Idle EXCEPT
           !.task = t, !.msg = rows[t.row].msg, !.row = t.row,
           !.step = IF t.kind = "trash" THEN "trash" ELSE "info",
           !.change = IF t.kind = "trash" THEN NoChange ELSE t.change])
    /\ Meet(w, rows[t.row].msg)

About(t) == IF t \in MirrorTask THEN {t.msg}
            ELSE {m \in Messages : t.row \in RowsOf(m)}

Start(w, t) ==
    /\ IsIdle(w)
    /\ tasks[t] > 0
    /\ tasks' = [tasks EXCEPT ![t] = @ - 1]
    /\ \/ t \in MirrorTask /\ StartMirror(w, t) /\ UNCHANGED dropped
       \/ /\ t \notin MirrorTask
          /\ IF Exists(t.row) THEN StartByUser(w, t) ELSE UNCHANGED <<job, disturbed>>
          /\ UNCHANGED dropped
       \/ \* The account is not authorised: the task returns.
          /\ "revoked" \in Faults
          /\ dropped' = dropped \union GivenUp(t)
          /\ Disturb(About(t))
          /\ UNCHANGED job
    /\ UNCHANGED <<gmail, database, marks>>

\* An error is a retry, save for a refused token; the syncs log either.
CallFails(w) ==
    /\ job[w].step \in {"short", "fetch", "info", "modify", "trash",
                       "history", "profile", "list"}
    /\ \/ "call" \in Faults /\ ~IsSync(w) /\ Retry(w)
       \/ "call" \in Faults /\ IsSync(w) /\ GiveUp(w)
       \/ "revoked" \in Faults /\ GiveUp(w)
    /\ UNCHANGED <<gmail, database, marks>>

\* Mutant of Redelivered: acks_late is missing on the download task.
RedeliveredUnlessDownload(t) == t.kind = "read"

\* acks_late: the broker delivers the task again when its worker dies.
Redelivered(t) == t.kind \in {"download", "read"}

\* What a dying sync has not deleted; and the tasks it has not sent, which only
\* matters when the history id is stored already.
Undeleted(w) == {m \in Messages : Deletion(m) \in job[w].todo}
Unsent(w) == {m \in Messages : job[w].step = "carry"
                   /\ {Download(m), Update(m)} \intersect job[w].todo # {}}

Crash(w) ==
    /\ "crash" \in Faults
    /\ ~IsIdle(w)
    /\ Enqueue({t \in {job[w].task} : Redelivered(t)})
    /\ dropped' = dropped \union WithoutRow(Unsent(w)) \union
         (IF job[w].task.kind = "update" THEN GivenUp(job[w].task) ELSE {})
    /\ Disturb(Unsent(w) \union
         (IF job[w].task.kind \in {"update", "labels", "trash"}
          THEN {job[w].msg} ELSE {}))
    /\ skipped' = skipped \union Undeleted(w)
    /\ Finish(w)
    /\ UNCHANGED <<gmail, database, syncs>>

-----------------------------------------------------------------------------
(* GmailManager.download_message and update_labels_for_message.            *)

DownloadedAlready(w) ==
    /\ job[w].step = "exists"
    /\ Goto(w, IF RowsOf(job[w].msg) = {} THEN "fetch" ELSE "get")
    /\ UNCHANGED <<gmail, database, broker, marks>>

FetchMessage(w) ==
    /\ job[w].step = "fetch"
    /\ IF There(w)
       THEN Become(w, [job[w] EXCEPT !.step = "build", !.full = TRUE,
                                     !.seen = remote[job[w].msg].labels])
       ELSE Finish(w)
    /\ UNCHANGED <<gmail, database, broker, marks>>

GetMessage(w) ==
    /\ job[w].step = "get"
    /\ \/ RowsOf(job[w].msg) = {} /\ Goto(w, "exists")
       \/ \E r \in RowsOf(job[w].msg) :
            Become(w, [job[w] EXCEPT !.step = "short", !.row = r,
                                     !.read = rows[r].read])
    /\ UNCHANGED <<gmail, database, broker, marks>>

FetchLabels(w) ==
    /\ job[w].step = "short"
    /\ IF There(w)
       THEN Become(w, [job[w] EXCEPT !.step = "compare",
                                     !.seen = remote[job[w].msg].labels])
       ELSE Finish(w)
    /\ UNCHANGED <<gmail, database, broker, marks>>

\* The labels of the row as they are now, the read flag as it was loaded.
ExistingLabels(w) ==
    (IF Exists(job[w].row) THEN rows[job[w].row].labels ELSE {})
        \union (IF job[w].read THEN {} ELSE {Unread})

CompareLabels(w) ==
    /\ job[w].step = "compare"
    /\ IF job[w].seen = ExistingLabels(w)
       THEN Finish(w)
       ELSE Goto(w, "build")
    /\ UNCHANGED <<gmail, database, broker, marks>>

-----------------------------------------------------------------------------
(* MessageBuilder: get_or_create_message, then save.                       *)

\* Mutant of HasDate: the date of a loaded message is not considered.
HasFetchedDate(w, found) == job[w].full /\ sort[job[w].msg] = "mail"

\* sent_date and sender: of the loaded row, or of a completely fetched mail.
HasDate(w, found) ==
    found # {} \/ (job[w].full /\ sort[job[w].msg] = "mail")

Build(w) ==
    /\ job[w].step = "build"
    /\ LET found == RowsOf(job[w].msg) IN
       \/ /\ HasDate(w, found)
          /\ \/ /\ found = {}
                /\ Become(w, [job[w] EXCEPT !.step = "insert", !.row = NoKey])
             \/ \E r \in found :
                  Become(w, [job[w] EXCEPT !.step = "labels", !.row = r])
          /\ UNCHANGED noEmail
       \/ /\ ~HasDate(w, found)
          /\ noEmail' = noEmail \union {job[w].msg}
          /\ Finish(w)
    /\ UNCHANGED <<gmail, synced, rows, broker, marks>>

Stored(w, labels) ==
    [msg |-> job[w].msg, labels |-> labels, read |-> Unread \notin job[w].seen]

\* unique_together: account and message_id have one row, a second is refused.
InsertRow(w) ==
    /\ job[w].step = "insert"
    /\ \/ /\ RowsOf(job[w].msg) = {}
          /\ \E r \in RowIds : Fresh(r)
          /\ rows' = [rows EXCEPT ![FreshKey] = Stored(w, {})]
          /\ Become(w, [job[w] EXCEPT !.step = "labels", !.row = FreshKey])
          /\ UNCHANGED broker
       \/ /\ RowsOf(job[w].msg) # {}
          /\ Retry(w)
          /\ UNCHANGED rows
    /\ UNCHANGED <<gmail, synced, noEmail, marks>>

\* Mutant of ReplaceLabels: labels are added, none is cleared.
AddLabels(w) == rows' = [rows EXCEPT ![job[w].row].labels = @ \union job[w].seen]

ReplaceLabels(w) == rows' = [rows EXCEPT ![job[w].row].labels = job[w].seen]

\* Recipients and labels.  When the row is gone the foreign keys refuse them;
\* update_labels_for_message swallows that.  Without labels, and without
\* recipients to add, nothing is refused.
WriteLabels(w) ==
    /\ job[w].step = "labels"
    /\ \/ /\ Exists(job[w].row)
          /\ ReplaceLabels(w)
          /\ Goto(w, "save")
          /\ UNCHANGED broker
       \/ /\ ~Exists(job[w].row)
          /\ job[w].seen = {}
          /\ Goto(w, "save")
          /\ UNCHANGED <<rows, broker>>
       \/ /\ ~Exists(job[w].row)
          /\ job[w].full
          /\ Retry(w)
          /\ UNCHANGED rows
       \/ /\ ~Exists(job[w].row)
          /\ ~job[w].full /\ job[w].seen # {}
          /\ Finish(w)
          /\ UNCHANGED <<rows, broker>>
    /\ UNCHANGED <<gmail, synced, noEmail, marks>>

\* save() of all columns; it inserts the row again when that is gone, unless
\* the message has got another.
CanSave(w) == Exists(job[w].row) \/ RowsOf(job[w].msg) = {}
SaveRow(w, labels) ==
    rows' = [rows EXCEPT ![job[w].row] =
               Stored(w, IF Exists(job[w].row) THEN labels ELSE {})]

SaveMessage(w) ==
    /\ job[w].step = "save"
    /\ \/ /\ CanSave(w)
          /\ SaveRow(w, rows[job[w].row].labels)
          /\ Finish(w)
          /\ UNCHANGED broker
       \/ /\ ~CanSave(w)
          /\ IF job[w].full THEN Retry(w) ELSE Finish(w) /\ UNCHANGED broker
          /\ UNCHANGED rows
    /\ UNCHANGED <<gmail, synced, noEmail, marks>>

-----------------------------------------------------------------------------
(* Users: PATCH of the read flag, label changes and trash.                 *)

PatchRead(w, r, change) ==
    /\ Room
    /\ IsIdle(w)
    /\ Exists(r)
    /\ Become(w, [Idle EXCEPT !.task = [kind |-> "patch"], !.step = "patch",
                    !.msg = rows[r].msg, !.row = r, !.seen = change.add,
                    !.change = change])
    /\ Meet(w, rows[r].msg)
    /\ UNCHANGED <<gmail, database, tasks, dropped, marks>>

\* perform_update: the flag is stored at once, Gmail learns of it by a task.
SavePatch(w) ==
    /\ job[w].step = "patch"
    /\ \/ /\ CanSave(w)
          /\ SaveRow(w, rows[job[w].row].labels)
          /\ Enqueue({[kind |-> "read", row |-> job[w].row,
                       change |-> job[w].change]})
       \/ /\ ~CanSave(w)
          /\ UNCHANGED <<rows, tasks>>
    /\ Finish(w)
    /\ UNCHANGED <<gmail, synced, noEmail, dropped, disturbed, marks>>

RequestChange(r, change) ==
    /\ Room
    /\ Exists(r)
    /\ Enqueue({[kind |-> "labels", row |-> r, change |-> change]})
    /\ UNCHANGED <<gmail, database, dropped, disturbed, marks, job>>

RequestTrash(r) ==
    /\ Room
    /\ Exists(r)
    /\ Enqueue({[kind |-> "trash", row |-> r]})
    /\ UNCHANGED <<gmail, database, dropped, disturbed, marks, job>>

\* add_and_remove_labels_for_message.
ToAdd(w) == job[w].change.add \ job[w].seen
ToRemove(w) == job[w].change.remove \intersect job[w].seen

\* The row is deleted when the message is gone (which fails, and is tried
\* again, when the row is gone as well).  While there is nothing to change, the
\* code reads up to six times; the readings before the last are no steps.
ReadInfo(w) ==
    /\ job[w].step = "info"
    /\ \/ /\ There(w)
          /\ LET seen == remote[job[w].msg].labels
                 change == job[w].change
             IN IF change.add \subseteq seen /\ change.remove \intersect seen = {}
                THEN Finish(w)
                ELSE Become(w, [job[w] EXCEPT !.step = "modify", !.seen = seen])
          /\ UNCHANGED <<rows, broker>>
       \/ /\ ~There(w) /\ Exists(job[w].row)
          /\ rows' = [rows EXCEPT ![job[w].row] = NoRow]
          /\ Finish(w)
          /\ UNCHANGED broker
       \/ /\ ~There(w) /\ ~Exists(job[w].row)
          /\ Retry(w)
          /\ UNCHANGED rows
    /\ UNCHANGED <<gmail, synced, noEmail, marks>>

ModifyRemote(w) ==
    /\ job[w].step = "modify"
    /\ \/ /\ There(w)
          /\ SetLabels(job[w].msg,
                       (remote[job[w].msg].labels \ ToRemove(w)) \union ToAdd(w))
          /\ Goto(w, "unlabel")
          /\ UNCHANGED broker
       \/ ~There(w) /\ Retry(w) /\ UNCHANGED <<remote, log>>
    /\ UNCHANGED <<sort, database, marks>>

RemoveLocally(w) ==
    /\ job[w].step = "unlabel"
    /\ rows' = IF Exists(job[w].row)
               THEN [rows EXCEPT ![job[w].row].labels = @ \ ToRemove(w)]
               ELSE rows
    /\ Goto(w, "relabel")
    /\ UNCHANGED <<gmail, synced, noEmail, broker, marks>>

AddLocally(w) ==
    /\ job[w].step = "relabel"
    /\ \/ /\ Exists(job[w].row) \/ ToAdd(w) = {}
          /\ rows' = IF Exists(job[w].row)
                     THEN [rows EXCEPT ![job[w].row].labels = @ \union ToAdd(w)]
                     ELSE rows
          /\ Finish(w)
          /\ UNCHANGED broker
       \/ /\ ~Exists(job[w].row) /\ ToAdd(w) # {}
          /\ Retry(w)
          /\ UNCHANGED rows
    /\ UNCHANGED <<gmail, synced, noEmail, marks>>

\* trash_email_message: delete what is in the trash here, trash what is not.
TrashRemote(w) ==
    /\ job[w].step = "trash"
    /\ \/ /\ ~There(w)
          /\ Finish(w)
          /\ UNCHANGED <<remote, log>>
       \/ /\ There(w)
          /\ Exists(job[w].row) /\ Trash \in rows[job[w].row].labels
          /\ Delete(job[w].msg)
          /\ Finish(w)
       \/ /\ There(w)
          /\ ~Exists(job[w].row) \/ Trash \notin rows[job[w].row].labels
          /\ SetLabels(job[w].msg, remote[job[w].msg].labels \union {Trash})
          /\ Goto(w, "fetch")
    /\ UNCHANGED <<sort, database, broker, marks>>

-----------------------------------------------------------------------------
(* sync_by_history.                                                        *)

BeginSync(w, kind, step, from) ==
    /\ syncs < MaxSyncs
    /\ IsIdle(w)
    /\ Become(w, [Idle EXCEPT !.task = [kind |-> kind], !.step = step,
                              !.from = from])
    /\ syncs' = syncs + 1
    /\ UNCHANGED <<gmail, database, broker, skipped>>

\* Mutant of GetHistory: takes the id of the next change.
GetHistoryAhead(w) ==
    /\ job[w].step = "history"
    /\ Become(w, [job[w] EXCEPT !.step = "apply", !.upto = Len(log) + 1])
    /\ UNCHANGED <<gmail, database, broker, marks>>

GetHistory(w) ==
    /\ job[w].step = "history"
    /\ Become(w, [job[w] EXCEPT !.step = "apply", !.upto = Len(log)])
    /\ UNCHANGED <<gmail, database, broker, marks>>

\* The messages with a history item of some kind among those listed.
Mentioned(w, what) ==
    {log[i].msg : i \in {k \in job[w].from + 1 .. job[w].upto :
                            log[k].what = what}}
NotChat(S) == {m \in S : sort[m] # "chat"}
Deleted(w) == Mentioned(w, "deleted")

\* 'labelIds' in item['message']: a message added without labels is passed over.
NewMessages(w) == NotChat(Mentioned(w, "added")) \ Deleted(w)
EditLabels(w) == NotChat(Mentioned(w, "labels")) \ (NewMessages(w) \union Deleted(w))

\* The history id is stored before anything is done about the messages.  Within a
\* history, a message is added before anything else happens to it.
ApplyHistory(w) ==
    /\ job[w].step = "apply"
    /\ synced' = job[w].upto
    /\ Become(w, [job[w] EXCEPT !.step = "carry",
                    !.todo = {Deletion(m) : m \in Deleted(w)}
                       \union {Download(m) : m \in NewMessages(w)}
                       \union {Update(m) : m \in EditLabels(w)}])
    /\ UNCHANGED <<gmail, rows, noEmail, broker, marks>>

Done(w, t) == Become(w, [job[w] EXCEPT !.todo = @ \ {t}])

DeleteRow(w) ==
    /\ job[w].step = "carry"
    /\ \E m \in Undeleted(w) :
         /\ rows' = [r \in RowIds |-> IF r \in RowsOf(m) THEN NoRow ELSE rows[r]]
         /\ Done(w, Deletion(m))
         /\ Meet(w, m)
    /\ UNCHANGED <<gmail, synced, noEmail, tasks, dropped, marks>>

\* The deletions come first, while the history is read.
SendTask(w) ==
    /\ job[w].step \in {"carry", "send"}
    /\ Undeleted(w) = {}
    /\ \E t \in job[w].todo : Enqueue({t}) /\ Done(w, t)
    /\ UNCHANGED <<gmail, database, dropped, disturbed, marks>>

EndIncremental(w) ==
    /\ job[w].step = "carry"
    /\ job[w].todo = {}
    /\ Finish(w)
    /\ UNCHANGED <<gmail, database, broker, marks>>

-----------------------------------------------------------------------------
(* full_synchronize.                                                       *)

GetProfile(w) ==
    /\ job[w].step = "profile"
    /\ Become(w, [job[w] EXCEPT !.step = "list", !.upto = Len(log)])
    /\ UNCHANGED <<gmail, database, broker, marks>>

\* q='!in:chats'
ListMessages(w) ==
    /\ job[w].step = "list"
    /\ Become(w, [job[w] EXCEPT !.step = "look",
                    !.listed = {m \in NotChat(Messages) :
                                  remote[m].status = "there"}])
    /\ UNCHANGED <<gmail, database, broker, marks>>

LookUp(w) ==
    /\ job[w].step = "look"
    /\ LET wanted == job[w].listed \ noEmail IN
       Become(w, [job[w] EXCEPT !.step = "send",
                    !.todo = {Download(m) : m \in WithoutRow(wanted)}
                       \union {Update(m) : m \in wanted \ WithoutRow(wanted)}])
    /\ UNCHANGED <<gmail, database, broker, marks>>

\* save_history_id, after all tasks.
EndFull(w) ==
    /\ job[w].step = "send"
    /\ job[w].todo = {}
    /\ synced' = job[w].upto
    /\ skipped' = skipped \union
         {log[i].msg : i \in {k \in synced + 1 .. job[w].upto :
                                 log[k].what = "deleted"}}
    /\ Finish(w)
    /\ UNCHANGED <<gmail, rows, noEmail, broker, syncs>>

-----------------------------------------------------------------------------
MirrorStep(w) ==
    \/ DownloadedAlready(w) \/ FetchMessage(w) \/ GetMessage(w)
    \/ FetchLabels(w) \/ CompareLabels(w)
    \/ Build(w) \/ InsertRow(w) \/ WriteLabels(w) \/ SaveMessage(w)

UserStep(w) ==
    \/ SavePatch(w) \/ ReadInfo(w) \/ ModifyRemote(w)
    \/ RemoveLocally(w) \/ AddLocally(w) \/ TrashRemote(w)

SyncStep(w) ==
    \/ GetHistory(w) \/ ApplyHistory(w) \/ DeleteRow(w) \/ EndIncremental(w)
    \/ GetProfile(w) \/ ListMessages(w) \/ LookUp(w) \/ EndFull(w)
    \/ SendTask(w)

Next ==
    \/ \E m \in Messages :
         \/ \E ls \in SUBSET Labels : Arrive(m, ls) \/ Relabel(m, ls)
         \/ Vanish(m)
    \/ \E r \in RowIds :
         \/ \E c \in UserChanges \ ReadChanges : RequestChange(r, c)
         \/ RequestTrash(r)
    \/ \E w \in Workers :
         \/ \E t \in Task : Start(w, t)
         \/ \E r \in RowIds, c \in UserChanges \intersect ReadChanges :
              PatchRead(w, r, c)
         \/ BeginSync(w, "incremental", "history", synced)
         \/ BeginSync(w, "full", "profile", 0)
         \/ MirrorStep(w) \/ UserStep(w) \/ SyncStep(w)
         \/ CallFails(w) \/ Crash(w)

Spec == Init /\ [][Next]_vars

-----------------------------------------------------------------------------
\* Rows, tasks and jobs have their types, and neither the stored history id nor one
\* that a sync has in hand is ahead of Gmail's history.  (manager.py:112-139.)
TypeOK ==
    /\ sort \in [Messages -> Sorts]
    /\ remote \in [Messages -> [status : Status, labels : SUBSET Labels]]
    /\ log \in Seq(HistoryItem)
    /\ synced \in 0 .. Len(log)
    /\ rows \in [RowIds -> Row \union {NoRow}]
    /\ noEmail \subseteq Messages
    /\ tasks \in [Task -> Nat]
    /\ dropped \subseteq Messages
    /\ disturbed \subseteq Messages
    /\ skipped \subseteq Messages
    /\ syncs \in 0 .. MaxSyncs
    /\ job \in [Workers -> Job]
    /\ \A w \in Workers : job[w].from <= Len(log) /\ job[w].upto <= Len(log)

IsMail(m) == sort[m] = "mail" /\ remote[m].status = "there"

\* An item that makes the incremental sync ask for m, the stored id being beyond
\* it; or no item of its arrival at all, as m was there before.
Tells(item, m) == item \in {[what |-> "added", msg |-> m], [what |-> "labels", msg |-> m]}
Arrives(item, m) ==
    item \in {[what |-> "added", msg |-> m], [what |-> "unlabelled", msg |-> m]}

KnownToSync(m) ==
    \/ \E i \in 1 .. synced : Tells(log[i], m)
    \/ \A i \in 1 .. Len(log) : ~Arrives(log[i], m)

WorkedOn(m) ==
    \/ \E t \in {Download(m), Update(m)} : tasks[t] > 0
    \/ \E w \in Workers : (IsMirrorJob(w) /\ job[w].msg = m) \/ m \in Unsent(w)

Kept(m) == RowsOf(m) # {} \/ WorkedOn(m) \/ m \in dropped

\* Every mail that exists at Gmail, and of which the history the account has
\* synchronised tells, has a row, or a task on the way to give it one; unless the
\* task was given up while access was revoked, or died with its worker unsent.
\* Two syncs, duplicate tasks, dying workers and concurrent deletions
\* notwithstanding.  (manager.py:42-110 and 139-196, tasks.py:180: acks_late.)
NoMailForgotten ==
    \A m \in Messages : IsMail(m) /\ KnownToSync(m) => Kept(m)

\* A message that a full sync skips as "not an email" really has no date or
\* sender, or it is gone from Gmail, although the builder comes to that
\* verdict by looking at an instance another task may have deleted.
\* (builders/message.py:440-484, manager.py:62-64.)
OnlyNonMailSkipped == \A m \in noEmail : ~IsMail(m)

Quiet ==
    /\ synced = Len(log)
    /\ \A t \in Task : tasks[t] = 0
    /\ \A w \in Workers : IsIdle(w)

\* Once everything has been synchronised and every task is done, no message
\* remains that was deleted at Gmail.  (manager.py:102 and 180-186.)
NoGhosts ==
    Quiet => \A r \in RowIds :
        Exists(r) => remote[rows[r].msg].status = "there"

\* A row without UNREAD may still say so with its read flag.
LabelsOf(row) == row.labels \union (IF row.read THEN {} ELSE {Unread})

\* Once everything has been synchronised and every task is done, the copy of a
\* message is exact: a mail of which the history tells has a row, a row has the
\* labels Gmail has, and nothing else has one but messages whose deletion a sync
\* jumped over.  This holds whatever runs at once, fails or is repeated, for each
\* message no two jobs worked on at a time and no job gave up on, and whatever the
\* order in which history items, tasks and the changes of users are processed.
\* (manager.py:42-202 and 318-420.)
Mirrored ==
    Quiet => \A m \in Messages \ disturbed :
        IF IsMail(m)
        THEN /\ KnownToSync(m) => RowsOf(m) # {}
             /\ \A r \in RowsOf(m) : LabelsOf(rows[r]) = remote[m].labels
        ELSE RowsOf(m) = {} \/ m \in skipped

=============================================================================
