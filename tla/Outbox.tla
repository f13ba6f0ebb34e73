------------------------------- MODULE Outbox -------------------------------
(***************************************************************************)
(* What users write: a submitted form becomes an EmailOutboxMessage row    *)
(* and one or two tasks; a task mails the text or stores it as a draft at  *)
(* Gmail, and deletes the row.  The tasks wait in one queue and are taken  *)
(* from it in order, by several workers at once; none of them              *)
(* is delivered again when its worker dies, and only the trash task tries  *)
(* again.  What stays behind in the table is sent by an operator's command.*)
(*                                                                         *)
(* A text is numbered by when it was submitted.  One email account; of the *)
(* local EmailMessage rows only drafts and one received mail are kept, with*)
(* the synchronisation reduced to what it does to them (MailboxMirror has  *)
(* the details).  Abstracted: content and recipients; of the attachments,  *)
(* one that a worker copies from the original of a forwarded mail (those of*)
(* a template are copied the same way), and one inline picture that is read*)
(* from the original while the mail is put together.                       *)
(***************************************************************************)
EXTENDS Naturals, Sequences, FiniteSets

CONSTANTS
    Workers,    \* the worker processes
    Command,    \* the process of the resend_email command
    Faults,     \* what may go wrong together: sets of "call", "answer",
                \* "crash", "revoked" and "elsewhere"
    MaxTexts,   \* bound: submitted forms
    MaxRows,    \* bound: local rows, beyond which no draft is downloaded
    MaxResends, \* bound: runs of the command, all for one text
    MaxLost     \* bound: lost answers

ASSUME OutboxAssumption ==
    /\ Command \notin Workers
    /\ MaxTexts \in Nat \ {0}
    /\ MaxRows \in Nat
    /\ MaxResends \in Nat
    /\ MaxLost \in Nat

VARIABLES
    faults,     \* what goes wrong in this behaviour, never changes
    queue,      \* the broker: tasks in the order they were sent
    outbox,     \* EmailOutboxMessage: text -> row
    rows,       \* EmailMessage: the drafts and the mail users see
    drafts,     \* Gmail: draft id -> text
    mailed,     \* Gmail: how often a text was mailed, and how completely
    job,        \* what each process is doing
    wanted,     \* how each text that was submitted is to be handled
    fresh,      \* texts whose original nobody else was changing
    resent,     \* how often the command was run on a text
    lost,       \* how often Gmail's answer about a text was lost
    discarded,  \* texts that a draft had, and that users gave up
    raced       \* texts whose task was in hand beside another of the same draft

gmail == <<drafts, mailed>>
history == <<wanted, fresh, resent, lost, discarded, raced>>
vars == <<faults, queue, outbox, rows, gmail, job, history>>
-----------------------------------------------------------------------------
Texts == 1 .. MaxTexts
NoText == 0
NoDraft == 0
NoKey == 0
Deleted == 0

\* key: the row a form was about, or NoKey.
Task == [kind : {"none", "send", "create", "update", "trash"},
         text : Texts \cup {NoText}, key : Nat]
NoTask == [kind |-> "none", text |-> NoText, key |-> NoKey]
Send(t, k) == [kind |-> "send", text |-> t, key |-> k]
Create(t) == [kind |-> "create", text |-> t, key |-> NoKey]
Update(t, k) == [kind |-> "update", text |-> t, key |-> k]
TrashTask(k) == [kind |-> "trash", text |-> NoText, key |-> k]

\* copied: how often the original's attachment hangs on the outbox row;
\* origin: original_message_id.
OutboxRow == [copied : Nat, origin : Nat]
NoRow == [origin |-> "none"]

\* draft: the draft at Gmail the row is a copy of, NoDraft for a received
\* mail; known: the row has the draft's id.
MessageRow == [there : BOOLEAN, draft : Nat, text : Texts \cup {NoText},
               known : BOOLEAN]
DraftRow(d, t, known) == [there |-> TRUE, draft |-> d, text |-> t, known |-> known]
ReceivedMail == [there |-> TRUE, draft |-> NoDraft, text |-> NoText,
                 known |-> FALSE]

\* draft: the draft id of the loaded row, or the one Gmail answered with.
Job == [step : {"idle", "call", "store", "delete"},
        task : Task, draft : Nat]
Idle == [step |-> "idle", task |-> NoTask, draft |-> NoDraft]

Processes == Workers \cup {Command}

\* Mutant of NextText: off by one.
LastText == Len(wanted)

NextText == Len(wanted) + 1
Key(k) == k \in 1 .. Len(rows)
Stored(k) == Key(k) /\ rows[k].there
IsDraftRow(k) == Key(k) /\ rows[k].draft # NoDraft
Held(d) == d \in 1 .. Len(drafts) /\ drafts[d] # Deleted

\* Gmail still has the very message a row is a copy of.
Current(k) == Held(rows[k].draft) /\ drafts[rows[k].draft] = rows[k].text

Text(p) == job[p].task.text
Kind(p) == job[p].task.kind
Become(p, j) == job' = [job EXCEPT ![p] = j]
Goto(p, step) == Become(p, [job[p] EXCEPT !.step = step])
Finish(p) == Become(p, Idle)
-----------------------------------------------------------------------------
\* A mailbox with a received mail and a draft that was saved here before.
Earlier == 1
Init ==
    /\ faults \in Faults
    /\ queue = <<>>
    /\ outbox = [t \in Texts |-> NoRow]
    /\ rows = <<ReceivedMail, DraftRow(1, Earlier, TRUE)>>
    /\ drafts = <<Earlier>>
    /\ mailed = [t \in Texts |-> [times |-> 0, complete |-> TRUE]]
    /\ job = [p \in Processes |-> Idle]
    /\ wanted = <<"draft">>
    /\ fresh = {}
    /\ resent = [t \in Texts |-> 0]
    /\ lost = [t \in Texts |-> 0]
    /\ discarded = {}
    /\ raced = {}

-----------------------------------------------------------------------------
(* The forms.                                                              *)

\* A task that waits or runs is about the draft that row k is a copy of.
Busy(k) ==
    LET about(task) == Key(task.key) /\ rows[task.key].draft = rows[k].draft IN
    \/ \E i \in 1 .. Len(queue) : about(queue[i])
    \/ \E p \in Processes : about(job[p].task)

Undisturbed(k) ==
    k # NoKey => Stored(k) /\ (IsDraftRow(k) => Current(k) /\ ~Busy(k))

\* EmailMessageComposeView.form_valid stores the row, then the views send the
\* tasks; there is no transaction, and a request may die in between.
Submit(want, k, tasks) ==
    LET t == NextText IN
    /\ t \in Texts
    /\ wanted' = Append(wanted, want)
    /\ outbox' = [outbox EXCEPT ![t] = [copied |-> 0, origin |-> k]]
    /\ \E n \in 0 .. Len(tasks) :
         /\ n < Len(tasks) => "crash" \in faults
         /\ queue' = queue \o SubSeq(tasks, 1, n)
    /\ fresh' = IF Undisturbed(k) THEN fresh \cup {t} ELSE fresh
    /\ UNCHANGED <<faults, rows, gmail, job, resent, lost, discarded, raced>>

SendNew == Submit("mail", NoKey, <<Send(NextText, NoKey)>>)

\* Mutant of SendDraft: the removal of the draft is queued first.
SendDraftAfterTrash(k) ==
    /\ IsDraftRow(k)
    /\ Submit("forward", k, IF Stored(k) THEN <<TrashTask(k), Send(NextText, NoKey)>>
                                         ELSE <<Send(NextText, NoKey)>>)

\* The draft is put in the trash at once, not when its text has been mailed.
SendDraft(k) ==
    /\ IsDraftRow(k)
    /\ Submit("forward", k, IF Stored(k) THEN <<Send(NextText, NoKey), TrashTask(k)>>
                                         ELSE <<Send(NextText, NoKey)>>)

ReplyOrForward(k) ==
    /\ Stored(k)
    /\ ~IsDraftRow(k)
    /\ Submit("forward", k, <<Send(NextText, k)>>)

SaveNewDraft == Submit("draft", NoKey, <<Create(NextText)>>)

\* The form may have been open since before the row was removed.
SaveDraft(k) ==
    /\ IsDraftRow(k)
    /\ Submit("draft", k, <<Update(NextText, k)>>)

\* The bound: when nothing else waits, and two texts can follow.
TrashDraft(k) ==
    /\ Stored(k) /\ IsDraftRow(k)
    /\ queue = <<>> /\ Len(wanted) + 1 < MaxTexts
    /\ queue' = Append(queue, TrashTask(k))
    /\ UNCHANGED <<faults, outbox, rows, gmail, job, history>>

-----------------------------------------------------------------------------
(* How a task begins.                                                      *)

\* Objects that a task loads by primary key, or fails without.
Loads(task) ==
    /\ task.kind # "trash" => outbox[task.text] # NoRow
    /\ task.key # NoKey => Stored(task.key)

\* EmailAttachment.DoesNotExist is passed over in silence.
CopyAttachments(task) ==
    LET t == task.text
        origin == outbox[t].origin
    IN IF task.kind = "send" /\ wanted[t] = "forward" /\ Stored(origin)
       THEN outbox' = [outbox EXCEPT ![t].copied = @ + 1]
       ELSE UNCHANGED outbox

DraftIdOf(task) ==
    IF task.kind \in {"update", "trash"} /\ rows[task.key].known
    THEN rows[task.key].draft
    ELSE NoDraft

\* Mutant of Begin: the row is deleted when the task takes it up.
BeginAndDelete(p, task) ==
    /\ UNCHANGED raced
    /\ Become(p, [step |-> "call", task |-> task, draft |-> DraftIdOf(task)])
    /\ outbox' = [t \in Texts |-> IF t = task.text THEN NoRow ELSE outbox[t]]

\* The draft a task is about: what it changes, or what it reads the original's
\* attachments and pictures from.
Original(task) ==
    IF task.kind # "send" THEN task.key
    ELSE IF outbox[task.text] = NoRow THEN NoKey ELSE outbox[task.text].origin
DraftOf(task) == IF Key(Original(task)) THEN rows[Original(task)].draft ELSE NoDraft

\* No lock is held on a draft: tasks about it may be in hand side by side.
Beside(p, task) ==
    {q \in Processes \ {p} : DraftOf(task) # NoDraft /\ DraftOf(job[q].task) = DraftOf(task)}
Race(p, task) ==
    raced' = IF Beside(p, task) = {} THEN raced
             ELSE raced \cup (Texts \cap ({task.text} \cup {Text(q) : q \in Beside(p, task)}))

Begin(p, task) ==
    /\ Race(p, task)
    /\ Become(p, [step |-> "call", task |-> task, draft |-> DraftIdOf(task)])
    /\ CopyAttachments(task)

Start(w) ==
    /\ job[w].step = "idle"
    /\ queue # <<>>
    /\ queue' = Tail(queue)
    /\ \/ /\ Loads(Head(queue))
          /\ Begin(w, Head(queue))
       \/ \* DoesNotExist, or the account is not authorised.
          /\ ~Loads(Head(queue)) \/ "revoked" \in faults
          /\ UNCHANGED <<job, outbox, raced>>
    /\ UNCHANGED <<faults, rows, gmail, wanted, fresh, resent, lost, discarded>>

\* resend_email: without the original, in a process of its own.  Operators
\* run it on mails, not on drafts.
Resend(t) ==
    /\ job[Command].step = "idle"
    /\ t <= Len(wanted) /\ wanted[t] # "draft"
    /\ outbox[t] # NoRow
    /\ resent[t] < MaxResends /\ \A s \in Texts \ {t} : resent[s] = 0
    /\ resent' = [resent EXCEPT ![t] = @ + 1]
    /\ Begin(Command, Send(t, NoKey))
    /\ UNCHANGED <<faults, queue, rows, gmail, wanted, fresh, lost, discarded>>

-----------------------------------------------------------------------------
(* The calls to Gmail.                                                     *)

\* EmailOutboxMessage.message() reads the attachments of the row and, for the
\* pictures, the attachments of the original.
Picture(t) == outbox[t] # NoRow /\ outbox[t].origin # NoKey => Stored(outbox[t].origin)
Copied(t) == IF outbox[t] = NoRow THEN 0 ELSE outbox[t].copied
Complete(t) == Picture(t) /\ (wanted[t] = "forward" => Copied(t) = 1)

\* What Gmail does when it is asked to, and the draft id it answers with.
Mail(t) ==
    /\ mailed' = [mailed EXCEPT ![t] = [times |-> @.times + 1,
                                        complete |-> @.complete /\ Complete(t)]]
    /\ UNCHANGED <<drafts, discarded>>

NewDraft(t) ==
    /\ drafts' = Append(drafts, t)
    /\ UNCHANGED <<mailed, discarded>>

ReplaceDraft(d, t) ==
    /\ Held(d)
    /\ drafts' = [drafts EXCEPT ![d] = t]
    /\ discarded' = discarded \cup ({drafts[d]} \ {t})
    /\ UNCHANGED mailed

DeleteDraft(d) ==
    /\ Held(d)
    /\ drafts' = [drafts EXCEPT ![d] = Deleted]
    /\ discarded' = discarded \cup {drafts[d]}
    /\ UNCHANGED mailed

Carried(p) ==
    \/ Kind(p) = "send" /\ Mail(Text(p))
    \/ Kind(p) = "create" /\ NewDraft(Text(p))
    \/ Kind(p) = "update" /\ ReplaceDraft(job[p].draft, Text(p))
    \/ Kind(p) = "trash" /\ DeleteDraft(job[p].draft)

\* Gmail answers.
Answered(p) ==
    /\ job[p].step = "call"
    /\ Carried(p)
    /\ IF Kind(p) = "trash"
       THEN Finish(p)
       ELSE Become(p, [step |-> "store", task |-> job[p].task,
                       draft |-> IF Kind(p) = "create" THEN Len(drafts) + 1
                                                       ELSE job[p].draft])
    /\ UNCHANGED <<faults, queue, outbox, rows, wanted, fresh, resent, lost, raced>>

\* Gmail does it and answers with a server error: execute_service_call tries
\* again, and gives up after the sixth time.
AnswerLost(p) ==
    /\ "answer" \in faults
    /\ job[p].step = "call"
    /\ Kind(p) # "trash"
    /\ lost[Text(p)] < MaxLost
    /\ lost' = [lost EXCEPT ![Text(p)] = @ + 1]
    /\ Carried(p)
    /\ UNCHANGED job \/ Finish(p)
    /\ UNCHANGED <<faults, queue, outbox, rows, wanted, fresh, resent, raced>>

\* 404.  For the trash task that settles the matter: the row of this message
\* goes; an update fails.  A row without the draft's id always ends here.
NotFound(p) ==
    /\ job[p].step = "call"
    /\ Kind(p) \in {"update", "trash"}
    /\ ~Held(job[p].draft)
    /\ Finish(p)
    /\ rows' = IF Kind(p) = "trash"
               THEN [rows EXCEPT ![job[p].task.key].there = FALSE]
               ELSE rows
    /\ UNCHANGED <<faults, queue, outbox, gmail, history>>

\* Mutant of CallFails: the row is deleted whatever the outcome.
CallFailsAndDeletes(p) ==
    /\ "call" \in faults
    /\ job[p].step = "call"
    /\ Finish(p)
    /\ \/ Kind(p) = "trash" /\ queue' = Append(queue, job[p].task) /\ UNCHANGED outbox
       \/ Kind(p) # "trash" /\ outbox' = [outbox EXCEPT ![Text(p)] = NoRow] /\ UNCHANGED queue
    /\ UNCHANGED <<faults, rows, gmail, history>>

\* Mutant of CallFails: every task is tried again.
CallFailsAndRetries(p) ==
    /\ "call" \in faults
    /\ job[p].step = "call"
    /\ Finish(p)
    /\ queue' = Append(queue, job[p].task)
    /\ UNCHANGED <<faults, outbox, rows, gmail, history>>

\* Any other failure: the trash task is tried again, until it is given up.
CallFails(p) ==
    /\ "call" \in faults
    /\ job[p].step = "call"
    /\ Finish(p)
    /\ \/ Kind(p) = "trash" /\ queue' = Append(queue, job[p].task)
       \/ UNCHANGED queue
    /\ UNCHANGED <<faults, outbox, rows, gmail, history>>

-----------------------------------------------------------------------------
(* After Gmail's answer: store the new message, delete the outbox row.     *)

\* store_message_info: the row of the new message, made here or by a download.
RowOf(d, t) == {k \in 1 .. Len(rows) : /\ rows[k].there
                                       /\ rows[k].draft = d
                                       /\ rows[k].text = t}

StoreDraft(d, t) ==
    rows' = IF RowOf(d, t) = {}
            THEN Append(rows, DraftRow(d, t, TRUE))
            ELSE [k \in 1 .. Len(rows) |->
                    IF k \in RowOf(d, t) THEN [rows[k] EXCEPT !.known = TRUE]
                                         ELSE rows[k]]

\* get_message_info finds the message, or not; or it fails, or what follows it.
Store(p) ==
    /\ job[p].step = "store"
    /\ \/ /\ Kind(p) # "send"
          /\ Held(job[p].draft) /\ drafts[job[p].draft] = Text(p)
          /\ StoreDraft(job[p].draft, Text(p))
       \/ UNCHANGED rows
    /\ \/ Goto(p, "delete")
       \/ "call" \in faults /\ Finish(p)
    /\ UNCHANGED <<faults, queue, outbox, gmail, history>>

DeleteRow(p) ==
    /\ job[p].step = "delete"
    /\ outbox' = [outbox EXCEPT ![Text(p)] = NoRow]
    /\ Finish(p)
    /\ UNCHANGED <<faults, queue, rows, gmail, history>>

\* Mutant of Crash: the tasks acknowledge late.
CrashRedelivers(p) ==
    /\ "crash" \in faults
    /\ job[p].step # "idle"
    /\ Finish(p)
    /\ queue' = IF p = Command THEN queue ELSE Append(queue, job[p].task)
    /\ UNCHANGED <<faults, outbox, rows, gmail, history>>

\* No task of these acknowledges late: the broker has forgotten it.
Crash(p) ==
    /\ "crash" \in faults
    /\ job[p].step # "idle"
    /\ Finish(p)
    /\ UNCHANGED <<faults, queue, outbox, rows, gmail, history>>

-----------------------------------------------------------------------------
(* The synchronisation, and what users do at Gmail itself.                 *)

SyncRemoves(k) ==
    /\ Stored(k) /\ IsDraftRow(k) /\ ~Current(k)
    /\ rows' = [rows EXCEPT ![k].there = FALSE]
    /\ UNCHANGED <<faults, queue, outbox, gmail, job, history>>

\* A downloaded draft comes without the draft's id.
SyncDownloads(d) ==
    /\ Held(d)
    /\ Len(rows) < MaxRows
    /\ RowOf(d, drafts[d]) = {}
    /\ rows' = Append(rows, DraftRow(d, drafts[d], FALSE))
    /\ UNCHANGED <<faults, queue, outbox, gmail, job, history>>

\* Texts whose original is a copy of the draft d, or the row k itself.
Disturb(k) ==
    fresh' = {t \in fresh : outbox[t] = NoRow \/ outbox[t].origin = NoKey
                              \/ /\ outbox[t].origin # k
                                 /\ rows[outbox[t].origin].draft # rows[k].draft}

DeletedElsewhere(k) ==
    /\ "elsewhere" \in faults
    /\ Stored(k)
    /\ Disturb(k)
    /\ IF IsDraftRow(k)
       THEN DeleteDraft(rows[k].draft) /\ UNCHANGED rows
       ELSE /\ rows' = [rows EXCEPT ![k].there = FALSE]
            /\ UNCHANGED <<drafts, mailed, discarded>>
    /\ UNCHANGED <<faults, queue, outbox, job, wanted, resent, lost, raced>>

-----------------------------------------------------------------------------
Step(p) ==
    \/ Answered(p) \/ AnswerLost(p) \/ NotFound(p) \/ CallFails(p)
    \/ Store(p) \/ DeleteRow(p) \/ Crash(p)

Next ==
    \/ SendNew \/ SaveNewDraft
    \/ \E k \in 1 .. Len(rows) :
         \/ SendDraft(k) \/ ReplyOrForward(k) \/ SaveDraft(k) \/ TrashDraft(k)
         \/ SyncRemoves(k) \/ DeletedElsewhere(k)
    \/ \E d \in 1 .. Len(drafts) : SyncDownloads(d)
    \/ \E w \in Workers : Start(w)
    \/ \E t \in Texts : Resend(t)
    \/ \E p \in Processes : Step(p)

Spec == Init /\ [][Next]_vars
-----------------------------------------------------------------------------
\* What waits and what processes have in hand are tasks about submitted texts; rows,
\* drafts and mails have their types.  (tasks.py:352-532.)
TypeOK ==
    /\ queue \in Seq(Task)
    /\ outbox \in [Texts -> OutboxRow \cup {NoRow}]
    /\ rows \in Seq(MessageRow)
    /\ drafts \in Seq(Texts \cup {Deleted})
    /\ mailed \in [Texts -> [times : Nat, complete : BOOLEAN]]
    /\ job \in [Processes -> Job]
    /\ wanted \in Seq({"mail", "forward", "draft"})
    /\ Len(wanted) <= MaxTexts
    /\ fresh \subseteq Texts
    /\ resent \in [Texts -> Nat]
    /\ lost \in [Texts -> Nat]
    /\ discarded \subseteq Texts
    /\ raced \subseteq Texts

\* Gmail mailed the text, has it as a draft, or had it when a user gave it up.
Drafted(t) == \E d \in 1 .. Len(drafts) : drafts[d] = t
Obtained(t) == mailed[t].times > 0 \/ Drafted(t) \/ t \in discarded

\* Whatever fails, dies or overlaps, what a user submitted stays in the outbox
\* until Gmail has mailed it or has it as a draft: the row is deleted last.
\* (tasks.py:428-434 and 476-532.)
Kept(t) == outbox[t] # NoRow \/ Obtained(t)
NothingLost == \A t \in 1 .. Len(wanted) : Kept(t)

\* Step by step the outbox does nothing but what TextDelivery allows: a row
\* appears for a new text only, goes only when Gmail has the text, and what
\* Gmail obtains has a row at that moment, or Gmail had it already.
\* (views.py:261-272, tasks.py:352-532.)
Delivery == INSTANCE TextDelivery WITH
    kept <- {t \in Texts : outbox[t] # NoRow},
    obtained <- {t \in Texts : Obtained(t)}
DeliversTexts == Delivery!Spec

\* Nothing is mailed, or stored as a draft, more often than Gmail's answer was
\* lost and the command was run on it, once more: a worker that dies, and a
\* failure after the mail has gone out, do not send it again by themselves.
CopiesOf(t) == Cardinality({d \in 1 .. Len(drafts) : drafts[d] = t})
Excused(t) == lost[t] + resent[t]
NothingTwice ==
    \A t \in Texts : /\ mailed[t].times <= 1 + Excused(t)
                     /\ CopiesOf(t) <= 1 + Excused(t)

\* A mail whose original nobody else changes carries its pictures and, exactly
\* once, the attachments of its original, unless an operator sends it again, or
\* another task about the same draft was in hand together with it.  Sending a
\* draft queues the draft's removal without waiting for the mail, and each
\* attempt copies the attachments anew.  (views.py:402-450, tasks.py:385-426.)
MailIsComplete ==
    \A t \in fresh \ raced : wanted[t] # "draft" /\ resent[t] = 0 => mailed[t].complete

\* That exception is real: the task that removes a draft overtakes the one that
\* mails it.  (views.py:446-448; outbox_overtaken shows it violated.)
SentDraftIsComplete ==
    \A t \in fresh : wanted[t] # "draft" /\ resent[t] = 0 => mailed[t].complete

\* A draft never goes back to a text that was submitted before the one it has,
\* whatever fails, unless tasks about that draft were in hand side by side: forms
\* saved in a row reach Gmail in that order.  (views.py:527-566, tasks.py:496-532.)
NoOldDraftRestored ==
    [][\A d \in 1 .. Len(drafts) :
         drafts'[d] # Deleted /\ drafts'[d] < drafts[d] => drafts'[d] \in raced']_vars
=============================================================================
