----------------------------- MODULE OutboxProofs -----------------------------
(***************************************************************************)
(* What holds of Outbox for any number of texts, rows, workers and faults: *)
(* its types, that no text is lost, the order in which texts wait, and that*)
(* the outbox implements TextDelivery.                                     *)
(***************************************************************************)
EXTENDS Outbox, SequenceTheorems, FiniteSetTheorems, TLAPS

USE OutboxAssumption DEF Texts, NoText, NoDraft, NoKey, Deleted, Earlier

\* The text of a task that has one was submitted, and the tasks that load a
\* draft have its key.
Known(task) ==
    /\ task \in Task
    /\ task.kind # "none"
    /\ task.kind # "trash" => task.text \in 1 .. Len(wanted)
    /\ task.kind \in {"update", "trash"} => task.key # NoKey
TasksKnown == \A i \in 1 .. Len(queue) : Known(queue[i])
JobsKnown ==
    \A p \in Processes :
        job[p].step # "idle" =>
            /\ Known(job[p].task)
            /\ job[p].step # "call" => job[p].task.kind # "trash"
TypeInv == TypeOK /\ TasksKnown /\ JobsKnown

LEMMA IdleIsJob == Idle \in Job /\ Idle.step = "idle"
BY SMT DEF Idle, Job, NoTask, Task

LEMMA RowFlags ==
    ASSUME NEW row \in MessageRow, NEW b \in BOOLEAN
    PROVE  [row EXCEPT !.there = b] \in MessageRow /\ [row EXCEPT !.known = b] \in MessageRow
<1>1. /\ row = [there |-> row.there, draft |-> row.draft, text |-> row.text,
                known |-> row.known]
      /\ row.there \in BOOLEAN /\ row.draft \in Nat
      /\ row.text \in Texts \cup {NoText} /\ row.known \in BOOLEAN
  BY SMT DEF MessageRow
<1>2. /\ [row EXCEPT !.there = b] = [there |-> b, draft |-> row.draft, text |-> row.text,
                                    known |-> row.known]
      /\ [row EXCEPT !.known = b] = [there |-> row.there, draft |-> row.draft,
                                    text |-> row.text, known |-> b]
  BY <1>1
<1>3. QED
  BY <1>1, <1>2 DEF MessageRow

\* A process goes on to another step of its task.
LEMMA JobGoesOn ==
    ASSUME NEW j \in Job, NEW step \in {"idle", "call", "store", "delete"}
    PROVE  /\ [j EXCEPT !.step = step] \in Job
           /\ [j EXCEPT !.step = step].task = j.task
<1>1. /\ j = [step |-> j.step, task |-> j.task, draft |-> j.draft]
      /\ j.task \in Task /\ j.draft \in Nat
  BY SMT DEF Job
<1>2. [j EXCEPT !.step = step] = [step |-> step, task |-> j.task, draft |-> j.draft]
  BY <1>1
<1>3. QED
  BY <1>1, <1>2 DEF Job

LEMMA NoRowIsNoRow == \A r \in OutboxRow : r # NoRow
BY SMT DEF NoRow, OutboxRow

LEMMA FinishTyped ==
    ASSUME TypeInv, NEW p \in Processes, Finish(p)
    PROVE  /\ job' \in [Processes -> Job]
           /\ \A q \in Processes : q # p => job'[q] = job[q]
           /\ job'[p] = Idle
BY IdleIsJob, SMT DEF TypeInv, TypeOK, Finish, Become

LEMMA InitTyped == Init => TypeInv
<1> SUFFICES ASSUME Init PROVE TypeInv
  OBVIOUS
<1>1. rows \in Seq(MessageRow)
  BY SMT DEF Init, MessageRow, ReceivedMail, DraftRow
<1>2. job \in [Processes -> Job] /\ \A p \in Processes : job[p].step = "idle"
  BY IdleIsJob, SMT DEF Init
<1>3. /\ mailed \in [Texts -> [times : Nat, complete : BOOLEAN]]
      /\ outbox \in [Texts -> OutboxRow \cup {NoRow}]
      /\ wanted \in Seq({"mail", "forward", "draft"}) /\ Len(wanted) = 1
      /\ drafts \in Seq(Texts \cup {Deleted})
      /\ queue \in Seq(Task) /\ Len(queue) = 0
      /\ resent \in [Texts -> Nat] /\ lost \in [Texts -> Nat]
  BY SMT DEF Init
<1>4. /\ raced \subseteq Texts /\ fresh \subseteq Texts
      /\ discarded \subseteq Texts /\ Len(wanted) <= MaxTexts
  BY <1>3, SMT DEF Init
<1>5. TypeOK
  BY <1>1, <1>2, <1>3, <1>4 DEF TypeOK
<1>6. TasksKnown /\ JobsKnown
  BY <1>2, <1>3, SMT DEF TasksKnown, JobsKnown
<1>7. QED
  BY <1>5, <1>6 DEF TypeInv

LEMMA SubmitTyped ==
    ASSUME TypeInv, NEW want \in {"mail", "forward", "draft"}, NEW k \in Nat,
           NEW tasks \in Seq(Task), Submit(want, k, tasks),
           \A i \in 1 .. Len(tasks) :
              /\ tasks[i].kind # "none"
              /\ tasks[i].kind # "trash" => tasks[i].text = NextText
              /\ tasks[i].kind \in {"update", "trash"} => tasks[i].key # NoKey
    PROVE  /\ TypeInv'
           /\ Len(wanted') = Len(wanted) + 1
           /\ Len(queue') >= Len(queue)
           /\ \A i \in 1 .. Len(queue) : queue'[i] = queue[i]
           /\ \A i \in 1 .. Len(queue') : i > Len(queue) =>
                 /\ i - Len(queue) \in 1 .. Len(tasks)
                 /\ queue'[i] = tasks[i - Len(queue)]
<1>1. /\ wanted' \in Seq({"mail", "forward", "draft"})
      /\ Len(wanted') = Len(wanted) + 1
      /\ Len(wanted) \in Nat
      /\ NextText = Len(wanted')
      /\ Len(wanted') <= MaxTexts
  BY SMT DEF TypeInv, TypeOK, Submit, NextText
<1>2. [copied |-> 0, origin |-> k] \in OutboxRow
  BY SMT DEF OutboxRow
<1>3. outbox' \in [Texts -> OutboxRow \cup {NoRow}]
  BY <1>2, SMT DEF TypeInv, TypeOK, Submit
<1>4. PICK n \in 0 .. Len(tasks) : queue' = queue \o SubSeq(tasks, 1, n)
  BY DEF Submit
<1> DEFINE s == SubSeq(tasks, 1, n)
<1>5. /\ n \in Nat /\ Len(tasks) \in Nat /\ n <= Len(tasks)
      /\ \A i \in 1 .. n : tasks[i] \in Task
  BY SMT
<1>6. s \in Seq(Task) /\ Len(s) = n /\ \A i \in 1 .. n : s[i] = tasks[i]
  <2>1. /\ s \in Seq(Task)
        /\ Len(s) = IF 1 <= n THEN n - 1 + 1 ELSE 0
        /\ \A i \in 1 .. n - 1 + 1 : s[i] = tasks[1 + i - 1]
    BY <1>5, SubSeqProperties
  <2>2. QED
    BY <1>5, <2>1, SMT
<1>7. /\ queue' \in Seq(Task)
      /\ Len(queue') = Len(queue) + n
      /\ Len(queue) \in Nat
      /\ \A i \in 1 .. Len(queue) + n : queue'[i] =
            IF i <= Len(queue) THEN queue[i] ELSE s[i - Len(queue)]
  <2>1. queue \in Seq(Task)
    BY DEF TypeInv, TypeOK
  <2> HIDE DEF s
  <2>2. queue' = queue \o s
    BY <1>4 DEF s
  <2>3. /\ queue \o s \in Seq(Task)
        /\ Len(queue \o s) = Len(queue) + Len(s)
        /\ \A i \in 1 .. Len(queue) + Len(s) : (queue \o s)[i] =
              IF i <= Len(queue) THEN queue[i] ELSE s[i - Len(queue)]
    BY <1>6, <2>1, ConcatProperties
  <2>4. QED
    BY <1>6, <2>1, <2>2, <2>3, SMT
<1>8. /\ \A i \in 1 .. Len(queue) : queue'[i] = queue[i]
      /\ \A i \in 1 .. Len(queue') : i > Len(queue) =>
            i - Len(queue) \in 1 .. n /\ queue'[i] = tasks[i - Len(queue)]
  <2> HIDE DEF s
  <2> QED
    BY <1>5, <1>6, <1>7, SMT
<1>9. TasksKnown'
  <2>1. ASSUME NEW i \in 1 .. Len(queue') PROVE Known(queue[i])'
    <3>1. CASE i <= Len(queue)
      <4>1. i \in 1 .. Len(queue) /\ queue'[i] = queue[i] /\ Known(queue[i])
        BY <1>7, <1>8, <3>1, SMT DEF TypeInv, TasksKnown
      <4>2. QED
        BY <1>1, <4>1, SMT DEF Known
    <3>2. CASE i > Len(queue)
      <4>1. /\ i - Len(queue) \in 1 .. Len(tasks)
            /\ queue'[i] = tasks[i - Len(queue)]
        BY <1>5, <1>7, <1>8, <3>2, SMT
      <4>2. queue'[i] \in Task
        BY <4>1, SMT
      <4>3. QED
        BY <1>1, <4>1, <4>2, SMT DEF Known
    <3>3. QED
      BY <1>7, <3>1, <3>2, SMT
  <2>2. QED
    BY <2>1 DEF TasksKnown
<1>10. JobsKnown'
  BY <1>1, SMT DEF TypeInv, JobsKnown, Known, Submit
<1>11. TypeOK'
  <2>1. /\ raced' \subseteq Texts /\ rows' \in Seq(MessageRow)
        /\ drafts' \in Seq(Texts \cup {Deleted})
        /\ mailed' \in [Texts -> [times : Nat, complete : BOOLEAN]]
        /\ job' \in [Processes -> Job]
        /\ resent' \in [Texts -> Nat] /\ lost' \in [Texts -> Nat]
        /\ discarded' \subseteq Texts
    BY DEF TypeInv, TypeOK, Submit, gmail
  <2>2. fresh' \subseteq Texts
    BY DEF TypeInv, TypeOK, Submit
  <2>3. QED
    BY <1>1, <1>3, <1>7, <2>1, <2>2 DEF TypeOK
<1>12. QED
  BY <1>1, <1>5, <1>7, <1>8, <1>9, <1>10, <1>11, SMT DEF TypeInv

\* What an action that submits a form about a row gives the broker.
FormTasks(want, key, tasks) ==
    /\ key \in 0 .. Len(rows) /\ (want = "forward" => key # NoKey)
    /\ tasks \in Seq(Task)
    /\ \A i \in 1 .. Len(tasks) :
         /\ tasks[i].kind # "none"
         /\ tasks[i].kind # "trash" => tasks[i].text = NextText
         /\ tasks[i].kind \in {"update", "trash"} => tasks[i].key # NoKey
         /\ i > 1 => tasks[i].kind = "trash"
         /\ tasks[i].key \in 0 .. Len(rows)
         /\ tasks[i].kind \in {"update", "trash"} => IsDraftRow(tasks[i].key)
         /\ tasks[i].kind \in {"create", "update"} => want = "draft"

LEMMA FormTyped ==
    ASSUME TypeInv, NEW k \in Nat \ {0},
           \/ SendNew \/ SaveNewDraft
           \/ SendDraft(k) \/ ReplyOrForward(k) \/ SaveDraft(k)
    PROVE  \E want \in {"mail", "forward", "draft"}, key \in Nat, tasks \in Seq(Task) :
             Submit(want, key, tasks) /\ FormTasks(want, key, tasks)
<1> DEFINE one(task) == <<task>>
           two(t1, t2) == <<t1, t2>>
<1>1. Len(wanted) \in Nat /\ NextText \in Nat /\ Len(rows) \in Nat /\ 0 \in 0 .. Len(rows)
  BY SMT DEF TypeInv, TypeOK, NextText
<1>2. NextText \in Texts
  BY DEF SendNew, SaveNewDraft, SendDraft, ReplyOrForward, SaveDraft, Submit
<1>3. /\ Send(NextText, NoKey) \in Task /\ Send(NextText, k) \in Task
      /\ Create(NextText) \in Task /\ Update(NextText, k) \in Task
      /\ TrashTask(k) \in Task
  BY <1>1, <1>2, SMT DEF Send, Create, Update, TrashTask, Task
<1>4. IsDraftRow(k) \/ Stored(k) => k \in 0 .. Len(rows)
  BY <1>1, SMT DEF IsDraftRow, Stored, Key
<1>5. FormTasks("mail", NoKey, one(Send(NextText, NoKey)))
  BY <1>1, <1>3, SMT DEF FormTasks, Send
<1>6. IsDraftRow(k) => FormTasks("forward", k, one(Send(NextText, NoKey)))
  BY <1>1, <1>3, <1>4, SMT DEF FormTasks, Send
<1>7. Stored(k) => FormTasks("forward", k, one(Send(NextText, k)))
  BY <1>3, <1>4, SMT DEF FormTasks, Send
<1>8. FormTasks("draft", NoKey, one(Create(NextText)))
  BY <1>1, <1>3, SMT DEF FormTasks, Create
<1>9. IsDraftRow(k) => FormTasks("draft", k, one(Update(NextText, k)))
  BY <1>3, <1>4, SMT DEF FormTasks, Update
<1>10. IsDraftRow(k) =>
         FormTasks("forward", k, two(Send(NextText, NoKey), TrashTask(k)))
  <2> SUFFICES ASSUME IsDraftRow(k)
               PROVE  FormTasks("forward", k, two(Send(NextText, NoKey), TrashTask(k)))
    OBVIOUS
  <2> DEFINE both == two(Send(NextText, NoKey), TrashTask(k))
  <2>1. /\ both \in Seq(Task) /\ Len(both) = 2
        /\ both[1] = Send(NextText, NoKey) /\ both[2] = TrashTask(k)
    BY <1>3, SMT
  <2> HIDE DEF both
  <2>2. \A i \in 1 .. Len(both) : i = 1 \/ (i = 2 /\ i > 1)
    BY <2>1, SMT
  <2>3. ~(1 > 1) /\ k # NoKey
    BY SMT
  <2>4. FormTasks("forward", k, both)
    BY <1>1, <1>4, <2>1, <2>2, <2>3, SMT DEF FormTasks, Send, TrashTask
  <2>5. QED
    BY <2>4 DEF both
<1>11. ASSUME NEW want \in {"mail", "forward", "draft"}, NEW key \in Nat,
              NEW tasks, Submit(want, key, tasks), FormTasks(want, key, tasks)
       PROVE  \E w \in {"mail", "forward", "draft"}, y \in Nat, ts \in Seq(Task) :
                 Submit(w, y, ts) /\ FormTasks(w, y, ts)
  <2>1. tasks \in Seq(Task)
    BY <1>11 DEF FormTasks
  <2>2. QED
    BY <1>11, <2>1, Zenon
<1>12. CASE SendNew
  BY <1>5, <1>11, <1>12 DEF SendNew
<1>13. CASE SaveNewDraft
  BY <1>8, <1>11, <1>13 DEF SaveNewDraft
<1>14. CASE SendDraft(k) /\ Stored(k)
  BY <1>10, <1>11, <1>14 DEF SendDraft
<1>15. CASE SendDraft(k) /\ ~Stored(k)
  BY <1>6, <1>11, <1>15 DEF SendDraft
<1>16. CASE ReplyOrForward(k)
  BY <1>7, <1>11, <1>16 DEF ReplyOrForward
<1>17. CASE SaveDraft(k)
  BY <1>9, <1>11, <1>17 DEF SaveDraft
<1>18. QED
  BY <1>12, <1>13, <1>14, <1>15, <1>16, <1>17

LEMMA BeginTyped ==
    ASSUME TypeInv, NEW p \in Processes, NEW task, Known(task), Loads(task),
           Begin(p, task)
    PROVE  /\ job' \in [Processes -> Job]
           /\ \A q \in Processes : q # p => job'[q] = job[q]
           /\ job'[p].task = task /\ job'[p].step = "call"
           /\ outbox' \in [Texts -> OutboxRow \cup {NoRow}]
           /\ \A t \in Texts : outbox[t] # NoRow => outbox'[t] # NoRow
           /\ raced \subseteq raced' /\ raced' \subseteq Texts
<1>0. raced \subseteq raced' /\ raced' \subseteq Texts
  BY DEF Begin, Race, TypeInv, TypeOK
<1>1. DraftIdOf(task) \in Nat
  <2>1. CASE task.kind \in {"update", "trash"}
    <3>1. Stored(task.key)
      BY <2>1, SMT DEF Loads, Known
    <3>2. rows[task.key] \in MessageRow
      BY <3>1, SMT DEF TypeInv, TypeOK, Stored, Key
    <3>3. QED
      BY <3>2, SMT DEF DraftIdOf, MessageRow
  <2>2. CASE task.kind \notin {"update", "trash"}
    BY <2>2, SMT DEF DraftIdOf
  <2>3. QED
    BY <2>1, <2>2
<1>2. [step |-> "call", task |-> task, draft |-> DraftIdOf(task)] \in Job
  BY <1>1, SMT DEF Known, Job
<1>3. /\ job' \in [Processes -> Job]
      /\ \A q \in Processes : q # p => job'[q] = job[q]
      /\ job'[p] = [step |-> "call", task |-> task, draft |-> DraftIdOf(task)]
  BY <1>2, SMT DEF TypeInv, TypeOK, Begin, Become
<1>4. /\ outbox' \in [Texts -> OutboxRow \cup {NoRow}]
      /\ \A t \in Texts : outbox[t] # NoRow => outbox'[t] # NoRow
  <2>1. CASE UNCHANGED outbox
    BY <2>1 DEF TypeInv, TypeOK
  <2>2. CASE /\ task.kind = "send"
             /\ outbox' = [outbox EXCEPT ![task.text].copied = @ + 1]
    <3>1. task.text \in Texts /\ outbox[task.text] \in OutboxRow
      BY <2>2, SMT DEF Known, Task, Loads, TypeInv, TypeOK
    <3>2. [outbox[task.text] EXCEPT !.copied = @ + 1] \in OutboxRow
      BY <3>1, SMT DEF OutboxRow
    <3>3. outbox' = [outbox EXCEPT ![task.text] =
                                     [outbox[task.text] EXCEPT !.copied = @ + 1]]
      BY <2>2
    <3>4. QED
      BY <3>1, <3>2, <3>3, NoRowIsNoRow DEF TypeInv, TypeOK
  <2>3. QED
    BY <2>1, <2>2 DEF Begin, CopyAttachments
<1>5. QED
  BY <1>0, <1>3, <1>4, SMT

\* What Gmail does with a text of a process that waits for its answer.
LEMMA CarriedTyped ==
    ASSUME TypeInv, NEW p \in Processes, job[p].step = "call", Carried(p)
    PROVE  /\ drafts' \in Seq(Texts \cup {Deleted})
           /\ mailed' \in [Texts -> [times : Nat, complete : BOOLEAN]]
           /\ discarded' \subseteq Texts
           /\ Len(drafts') >= Len(drafts)
<1>1. /\ job[p] \in Job /\ job[p].task \in Task
      /\ Kind(p) # "trash" => Text(p) \in Texts
  BY SMT DEF TypeInv, TypeOK, JobsKnown, Known, Job, Task, Kind, Text
<1>2. drafts \in Seq(Texts \cup {Deleted}) /\ Len(drafts) \in Nat
      /\ \A d \in 1 .. Len(drafts) : drafts[d] \in Texts \cup {Deleted}
  BY SMT DEF TypeInv, TypeOK
<1>3. CASE Kind(p) = "send" /\ Mail(Text(p))
  <2>1. mailed[Text(p)] \in [times : Nat, complete : BOOLEAN]
    BY <1>1, <1>3, SMT DEF TypeInv, TypeOK
  <2>2. Complete(Text(p)) \in BOOLEAN
    BY DEF Complete, Picture
  <2> DEFINE new == [times |-> mailed[Text(p)].times + 1,
                     complete |-> mailed[Text(p)].complete /\ Complete(Text(p))]
  <2>3. mailed[Text(p)].times \in Nat
    BY <2>1
  <2>4. (mailed[Text(p)].complete /\ Complete(Text(p))) \in BOOLEAN
    OBVIOUS
  <2>5. new \in [times : Nat, complete : BOOLEAN]
    <3> DEFINE c == mailed[Text(p)].complete /\ Complete(Text(p))
    <3>1. c \in BOOLEAN
      BY <2>4
    <3> HIDE DEF c
    <3>2. [times |-> mailed[Text(p)].times + 1, complete |-> c]
             \in [times : Nat, complete : BOOLEAN]
      BY <2>3, <3>1, SMT
    <3>3. QED
      BY <3>2 DEF c
  <2>6. mailed' = [mailed EXCEPT ![Text(p)] = new]
    BY <1>3 DEF Mail
  <2> HIDE DEF new
  <2>7. mailed' \in [Texts -> [times : Nat, complete : BOOLEAN]]
    BY <1>1, <1>3, <2>5, <2>6 DEF TypeInv, TypeOK
  <2>8. QED
    BY <1>2, <1>3, <2>7, SMT DEF Mail, TypeInv, TypeOK
<1>4. CASE Kind(p) = "create" /\ NewDraft(Text(p))
  <2>1. drafts' = Append(drafts, Text(p)) /\ mailed' = mailed /\ discarded' = discarded
    BY <1>4 DEF NewDraft
  <2>2. drafts' \in Seq(Texts \cup {Deleted}) /\ Len(drafts') = Len(drafts) + 1
    <3>1. Text(p) \in Texts \cup {Deleted}
      BY <1>1, <1>4
    <3>2. ASSUME NEW S, NEW s \in Seq(S), NEW x \in S
          PROVE  Append(s, x) \in Seq(S) /\ Len(Append(s, x)) = Len(s) + 1
      BY ONLY AppendProperties
    <3>3. QED
      BY <1>2, <2>1, <3>1, <3>2
  <2>3. /\ mailed' \in [Texts -> [times : Nat, complete : BOOLEAN]]
        /\ discarded' \subseteq Texts
    BY <2>1 DEF TypeInv, TypeOK
  <2>4. Len(drafts') >= Len(drafts)
    BY <1>2, <2>2, SMT
  <2>5. QED
    BY <2>2, <2>3, <2>4
<1>5. CASE Kind(p) = "update" /\ ReplaceDraft(job[p].draft, Text(p))
  <2>1. job[p].draft \in 1 .. Len(drafts) /\ drafts[job[p].draft] \in Texts
    BY <1>2, <1>5, SMT DEF ReplaceDraft, Held
  <2>2. /\ drafts' \in Seq(Texts \cup {Deleted})
        /\ Len(drafts') = Len(drafts)
    <3>1. drafts' = [drafts EXCEPT ![job[p].draft] = Text(p)]
      BY <1>5 DEF ReplaceDraft
    <3>2. Text(p) \in Texts \cup {Deleted}
      BY <1>1, <1>5
    <3>3. QED
      BY <1>2, <2>1, <3>1, <3>2, ExceptSeq
  <2>3. /\ discarded' \subseteq Texts
        /\ mailed' \in [Texts -> [times : Nat, complete : BOOLEAN]]
    BY <1>5, <2>1 DEF ReplaceDraft, TypeInv, TypeOK
  <2>4. QED
    BY <1>2, <2>2, <2>3, SMT
<1>6. CASE Kind(p) = "trash" /\ DeleteDraft(job[p].draft)
  <2>1. job[p].draft \in 1 .. Len(drafts) /\ drafts[job[p].draft] \in Texts
    BY <1>2, <1>6, SMT DEF DeleteDraft, Held
  <2>2. /\ drafts' \in Seq(Texts \cup {Deleted})
        /\ Len(drafts') = Len(drafts)
    <3>1. drafts' = [drafts EXCEPT ![job[p].draft] = Deleted]
      BY <1>6 DEF DeleteDraft
    <3>2. Deleted \in Texts \cup {Deleted}
      OBVIOUS
    <3>3. QED
      BY <1>2, <2>1, <3>1, <3>2, ExceptSeq
  <2>3. /\ discarded' \subseteq Texts
        /\ mailed' \in [Texts -> [times : Nat, complete : BOOLEAN]]
    BY <1>6, <2>1 DEF DeleteDraft, TypeInv, TypeOK
  <2>4. QED
    BY <1>2, <2>2, <2>3, SMT
<1>7. QED
  BY <1>3, <1>4, <1>5, <1>6 DEF Carried

\* A process goes on with its task, or has none.
LEMMA JobsStep ==
    ASSUME JobsKnown, Len(wanted') = Len(wanted),
           \A q \in Processes :
              \/ job'[q] = job[q]
              \/ job'[q].step = "idle"
              \/ /\ job[q].step # "idle"
                 /\ job'[q].task = job[q].task
                 /\ job[q].task.kind # "trash"
    PROVE  JobsKnown'
<1> SUFFICES ASSUME NEW q \in Processes, job'[q].step # "idle"
             PROVE  /\ Known(job[q].task)'
                    /\ job'[q].step # "call" => job'[q].task.kind # "trash"
  BY DEF JobsKnown
<1>1. CASE job'[q] = job[q]
  BY <1>1, SMT DEF JobsKnown, Known
<1>2. CASE /\ job[q].step # "idle"
           /\ job'[q].task = job[q].task
           /\ job[q].task.kind # "trash"
  <2>1. Known(job[q].task)
    BY <1>2 DEF JobsKnown
  <2>2. QED
    BY <1>2, <2>1 DEF Known
<1>3. QED
  BY <1>1, <1>2

\* A function on 1 .. n is a sequence.
LEMMA FunctionIsSeq ==
    ASSUME NEW S, NEW n \in Nat, NEW f \in [1 .. n -> S]
    PROVE  f \in Seq(S)
BY SeqDef

LEMMA StepTyped ==
    ASSUME TypeInv, NEW p \in Processes, Step(p)
    PROVE  TypeInv'
<1> USE DEF gmail, history
<1>1. /\ job[p] \in Job /\ job[p].task \in Task
      /\ queue \in Seq(Task) /\ Len(queue) \in Nat
      /\ rows \in Seq(MessageRow) /\ Len(rows) \in Nat
      /\ drafts \in Seq(Texts \cup {Deleted}) /\ Len(drafts) \in Nat
      /\ Len(wanted) \in Nat
  BY SMT DEF TypeInv, TypeOK, Job
<1>2. CASE Answered(p)
  <2>2. /\ job' \in [Processes -> Job]
        /\ \A q \in Processes : q # p => job'[q] = job[q]
        /\ job'[p].step # "idle" => /\ job'[p].task = job[p].task
                                    /\ job[p].task.kind # "trash"
    <3>1. CASE Kind(p) = "trash"
      BY <1>2, <3>1, FinishTyped, IdleIsJob DEF Answered
    <3>2. CASE Kind(p) # "trash"
      <4> DEFINE d == IF Kind(p) = "create" THEN Len(drafts) + 1 ELSE job[p].draft
                 j == [step |-> "store", task |-> job[p].task, draft |-> d]
      <4>1. d \in Nat
        BY <1>1, SMT DEF Job
      <4> HIDE DEF d
      <4>2. j \in Job /\ j.task = job[p].task
        BY <1>1, <4>1 DEF Job
      <4>3. job' = [job EXCEPT ![p] = j]
        BY <1>2, <3>2 DEF Answered, Become, d
      <4> HIDE DEF j
      <4>4. QED
        BY <3>2, <4>2, <4>3 DEF TypeInv, TypeOK, Kind
    <3>3. QED
      BY <3>1, <3>2
  <2>3. TypeOK'
    BY <1>2, <2>2, CarriedTyped DEF Answered, TypeInv, TypeOK
  <2>4. TasksKnown'
    BY <1>2, SMT DEF Answered, TypeInv, TasksKnown, Known
  <2>5. JobsKnown'
    <3>1. job[p].step # "idle" /\ UNCHANGED wanted
      BY <1>2 DEF Answered
    <3>2. QED
      BY <2>2, <3>1, JobsStep DEF TypeInv
  <2>6. QED
    BY <2>3, <2>4, <2>5 DEF TypeInv
<1>3. CASE AnswerLost(p)
  <2>1. /\ job' \in [Processes -> Job]
        /\ \A q \in Processes : job'[q] = job[q] \/ job'[q] = Idle
    BY <1>3, FinishTyped DEF AnswerLost, TypeInv, TypeOK
  <2>2. lost' \in [Texts -> Nat]
    <3>1. lost' = [lost EXCEPT ![Text(p)] = lost[Text(p)] + 1]
      BY <1>3 DEF AnswerLost
    <3>2. lost \in [Texts -> Nat]
      BY DEF TypeInv, TypeOK
    <3>3. \A t \in Texts : lost[t] + 1 \in Nat
      BY <3>2, SMT
    <3>4. QED
      BY <3>1, <3>2, <3>3
  <2>3. TypeOK'
    BY <1>3, <2>1, <2>2, CarriedTyped DEF AnswerLost, TypeInv, TypeOK
  <2>4. TasksKnown'
    BY <1>3, SMT DEF AnswerLost, TypeInv, TasksKnown, Known
  <2>5. JobsKnown'
    <3>1. \A q \in Processes : job'[q] = job[q] \/ job'[q].step = "idle"
      BY <2>1, IdleIsJob
    <3>2. UNCHANGED wanted
      BY <1>3 DEF AnswerLost
    <3>3. QED
      BY <3>1, <3>2, JobsStep DEF TypeInv
  <2>6. QED
    BY <2>3, <2>4, <2>5 DEF TypeInv
<1>4. ASSUME NEW q \in Processes, Finish(q), UNCHANGED wanted
      PROVE  JobsKnown'
  BY <1>4, FinishTyped, IdleIsJob, SMT DEF TypeInv, JobsKnown, Known
<1>5. CASE NotFound(p)
  <2>1. rows' \in Seq(MessageRow)
    <3>1. CASE Kind(p) = "trash"
      <4>1. CASE job[p].task.key \in 1 .. Len(rows)
        <5>1. rows[job[p].task.key] \in MessageRow
          BY <1>1, <4>1
        <5>2. [rows[job[p].task.key] EXCEPT !.there = FALSE] \in MessageRow
          BY <5>1, RowFlags
        <5>3. rows' = [rows EXCEPT ![job[p].task.key] =
                                   [rows[job[p].task.key] EXCEPT !.there = FALSE]]
          BY <1>5, <3>1 DEF NotFound
        <5>4. QED
          BY <1>1, <4>1, <5>2, <5>3, ExceptSeq
      <4>2. CASE job[p].task.key \notin 1 .. Len(rows)
        <5>1. rows' = [rows EXCEPT ![job[p].task.key].there = FALSE]
          BY <1>5, <3>1 DEF NotFound
        <5>2. rows \in [1 .. Len(rows) -> MessageRow]
          BY <1>1, SMT
        <5>3. rows' \in [1 .. Len(rows) -> MessageRow]
          BY <4>2, <5>1, <5>2
        <5>4. QED
          BY <1>1, <5>3, FunctionIsSeq
      <4>3. QED
        BY <4>1, <4>2
    <3>2. QED
      BY <1>1, <1>5, <3>1 DEF NotFound
  <2>2. TypeOK'
    BY <1>5, <2>1, FinishTyped DEF NotFound, TypeInv, TypeOK
  <2>3. TasksKnown'
    BY <1>5, SMT DEF NotFound, TypeInv, TasksKnown, Known
  <2>4. JobsKnown'
    BY <1>4, <1>5 DEF NotFound
  <2>5. QED
    BY <2>2, <2>3, <2>4 DEF TypeInv
<1>6. CASE CallFails(p)
  <2>1. /\ queue' \in Seq(Task)
        /\ \A i \in 1 .. Len(queue') :
              queue'[i] = job[p].task \/ (i \in 1 .. Len(queue) /\ queue'[i] = queue[i])
    <3>1. CASE UNCHANGED queue
      BY <1>1, <3>1
    <3>2. CASE queue' = Append(queue, job[p].task)
      <4> DEFINE e == job[p].task
      <4>1. e \in Task /\ queue \in Seq(Task) /\ queue' = Append(queue, e)
        BY <1>1, <3>2
      <4> HIDE DEF e
      <4>2. /\ queue' \in Seq(Task) /\ Len(queue') = Len(queue) + 1
            /\ \A i : i = Len(queue) + 1 => queue'[i] = e
            /\ \A i \in 1 .. Len(queue) : queue'[i] = queue[i]
        BY <4>1, SMT
      <4>3. \A i \in 1 .. Len(queue') : i \in 1 .. Len(queue) \/ i = Len(queue) + 1
        BY <1>1, <4>2, SMT
      <4>4. \A i \in 1 .. Len(queue') :
               queue'[i] = e \/ (i \in 1 .. Len(queue) /\ queue'[i] = queue[i])
        BY <4>2, <4>3, Zenon
      <4>5. QED
        BY <4>2, <4>4 DEF e
    <3>3. QED
      BY <1>6, <3>1, <3>2 DEF CallFails
  <2>2. TypeOK'
    BY <1>6, <2>1, FinishTyped DEF CallFails, TypeInv, TypeOK
  <2>3. Known(job[p].task)
    BY <1>6, SMT DEF CallFails, TypeInv, JobsKnown
  <2>4. TasksKnown'
    BY <1>6, <2>1, <2>3, SMT DEF CallFails, TypeInv, TasksKnown, Known
  <2>5. JobsKnown'
    BY <1>4, <1>6 DEF CallFails
  <2>6. QED
    BY <2>2, <2>4, <2>5 DEF TypeInv
<1>7. CASE Store(p)
  <2>1. /\ job' \in [Processes -> Job]
        /\ \A q \in Processes : q # p => job'[q] = job[q]
        /\ job'[p].step # "idle" => job'[p].task = job[p].task
    <3>1. CASE Goto(p, "delete")
      <4> DEFINE j == [job[p] EXCEPT !.step = "delete"]
      <4>1. j \in Job /\ j.task = job[p].task
        BY <1>1, JobGoesOn
      <4>2. job' = [job EXCEPT ![p] = j]
        BY <3>1 DEF Goto, Become
      <4> HIDE DEF j
      <4>3. QED
        BY <4>1, <4>2 DEF TypeInv, TypeOK
    <3>2. QED
      BY <1>7, <3>1, FinishTyped, IdleIsJob DEF Store
  <2>2. rows' \in Seq(MessageRow)
    <3>1. CASE StoreDraft(job[p].draft, Text(p))
      <4>1. DraftRow(job[p].draft, Text(p), TRUE) \in MessageRow
        BY <1>1, SMT DEF DraftRow, MessageRow, Job, Task, Text
      <4>2. CASE rows' = Append(rows, DraftRow(job[p].draft, Text(p), TRUE))
        BY <1>1, <4>1, <4>2, AppendProperties
      <4>3. CASE rows' = [k \in 1 .. Len(rows) |->
                            IF k \in RowOf(job[p].draft, Text(p))
                            THEN [rows[k] EXCEPT !.known = TRUE] ELSE rows[k]]
        <5>1. \A row \in MessageRow : [row EXCEPT !.known = TRUE] \in MessageRow
          BY RowFlags
        <5>2. \A k \in 1 .. Len(rows) : rows[k] \in MessageRow
          BY <1>1
        <5>3. rows' \in [1 .. Len(rows) -> MessageRow]
          BY <4>3, <5>1, <5>2
        <5>4. QED
          BY <1>1, <5>3, FunctionIsSeq
      <4>4. QED
        BY <3>1, <4>2, <4>3 DEF StoreDraft
    <3>2. QED
      BY <1>1, <1>7, <3>1 DEF Store
  <2>3. TypeOK'
    BY <1>7, <2>1, <2>2 DEF Store, TypeInv, TypeOK
  <2>4. TasksKnown'
    BY <1>7, SMT DEF Store, TypeInv, TasksKnown, Known
  <2>5. JobsKnown'
    BY <1>7, <2>1, SMT DEF Store, TypeInv, JobsKnown, Known
  <2>6. QED
    BY <2>3, <2>4, <2>5 DEF TypeInv
<1>8. CASE DeleteRow(p)
  <2>1. outbox' \in [Texts -> OutboxRow \cup {NoRow}]
    BY <1>8 DEF DeleteRow, TypeInv, TypeOK
  <2>2. TypeOK'
    BY <1>8, <2>1, FinishTyped DEF DeleteRow, TypeInv, TypeOK
  <2>3. TasksKnown'
    BY <1>8, SMT DEF DeleteRow, TypeInv, TasksKnown, Known
  <2>4. JobsKnown'
    BY <1>4, <1>8 DEF DeleteRow
  <2>5. QED
    BY <2>2, <2>3, <2>4 DEF TypeInv
<1>9. CASE Crash(p)
  <2>1. TypeOK'
    BY <1>9, FinishTyped DEF Crash, TypeInv, TypeOK
  <2>2. TasksKnown'
    BY <1>9, SMT DEF Crash, TypeInv, TasksKnown, Known
  <2>3. JobsKnown'
    BY <1>4, <1>9 DEF Crash
  <2>4. QED
    BY <2>1, <2>2, <2>3 DEF TypeInv
<1>10. QED
  BY <1>2, <1>3, <1>5, <1>6, <1>7, <1>8, <1>9 DEF Step

LEMMA NextTyped == TypeInv /\ [Next]_vars => TypeInv'
<1> SUFFICES ASSUME TypeInv, [Next]_vars PROVE TypeInv'
  OBVIOUS
<1> USE DEF gmail, history
<1>0. /\ queue \in Seq(Task) /\ Len(queue) \in Nat
      /\ rows \in Seq(MessageRow) /\ Len(rows) \in Nat
      /\ drafts \in Seq(Texts \cup {Deleted}) /\ Len(drafts) \in Nat
      /\ Len(wanted) \in Nat
  BY SMT DEF TypeInv, TypeOK
<1>1. ASSUME NEW k \in Nat \ {0},
             \/ SendNew \/ SaveNewDraft
             \/ SendDraft(k) \/ ReplyOrForward(k) \/ SaveDraft(k)
      PROVE  TypeInv'
  BY <1>1, FormTyped, SubmitTyped DEF FormTasks
<1>2. ASSUME NEW k \in 1 .. Len(rows), TrashDraft(k) PROVE TypeInv'
  <2>1. TrashTask(k) \in Task
    BY <1>0, SMT DEF TrashTask, Task
  <2>2. /\ queue' \in Seq(Task) /\ Len(queue') = 1 /\ queue'[1] = TrashTask(k)
    BY <1>2, <2>1, SMT DEF TrashDraft
  <2>3. TypeOK'
    BY <1>2, <2>2 DEF TrashDraft, TypeInv, TypeOK
  <2>4. TasksKnown'
    BY <1>0, <1>2, <2>1, <2>2, SMT DEF TasksKnown, Known, TrashTask
  <2>5. JobsKnown'
    BY <1>2, JobsStep DEF TrashDraft, TypeInv
  <2>6. QED
    BY <2>3, <2>4, <2>5 DEF TypeInv
<1>3. ASSUME NEW k \in 1 .. Len(rows), SyncRemoves(k) PROVE TypeInv'
  <2>1. rows' \in Seq(MessageRow)
    <3>1. rows' = [rows EXCEPT ![k] = [rows[k] EXCEPT !.there = FALSE]]
      BY <1>3 DEF SyncRemoves
    <3>2. [rows[k] EXCEPT !.there = FALSE] \in MessageRow
      <4>1. rows[k] \in MessageRow
        BY <1>0
      <4>2. QED
        BY <4>1, RowFlags
    <3>3. QED
      BY <1>0, <3>1, <3>2, ExceptSeq
  <2>2. TypeOK'
    BY <1>3, <2>1 DEF SyncRemoves, TypeInv, TypeOK
  <2>3. TasksKnown'
    BY <1>3, SMT DEF SyncRemoves, TypeInv, TasksKnown, Known
  <2>4. JobsKnown'
    BY <1>3, JobsStep DEF SyncRemoves, TypeInv
  <2>5. QED
    BY <2>2, <2>3, <2>4 DEF TypeInv
<1>4. ASSUME NEW k \in 1 .. Len(rows), DeletedElsewhere(k) PROVE TypeInv'
  <2>1. rows' \in Seq(MessageRow)
    <3>1. CASE IsDraftRow(k)
      BY <1>0, <1>4, <3>1 DEF DeletedElsewhere
    <3>2. CASE ~IsDraftRow(k)
      <4>1. rows' = [rows EXCEPT ![k] = [rows[k] EXCEPT !.there = FALSE]]
        BY <1>4, <3>2 DEF DeletedElsewhere
      <4>2. [rows[k] EXCEPT !.there = FALSE] \in MessageRow
        <5>1. rows[k] \in MessageRow
          BY <1>0
        <5>2. QED
          BY <5>1, RowFlags
      <4>3. QED
        BY <1>0, <4>1, <4>2, ExceptSeq
    <3>3. QED
      BY <3>1, <3>2
  <2>2. /\ drafts' \in Seq(Texts \cup {Deleted}) /\ discarded' \subseteq Texts
        /\ UNCHANGED mailed
    <3>1. CASE DeleteDraft(rows[k].draft)
      <4> DEFINE d == rows[k].draft
      <4>1. d \in 1 .. Len(drafts) /\ drafts[d] # Deleted
        BY <3>1 DEF DeleteDraft, Held
      <4>2. drafts[d] \in Texts
        BY <1>0, <4>1
      <4>3. drafts' = [drafts EXCEPT ![d] = Deleted]
            /\ discarded' = discarded \cup {drafts[d]} /\ UNCHANGED mailed
        BY <3>1 DEF DeleteDraft
      <4> HIDE DEF d
      <4>4. Deleted \in Texts \cup {Deleted}
        OBVIOUS
      <4>5. drafts' \in Seq(Texts \cup {Deleted})
        BY <1>0, <4>1, <4>3, <4>4, ExceptSeq
      <4>6. QED
        BY <4>2, <4>3, <4>5 DEF TypeInv, TypeOK
    <3>2. QED
      BY <1>4, <3>1 DEF DeletedElsewhere, TypeInv, TypeOK
  <2>3. fresh' \subseteq Texts
    BY <1>4 DEF DeletedElsewhere, Disturb, TypeInv, TypeOK
  <2>4. TypeOK'
    BY <1>4, <2>1, <2>2, <2>3 DEF DeletedElsewhere, TypeInv, TypeOK
  <2>5. TasksKnown'
    BY <1>4, SMT DEF DeletedElsewhere, TypeInv, TasksKnown, Known
  <2>6. JobsKnown'
    BY <1>4, JobsStep DEF DeletedElsewhere, TypeInv
  <2>7. QED
    BY <2>4, <2>5, <2>6 DEF TypeInv
<1>5. ASSUME NEW d \in 1 .. Len(drafts), SyncDownloads(d) PROVE TypeInv'
  <2> DEFINE row == DraftRow(d, drafts[d], FALSE)
  <2>1. row \in MessageRow /\ rows' = Append(rows, row)
    BY <1>0, <1>5, SMT DEF SyncDownloads, DraftRow, MessageRow
  <2> HIDE DEF row
  <2>2. rows' \in Seq(MessageRow)
    BY <1>0, <2>1, AppendProperties
  <2>3. TypeOK'
    BY <1>5, <2>2 DEF SyncDownloads, TypeInv, TypeOK
  <2>4. TasksKnown'
    BY <1>5, SMT DEF SyncDownloads, TypeInv, TasksKnown, Known
  <2>5. JobsKnown'
    BY <1>5, JobsStep DEF SyncDownloads, TypeInv
  <2>6. QED
    BY <2>3, <2>4, <2>5 DEF TypeInv
<1>6. ASSUME NEW w \in Workers, Start(w) PROVE TypeInv'
  <2>1. /\ Head(queue) \in Task /\ queue' \in Seq(Task)
        /\ Len(queue') = Len(queue) - 1
        /\ \A i \in 1 .. Len(queue') : i + 1 \in 1 .. Len(queue) /\ queue'[i] = queue[i + 1]
        /\ Head(queue) = queue[1] /\ 1 \in 1 .. Len(queue)
    BY <1>0, <1>6, SMT DEF Start
  <2>2. Known(Head(queue))
    BY <2>1, SMT DEF TypeInv, TasksKnown
  <2>3. TasksKnown'
    BY <1>6, <2>1, SMT DEF Start, TypeInv, TasksKnown, Known
  <2>4. /\ job' \in [Processes -> Job]
        /\ outbox' \in [Texts -> OutboxRow \cup {NoRow}]
        /\ raced' \subseteq Texts
        /\ JobsKnown'
    <3>1. CASE Loads(Head(queue)) /\ Begin(w, Head(queue))
      <4>1. w \in Processes
        BY DEF Processes
      <4>2. /\ job' \in [Processes -> Job]
            /\ \A q \in Processes : q # w => job'[q] = job[q]
            /\ job'[w].task = Head(queue) /\ job'[w].step = "call"
            /\ outbox' \in [Texts -> OutboxRow \cup {NoRow}]
            /\ raced' \subseteq Texts
        BY <2>2, <3>1, <4>1, BeginTyped
      <4>3. UNCHANGED wanted
        BY <1>6 DEF Start
      <4>4. JobsKnown'
        BY <2>2, <4>2, <4>3, SMT DEF TypeInv, JobsKnown, Known
      <4>5. QED
        BY <4>2, <4>4
    <3>2. CASE UNCHANGED <<job, outbox, raced>>
      BY <1>6, <3>2, JobsStep DEF Start, TypeInv, TypeOK
    <3>3. QED
      BY <1>6, <3>1, <3>2 DEF Start
  <2>5. TypeOK'
    BY <1>6, <2>1, <2>4 DEF Start, TypeInv, TypeOK
  <2>6. QED
    BY <2>3, <2>4, <2>5 DEF TypeInv
<1>7. ASSUME NEW t \in Texts, Resend(t) PROVE TypeInv'
  <2>1. Known(Send(t, NoKey)) /\ Loads(Send(t, NoKey))
    BY <1>0, <1>7, SMT DEF Resend, Known, Loads, Send, Task
  <2>2. Command \in Processes
    BY DEF Processes
  <2>3. /\ job' \in [Processes -> Job]
        /\ \A q \in Processes : q # Command => job'[q] = job[q]
        /\ job'[Command].task = Send(t, NoKey) /\ job'[Command].step = "call"
        /\ outbox' \in [Texts -> OutboxRow \cup {NoRow}]
        /\ raced' \subseteq Texts
    BY <1>7, <2>1, <2>2, BeginTyped DEF Resend
  <2>4. resent' \in [Texts -> Nat]
    <3>1. \A u \in Texts : resent[u] + 1 \in Nat
      BY SMT DEF TypeInv, TypeOK
    <3>2. QED
      BY <1>7, <3>1 DEF Resend, TypeInv, TypeOK
  <2>5. TypeOK'
    BY <1>7, <2>3, <2>4 DEF Resend, TypeInv, TypeOK
  <2>6. TasksKnown'
    BY <1>7, SMT DEF Resend, TypeInv, TasksKnown, Known
  <2>7. JobsKnown'
    <3>1. UNCHANGED wanted
      BY <1>7 DEF Resend
    <3>2. QED
      BY <2>1, <2>3, <3>1, SMT DEF TypeInv, JobsKnown, Known
  <2>8. QED
    BY <2>5, <2>6, <2>7 DEF TypeInv
<1>8. CASE UNCHANGED vars
  <2>1. TypeOK'
    BY <1>8 DEF vars, TypeInv, TypeOK
  <2>2. TasksKnown'
    BY <1>8, SMT DEF vars, TypeInv, TasksKnown, Known
  <2>3. JobsKnown'
    BY <1>8, JobsStep DEF vars, TypeInv
  <2>4. QED
    BY <2>1, <2>2, <2>3 DEF TypeInv
<1>9. 1 .. Len(rows) \subseteq Nat \ {0}
  BY <1>0, SMT
<1>10. 1 \in Nat \ {0}
  BY SMT
<1>11. QED
  BY <1>1, <1>2, <1>3, <1>4, <1>5, <1>6, <1>7, <1>8, <1>9, <1>10, StepTyped DEF Next

\* The values of all variables are of the kind the code stores.
THEOREM TypeCorrect == Spec => []TypeOK
<1>1. TypeInv => TypeOK
  BY DEF TypeInv
<1>2. QED
  BY <1>1, InitTyped, NextTyped, PTL DEF Spec

-----------------------------------------------------------------------------
(* No text is lost.                                                        *)

\* Once Gmail has obtained a text, that stays so: a worker that is past its
\* call may delete the row because of this.
AnsweredIsObtained ==
    \A p \in Processes : job[p].step \in {"store", "delete"} => Obtained(Text(p))
SafeInv == TypeInv /\ NothingLost /\ AnsweredIsObtained

LEMMA TypedRows ==
    ASSUME TypeInv
    PROVE  /\ Len(wanted) \in Nat /\ 1 .. Len(wanted) \subseteq Texts
           /\ drafts \in Seq(Texts \cup {Deleted}) /\ Len(drafts) \in Nat
           /\ \A t \in Texts : mailed[t].times \in Nat
BY SMT DEF TypeInv, TypeOK

LEMMA TypedWanted == TypeInv' => 1 .. Len(wanted') \subseteq Texts
BY SMT DEF TypeInv, TypeOK

LEMMA DraftGoes ==
    ASSUME TypeInv, NEW d, DeleteDraft(d), NEW t \in Texts, Obtained(t)
    PROVE  Obtained(t)'
<1>1. /\ drafts' = [drafts EXCEPT ![d] = Deleted]
      /\ discarded' = discarded \cup {drafts[d]}
      /\ UNCHANGED mailed /\ d \in 1 .. Len(drafts)
  BY DEF DeleteDraft, Held
<1>2. CASE Drafted(t)
  <2>1. PICK e \in 1 .. Len(drafts) : drafts[e] = t
    BY <1>2 DEF Drafted
  <2>2. CASE e = d
    BY <1>1, <2>1, <2>2 DEF Obtained
  <2>3. CASE e # d
    <3>1. drafts'[e] = t /\ e \in 1 .. Len(drafts')
      BY <1>1, <2>1, <2>3, TypedRows, SMT
    <3>2. QED
      BY <3>1 DEF Obtained, Drafted
  <2>4. QED
    BY <2>2, <2>3
<1>3. CASE ~Drafted(t)
  BY <1>1, <1>3 DEF Obtained
<1>4. QED
  BY <1>2, <1>3

\* What Gmail does on behalf of a process takes no text away, and gives it the
\* text that the process's task is about.
LEMMA CarriedObtains ==
    ASSUME TypeInv, NEW p \in Processes, job[p].step = "call", Carried(p), NEW t \in Texts
    PROVE  Obtained(t) \/ (Kind(p) # "trash" /\ t = Text(p)) => Obtained(t)'
<1>1. Kind(p) # "trash" => Text(p) \in Texts
  BY SMT DEF TypeInv, TypeOK, JobsKnown, Known, Job, Task, Kind, Text
<1>2. CASE Kind(p) = "send" /\ Mail(Text(p))
  <2>1. Text(p) \in Texts
    BY <1>1, <1>2
  <2>2. /\ mailed'[Text(p)].times = mailed[Text(p)].times + 1
        /\ \A u \in Texts : u # Text(p) => mailed'[u] = mailed[u]
    BY <1>2, <2>1 DEF Mail, TypeInv, TypeOK
  <2>3. mailed[t].times > 0 \/ t = Text(p) => mailed'[t].times > 0
    BY <2>1, <2>2, TypedRows, SMT
  <2>4. drafts' = drafts /\ discarded' = discarded
    BY <1>2 DEF Mail
  <2>5. QED
    BY <2>3, <2>4 DEF Obtained, Drafted
<1>3. CASE Kind(p) = "create" /\ NewDraft(Text(p))
  <2>1. /\ drafts' = Append(drafts, Text(p))
        /\ UNCHANGED <<mailed, discarded>> /\ Text(p) \in Texts \cup {Deleted}
    BY <1>1, <1>3 DEF NewDraft
  <2>2. /\ Len(drafts') = Len(drafts) + 1
        /\ drafts'[Len(drafts) + 1] = Text(p)
        /\ \A d \in 1 .. Len(drafts) : drafts'[d] = drafts[d]
    BY <2>1, TypedRows, AppendProperties
  <2>3. /\ Len(drafts) + 1 \in 1 .. Len(drafts')
        /\ 1 .. Len(drafts) \subseteq 1 .. Len(drafts')
    BY <2>2, TypedRows, SMT
  <2>4. (\E d \in 1 .. Len(drafts) : drafts[d] = t) \/ t = Text(p)
           => \E d \in 1 .. Len(drafts') : drafts'[d] = t
    BY <2>2, <2>3, Zenon
  <2>5. QED
    BY <2>1, <2>4 DEF Obtained, Drafted
<1>4. CASE Kind(p) = "update" /\ ReplaceDraft(job[p].draft, Text(p))
  <2>1. PICK d \in 1 .. Len(drafts), u \in Texts :
           /\ u = Text(p)
           /\ drafts' = [drafts EXCEPT ![d] = u]
           /\ discarded' = discarded \cup ({drafts[d]} \ {u})
           /\ UNCHANGED mailed
    BY <1>1, <1>4 DEF ReplaceDraft, Held
  <2>2. /\ drafts'[d] = u /\ 1 .. Len(drafts') = 1 .. Len(drafts)
        /\ \A e \in 1 .. Len(drafts) : e # d => drafts'[e] = drafts[e]
    BY <2>1, TypedRows, SMT
  <2>3. \E e \in 1 .. Len(drafts') : drafts'[e] = u
    BY <2>2, Zenon
  <2>4. CASE t = u
    BY <2>3, <2>4 DEF Obtained, Drafted
  <2>5. CASE t # u /\ Drafted(t)
    <3>1. PICK e \in 1 .. Len(drafts) : drafts[e] = t
      BY <2>5 DEF Drafted
    <3>2. CASE e = d
      BY <2>1, <2>5, <3>1, <3>2 DEF Obtained
    <3>3. CASE e # d
      BY <2>2, <3>1, <3>3 DEF Obtained, Drafted
    <3>4. QED
      BY <3>2, <3>3
  <2>6. CASE t # u /\ ~Drafted(t)
    BY <2>1, <2>6 DEF Obtained
  <2>7. QED
    BY <2>4, <2>5, <2>6
<1>5. CASE Kind(p) = "trash" /\ DeleteDraft(job[p].draft)
  BY <1>5, DraftGoes
<1>6. QED
  BY <1>2, <1>3, <1>4, <1>5 DEF Carried

\* A step takes no text away from Gmail, and a row only when Gmail has its text.
LEMMA NothingTaken ==
    ASSUME SafeInv, [Next]_vars, NEW t \in Texts
    PROVE  /\ Obtained(t) => Obtained(t)'
           /\ outbox[t] # NoRow => outbox'[t] # NoRow \/ Obtained(t)'
<1> USE DEF gmail, history
<1>0. TypeInv /\ outbox \in [Texts -> OutboxRow \cup {NoRow}]
  BY DEF SafeInv, TypeInv, TypeOK
<1>1. ASSUME UNCHANGED <<drafts, mailed, discarded>> PROVE Obtained(t) => Obtained(t)'
  BY <1>1 DEF Obtained, Drafted
<1>2. ASSUME NEW k \in Nat \ {0},
             \/ SendNew \/ SaveNewDraft
             \/ SendDraft(k) \/ ReplyOrForward(k) \/ SaveDraft(k)
      PROVE  /\ UNCHANGED <<drafts, mailed, discarded>>
             /\ outbox[t] # NoRow => outbox'[t] # NoRow
  <2>1. PICK want \in {"mail", "forward", "draft"}, key \in Nat, tasks \in Seq(Task) :
           Submit(want, key, tasks)
    BY <1>0, <1>2, FormTyped
  <2>2. [copied |-> 0, origin |-> key] \in OutboxRow
    BY SMT DEF OutboxRow
  <2>3. UNCHANGED <<drafts, mailed, discarded>>
        /\ outbox' = [outbox EXCEPT ![NextText] = [copied |-> 0, origin |-> key]]
    BY <2>1 DEF Submit
  <2>4. QED
    BY <1>0, <2>2, <2>3, NoRowIsNoRow
<1>3. ASSUME NEW k \in 1 .. Len(rows),
             TrashDraft(k) \/ SyncRemoves(k)
      PROVE  UNCHANGED <<drafts, mailed, discarded, outbox>>
  BY <1>3 DEF TrashDraft, SyncRemoves
<1>4. ASSUME NEW d \in 1 .. Len(drafts), SyncDownloads(d)
      PROVE  UNCHANGED <<drafts, mailed, discarded, outbox>>
  BY <1>4 DEF SyncDownloads
<1>5. ASSUME NEW k \in 1 .. Len(rows), DeletedElsewhere(k)
      PROVE  (Obtained(t) => Obtained(t)') /\ UNCHANGED outbox
  BY <1>0, <1>1, <1>5, DraftGoes DEF DeletedElsewhere
<1>6. ASSUME NEW p \in Processes, NEW task, Known(task), Loads(task), Begin(p, task)
      PROVE  outbox[t] # NoRow => outbox'[t] # NoRow
  BY <1>0, <1>6, BeginTyped
<1>7. ASSUME NEW w \in Workers, Start(w)
      PROVE  /\ UNCHANGED <<drafts, mailed, discarded>>
             /\ outbox[t] # NoRow => outbox'[t] # NoRow
  <2>1. Head(queue) = queue[1] /\ 1 \in 1 .. Len(queue)
    BY <1>7, SMT DEF Start, SafeInv, TypeInv, TypeOK
  <2>2. Known(Head(queue)) /\ w \in Processes
    BY <2>1 DEF SafeInv, TypeInv, TasksKnown, Processes
  <2>3. QED
    BY <1>6, <1>7, <2>2 DEF Start
<1>8. ASSUME NEW u \in Texts, Resend(u)
      PROVE  /\ UNCHANGED <<drafts, mailed, discarded>>
             /\ outbox[t] # NoRow => outbox'[t] # NoRow
  <2>1. Known(Send(u, NoKey)) /\ Loads(Send(u, NoKey)) /\ Command \in Processes
    BY <1>0, <1>8, TypedRows, SMT DEF Resend, Known, Loads, Send, Task, Processes
  <2>2. QED
    BY <1>6, <1>8, <2>1 DEF Resend
<1>9. ASSUME NEW p \in Processes, Step(p)
      PROVE  /\ Obtained(t) => Obtained(t)'
             /\ outbox[t] # NoRow => outbox'[t] # NoRow \/ Obtained(t)'
  <2>1. CASE Answered(p) \/ AnswerLost(p)
    BY <1>0, <2>1, CarriedObtains, Zenon DEF Answered, AnswerLost
  <2>2. CASE NotFound(p) \/ CallFails(p) \/ Store(p) \/ Crash(p)
    BY <1>1, <2>2 DEF NotFound, CallFails, Store, Crash
  <2>3. CASE DeleteRow(p)
    <3>1. Obtained(Text(p)) /\ UNCHANGED <<drafts, mailed, discarded>>
      BY <2>3 DEF DeleteRow, SafeInv, AnsweredIsObtained
    <3>2. t # Text(p) => outbox'[t] = outbox[t]
      BY <1>0, <2>3 DEF DeleteRow
    <3>3. QED
      BY <1>1, <3>1, <3>2
  <2>4. QED
    BY <1>9, <2>1, <2>2, <2>3 DEF Step
<1>10. CASE UNCHANGED vars
  BY <1>1, <1>10 DEF vars
<1>11. 1 \in Nat \ {0} /\ 1 .. Len(rows) \subseteq Nat \ {0}
  BY SMT DEF SafeInv, TypeInv, TypeOK
<1>12. CASE Next
  BY <1>1, <1>2, <1>3, <1>4, <1>5, <1>7, <1>8, <1>9, <1>11, <1>12 DEF Next
<1>13. QED
  BY <1>10, <1>12

LEMMA InitSafe == Init => SafeInv
<1> SUFFICES ASSUME Init PROVE SafeInv
  OBVIOUS
<1>1. Len(wanted) = 1 /\ Len(drafts) = 1 /\ drafts[1] = 1
  BY SMT DEF Init
<1>2. NothingLost
  BY <1>1, SMT DEF NothingLost, Kept, Obtained, Drafted
<1>3. AnsweredIsObtained
  BY IdleIsJob, SMT DEF Init, AnsweredIsObtained
<1>4. QED
  BY <1>2, <1>3, InitTyped DEF SafeInv

LEMMA NextSafe == SafeInv /\ [Next]_vars => SafeInv'
<1> SUFFICES ASSUME SafeInv, [Next]_vars PROVE SafeInv'
  OBVIOUS
<1> USE DEF gmail, history
<1>0. TypeInv /\ TypeInv'
  BY NextTyped DEF SafeInv
<1>00. /\ 1 \in Nat \ {0} /\ 1 .. Len(rows) \subseteq Nat \ {0}
       /\ job \in [Processes -> Job]
  BY SMT DEF SafeInv, TypeInv, TypeOK
<1>1. \* A text that is added has a row.
      /\ Len(wanted') \in Nat
      /\ \A t \in 1 .. Len(wanted') : t \in 1 .. Len(wanted) \/ outbox'[t] # NoRow
  <2>1. CASE UNCHANGED wanted
    BY <2>1, TypedRows, <1>0
  <2>2. ASSUME NEW k \in Nat \ {0},
               \/ SendNew \/ SaveNewDraft
               \/ SendDraft(k) \/ ReplyOrForward(k) \/ SaveDraft(k)
        PROVE  /\ Len(wanted') \in Nat
               /\ \A t \in 1 .. Len(wanted') : t \in 1 .. Len(wanted) \/ outbox'[t] # NoRow
    <3>1. PICK want \in {"mail", "forward", "draft"}, key \in Nat, tasks \in Seq(Task) :
             Submit(want, key, tasks) /\ FormTasks(want, key, tasks)
      BY <1>0, <2>2, FormTyped
    <3>2. Len(wanted') = Len(wanted) + 1 /\ Len(wanted) \in Nat
      BY <1>0, <3>1, SubmitTyped, TypedRows DEF FormTasks
    <3>3. /\ outbox' = [outbox EXCEPT ![NextText] = [copied |-> 0, origin |-> key]]
          /\ NextText = Len(wanted) + 1 /\ NextText \in Texts
      BY <3>1 DEF Submit, NextText
    <3>4. [copied |-> 0, origin |-> key] \in OutboxRow
      BY SMT DEF OutboxRow
    <3>5. outbox'[NextText] # NoRow
      BY <1>0, <3>3, <3>4, NoRowIsNoRow DEF TypeInv, TypeOK
    <3>6. \A t \in 1 .. Len(wanted') : t \in 1 .. Len(wanted) \/ t = NextText
      BY <3>2, <3>3, SMT
    <3>7. QED
      BY <3>2, <3>5, <3>6
  <2>3. ASSUME NEW k \in 1 .. Len(rows), TrashDraft(k) \/ SyncRemoves(k) \/ DeletedElsewhere(k)
        PROVE  UNCHANGED wanted
    BY <2>3 DEF TrashDraft, SyncRemoves, DeletedElsewhere
  <2>4. ASSUME NEW d \in 1 .. Len(drafts), SyncDownloads(d) PROVE UNCHANGED wanted
    BY <2>4 DEF SyncDownloads
  <2>5. ASSUME NEW w \in Workers, Start(w) PROVE UNCHANGED wanted
    BY <2>5 DEF Start
  <2>6. ASSUME NEW t \in Texts, Resend(t) PROVE UNCHANGED wanted
    BY <2>6 DEF Resend
  <2>7. ASSUME NEW p \in Processes, Step(p) PROVE UNCHANGED wanted
    BY <2>7 DEF Step, Answered, AnswerLost, NotFound, CallFails, Store, DeleteRow, Crash
  <2>8. CASE UNCHANGED vars
    BY <2>1, <2>8 DEF vars
  <2>9. QED
    BY <1>00, <2>1, <2>2, <2>3, <2>4, <2>5, <2>6, <2>7, <2>8 DEF Next
<1>2. NothingLost'
  <2>1. ASSUME NEW t \in 1 .. Len(wanted') PROVE outbox'[t] # NoRow \/ Obtained(t)'
    <3>1. CASE t \in 1 .. Len(wanted)
      <4>1. t \in Texts /\ (outbox[t] # NoRow \/ Obtained(t))
        BY <1>0, <3>1, TypedRows DEF SafeInv, NothingLost, Kept, Obtained
      <4>2. QED
        BY <4>1, NothingTaken
    <3>2. CASE t \notin 1 .. Len(wanted)
      BY <1>1, <3>2
    <3>3. QED
      BY <3>1, <3>2
  <2>2. QED
    BY <2>1 DEF NothingLost, Kept, Obtained
<1>3. AnsweredIsObtained'
  <2> SUFFICES ASSUME NEW p \in Processes, job'[p].step \in {"store", "delete"}
               PROVE  Obtained(Text(p))'
    BY DEF AnsweredIsObtained
  <2>1. PICK t \in Texts : t = job'[p].task.text
    <3>1. job'[p].step # "idle" /\ job'[p].step # "call"
      OBVIOUS
    <3>2. Known(job[p].task)' /\ job'[p].task.kind # "trash"
      BY <1>0, <3>1 DEF TypeInv, JobsKnown
    <3>3. job'[p].task \in Task /\ job'[p].task.text \in 1 .. Len(wanted')
      BY <3>2 DEF Known
    <3>4. QED
      BY <3>3, <1>0, TypedWanted
  <2>2. Obtained(t)' => Obtained(Text(p))'
    BY <2>1 DEF Text
  <2>3. CASE job'[p] = job[p]
    BY <2>1, <2>2, <2>3, NothingTaken DEF SafeInv, AnsweredIsObtained, Text
  <2>4. CASE Answered(p) /\ job'[p] # Idle
    <3>1. /\ job[p].step = "call" /\ Carried(p) /\ Kind(p) # "trash"
          /\ job'[p].task = job[p].task
      BY <1>0, <2>4 DEF Answered, Finish, Become, TypeInv, TypeOK
    <3>2. QED
      BY <1>0, <2>1, <2>2, <3>1, CarriedObtains DEF Text
  <2>5. CASE Store(p) /\ Goto(p, "delete")
    <3>1. job[p].step = "store" /\ job'[p].task = job[p].task
      <4> DEFINE j == [job[p] EXCEPT !.step = "delete"]
      <4>1. job[p] \in Job
        BY <1>0 DEF TypeInv, TypeOK
      <4>2. j.task = job[p].task
        BY <4>1, JobGoesOn
      <4>3. job' = [job EXCEPT ![p] = j] /\ job[p].step = "store"
        BY <2>5 DEF Goto, Become, Store
      <4> HIDE DEF j
      <4>4. QED
        BY <1>0, <4>2, <4>3 DEF TypeInv, TypeOK
    <3>2. QED
      BY <2>1, <2>2, <3>1, NothingTaken DEF SafeInv, AnsweredIsObtained, Text
  <2>6. ASSUME NEW q \in Processes, NEW j, job' = [job EXCEPT ![q] = j],
               j.step \in {"idle", "call"}
        PROVE  job'[p] = job[p]
    BY <1>00, <2>6
  <2>7. CASE job' = job
    BY <2>3, <2>7
  <2>8. ASSUME NEW q \in Processes, Finish(q) PROVE job'[p] = job[p]
    BY <2>6, <2>8, IdleIsJob DEF Finish, Become
  <2>9. ASSUME NEW q \in Processes, NEW task, Begin(q, task) PROVE job'[p] = job[p]
    BY <2>6, <2>9 DEF Begin, Become
  <2>10. ASSUME NEW q \in Processes, Step(q)
         PROVE  \/ job'[p] = job[p]
                \/ Answered(p) /\ job'[p] # Idle
                \/ Store(p) /\ Goto(p, "delete")
    <3>1. CASE Answered(q)
      <4>1. CASE q = p
        <5>1. job'[p] # Idle
          BY IdleIsJob
        <5>2. QED
          BY <3>1, <4>1, <5>1
      <4>2. CASE q # p
        BY <1>00, <3>1, <4>2 DEF Answered, Finish, Become
      <4>3. QED
        BY <4>1, <4>2
    <3>2. CASE Store(q)
      <4>1. CASE Finish(q)
        BY <2>8, <4>1
      <4>2. CASE Goto(q, "delete")
        <5>1. CASE q = p
          BY <3>2, <4>2, <5>1
        <5>2. CASE q # p
          BY <1>00, <4>2, <5>2 DEF Goto, Become
        <5>3. QED
          BY <5>1, <5>2
      <4>3. QED
        BY <3>2, <4>1, <4>2 DEF Store
    <3>3. CASE AnswerLost(q) \/ NotFound(q) \/ CallFails(q) \/ DeleteRow(q) \/ Crash(q)
      BY <2>8, <3>3, SMTT(30) DEF AnswerLost, NotFound, CallFails, DeleteRow, Crash
    <3>4. QED
      BY <2>10, <3>1, <3>2, <3>3 DEF Step
  <2>11. Next /\ (\A q \in Processes : ~Step(q)) => job'[p] = job[p]
    <3> SUFFICES ASSUME Next, \A q \in Processes : ~Step(q) PROVE job'[p] = job[p]
      OBVIOUS
    <3>1. ASSUME NEW w \in Workers, Start(w) PROVE job'[p] = job[p]
      BY <2>9, <3>1 DEF Start, Processes
    <3>2. ASSUME NEW u \in Texts, Resend(u) PROVE job'[p] = job[p]
      BY <2>9, <3>2 DEF Resend, Processes
    <3>3. QED
      BY <3>1, <3>2 DEF Next, SendNew, SaveNewDraft, SendDraft, ReplyOrForward, SaveDraft,
            Submit, TrashDraft, SyncRemoves, DeletedElsewhere, SyncDownloads
  <2>12. \/ job'[p] = job[p]
         \/ Answered(p) /\ job'[p] # Idle
         \/ Store(p) /\ Goto(p, "delete")
    BY <2>10, <2>11 DEF vars
  <2>13. QED
    BY <2>3, <2>4, <2>5, <2>12
<1>4. QED
  BY <1>0, <1>2, <1>3 DEF SafeInv

\* Whatever fails, dies or overlaps, the text of a form stays in the outbox until
\* Gmail has mailed it, has it as a draft, or a user gave the draft up.
THEOREM TextsAreKept == Spec => []NothingLost
<1>1. SafeInv => NothingLost
  BY DEF SafeInv
<1>2. QED
  BY <1>1, InitSafe, NextSafe, PTL DEF Spec

-----------------------------------------------------------------------------
(* Texts wait in the order of submission, behind what Gmail has.           *)

\* Tasks that put a text in a draft wait in the order of their texts, and what
\* is being done and what Gmail has is older than all that waits.
Saves(task) == task.kind \in {"create", "update"}
Saving(p) == job[p].step = "call" /\ Saves(job[p].task)
QueueOrdered ==
    \A i, j \in 1 .. Len(queue) :
        i < j /\ Saves(queue[i]) /\ Saves(queue[j]) => queue[i].text < queue[j].text
JobsOlder ==
    \A p \in Processes, i \in 1 .. Len(queue) :
        Saving(p) /\ Saves(queue[i]) => Text(p) < queue[i].text
DraftsOlder ==
    \A d \in 1 .. Len(drafts) :
        /\ drafts[d] <= Len(wanted)
        /\ \A i \in 1 .. Len(queue) : Saves(queue[i]) => drafts[d] < queue[i].text
OrderInv ==
    TypeInv /\ QueueOrdered /\ JobsOlder /\ DraftsOlder

\* The five things a step may be for the queue, the jobs, and what Gmail has.
FormSent ==
    /\ \E want \in {"mail", "forward", "draft"}, key \in Nat, tasks \in Seq(Task) :
         Submit(want, key, tasks) /\ FormTasks(want, key, tasks)
    /\ UNCHANGED <<drafts, mailed, job, lost, resent, raced>>
TaskTaken ==
    /\ queue # <<>> /\ queue' = Tail(queue)
    /\ UNCHANGED <<drafts, mailed, wanted, lost, resent, fresh>>
    /\ \/ UNCHANGED <<job, outbox, raced>>
       \/ \E w \in Workers : /\ job[w].step = "idle"
                             /\ Begin(w, Head(queue)) /\ Loads(Head(queue))
CommandRun ==
    /\ UNCHANGED <<queue, drafts, mailed, wanted, lost, fresh>>
    /\ \E t \in Texts : /\ Known(Send(t, NoKey)) /\ Loads(Send(t, NoKey))
                        /\ Begin(Command, Send(t, NoKey))
                        /\ resent' = [resent EXCEPT ![t] = @ + 1]
JobsGoOn ==
    \A q \in Processes :
        \/ job'[q] = job[q]
        \/ job'[q].step = "idle"
        \/ /\ job[q].step # "idle" /\ job'[q].step # "call"
           /\ job'[q].task = job[q].task
           /\ Kind(q) # "create" => job'[q].draft = job[q].draft
GmailCalled ==
    /\ UNCHANGED <<queue, outbox, wanted, fresh, resent, raced>>
    /\ \E p \in Processes :
         /\ job[p].step = "call" /\ Carried(p)
         /\ \/ UNCHANGED lost /\ job'[p].step # "call"
            \/ Kind(p) # "trash" /\ lost' = [lost EXCEPT ![Text(p)] = @ + 1]
    /\ JobsGoOn
AllElse ==
    /\ UNCHANGED <<mailed, wanted, lost, resent, raced>>
    /\ fresh' \subseteq fresh
    /\ \/ UNCHANGED queue
       \/ \E task \in Task :
            /\ task.kind = "trash" /\ queue' = Append(queue, task)
            /\ \/ IsDraftRow(task.key)
               \/ \E p \in Processes : job[p].step # "idle" /\ job[p].task = task
    /\ \/ UNCHANGED outbox
       \/ \E p \in Processes : /\ job[p].step = "delete"
                               /\ outbox' = [outbox EXCEPT ![Text(p)] = NoRow]
    /\ UNCHANGED drafts \/ \E d \in 1 .. Len(drafts) : drafts' = [drafts EXCEPT ![d] = Deleted]
    /\ JobsGoOn

LEMMA StepShape ==
    ASSUME TypeInv, [Next]_vars
    PROVE  FormSent \/ TaskTaken \/ CommandRun \/ GmailCalled \/ AllElse
<1> USE DEF gmail, history
<1>0. /\ job \in [Processes -> Job]
      /\ 1 \in Nat \ {0} /\ 1 .. Len(rows) \subseteq Nat \ {0}
      /\ 1 .. Len(rows) \subseteq Nat
  BY SMT DEF TypeInv, TypeOK
<1>1. ASSUME NEW k \in Nat \ {0},
             \/ SendNew \/ SaveNewDraft
             \/ SendDraft(k) \/ ReplyOrForward(k) \/ SaveDraft(k)
      PROVE  FormSent
  <2>1. PICK want \in {"mail", "forward", "draft"}, key \in Nat, tasks \in Seq(Task) :
           Submit(want, key, tasks) /\ FormTasks(want, key, tasks)
    BY <1>1, FormTyped
  <2>2. UNCHANGED <<drafts, mailed, job, lost, resent, raced>>
    BY <2>1 DEF Submit
  <2>3. QED
    BY <2>1, <2>2 DEF FormSent
<1>2. UNCHANGED job => JobsGoOn
  BY DEF JobsGoOn
<1>3. ASSUME NEW k \in 1 .. Len(rows), TrashDraft(k) PROVE AllElse
  <2>1. TrashTask(k) \in Task /\ TrashTask(k).kind = "trash" /\ TrashTask(k).key = k
    BY <1>0, SMT DEF TrashTask, Task
  <2>2. /\ UNCHANGED <<outbox, mailed, wanted, fresh, lost, resent, drafts, job, raced>>
        /\ queue' = Append(queue, TrashTask(k)) /\ IsDraftRow(k)
    BY <1>3 DEF TrashDraft
  <2>3. QED
    BY <1>2, <2>1, <2>2 DEF AllElse
<1>4. ASSUME NEW k \in 1 .. Len(rows), SyncRemoves(k) PROVE AllElse
  BY <1>2, <1>4 DEF SyncRemoves, AllElse
<1>5. ASSUME NEW k \in 1 .. Len(rows), DeletedElsewhere(k) PROVE AllElse
  BY <1>2, <1>5 DEF DeletedElsewhere, Disturb, DeleteDraft, Held, AllElse
<1>6. ASSUME NEW d \in 1 .. Len(drafts), SyncDownloads(d) PROVE AllElse
  BY <1>2, <1>6 DEF SyncDownloads, AllElse
<1>7. ASSUME NEW w \in Workers, Start(w) PROVE TaskTaken
  BY <1>7 DEF Start, TaskTaken
<1>8. ASSUME NEW t \in Texts, Resend(t) PROVE CommandRun
  <2>1. Known(Send(t, NoKey)) /\ Loads(Send(t, NoKey))
    BY <1>8, TypedRows, SMT DEF Resend, Known, Loads, Send, Task
  <2>2. QED
    BY <1>8, <2>1 DEF Resend, CommandRun
<1>9. ASSUME NEW p \in Processes, Finish(p) PROVE JobsGoOn /\ job'[p].step # "call"
  BY <1>0, <1>9, IdleIsJob DEF Finish, Become, JobsGoOn
<1>10. ASSUME NEW p \in Processes, Step(p) PROVE GmailCalled \/ AllElse
  <2>1. CASE Answered(p)
    <3>1. CASE Kind(p) = "trash"
      BY <1>9, <2>1, <3>1 DEF Answered, GmailCalled
    <3>2. CASE Kind(p) # "trash"
      <4> DEFINE d == IF Kind(p) = "create" THEN Len(drafts) + 1 ELSE job[p].draft
                 j == [step |-> "store", task |-> job[p].task, draft |-> d]
      <4>1. /\ job[p].step = "call" /\ j.step = "store" /\ j.task = job[p].task
            /\ Kind(p) # "create" => j.draft = job[p].draft
            /\ job' = [job EXCEPT ![p] = j]
        BY <2>1, <3>2 DEF Answered, Become
      <4> HIDE DEF j
      <4>2. JobsGoOn /\ job'[p].step # "call"
        BY <1>0, <4>1 DEF JobsGoOn
      <4>3. QED
        BY <2>1, <4>2 DEF Answered, GmailCalled
    <3>3. QED
      BY <3>1, <3>2
  <2>2. CASE AnswerLost(p)
    BY <1>2, <1>9, <2>2 DEF AnswerLost, GmailCalled
  <2>3. CASE NotFound(p) \/ DeleteRow(p) \/ Crash(p)
    <3>1. CASE NotFound(p) \/ Crash(p)
      BY <1>9, <3>1 DEF NotFound, Crash, AllElse
    <3>2. CASE DeleteRow(p)
      BY <1>9, <3>2 DEF DeleteRow, AllElse
    <3>3. QED
      BY <2>3, <3>1, <3>2
  <2>4. CASE CallFails(p)
    <3>1. job[p].task \in Task
      BY <1>0, SMT DEF Job
    <3>2. /\ UNCHANGED <<outbox, mailed, wanted, fresh, lost, resent, drafts, raced>>
          /\ job[p].step = "call" /\ JobsGoOn
          /\ \/ job[p].task.kind = "trash" /\ queue' = Append(queue, job[p].task)
             \/ UNCHANGED queue
      BY <1>9, <2>4 DEF CallFails, Kind
    <3>3. QED
      BY <3>1, <3>2 DEF AllElse
  <2>5. CASE Store(p)
    <3>1. CASE Goto(p, "delete")
      <4> DEFINE j == [job[p] EXCEPT !.step = "delete"]
      <4>1. job[p] \in Job
        BY <1>0
      <4>2. j = [step |-> "delete", task |-> job[p].task, draft |-> job[p].draft]
        BY <4>1 DEF Job
      <4>3. j.step = "delete" /\ j.task = job[p].task /\ j.draft = job[p].draft
        BY <4>2
      <4>4. job' = [job EXCEPT ![p] = j] /\ job[p].step = "store"
        BY <2>5, <3>1 DEF Goto, Become, Store
      <4> HIDE DEF j
      <4>5. JobsGoOn
        BY <1>0, <4>3, <4>4 DEF JobsGoOn
      <4>6. QED
        BY <2>5, <4>5 DEF Store, AllElse
    <3>2. CASE Finish(p)
      BY <1>9, <2>5, <3>2 DEF Store, AllElse
    <3>3. QED
      BY <2>5, <3>1, <3>2 DEF Store
  <2>6. QED
    BY <1>10, <2>1, <2>2, <2>3, <2>4, <2>5 DEF Step
<1>11. CASE UNCHANGED vars
  BY <1>2, <1>11 DEF vars, AllElse
<1>12. CASE Next
  BY <1>0, <1>1, <1>3, <1>4, <1>5, <1>6, <1>7, <1>8, <1>10, <1>12 DEF Next
<1>13. QED
  BY <1>11, <1>12

LEMMA OrderTyped ==
    ASSUME TypeInv
    PROVE  /\ queue \in Seq(Task) /\ Len(queue) \in Nat
           /\ drafts \in Seq(Texts \cup {Deleted}) /\ Len(drafts) \in Nat
           /\ \A d \in 1 .. Len(drafts) : drafts[d] \in Nat
           /\ Len(wanted) \in Nat
           /\ job \in [Processes -> Job]
           /\ \A i \in 1 .. Len(queue) : Saves(queue[i]) =>
                 queue[i].text \in Nat /\ queue[i].text <= Len(wanted)
           /\ \A p \in Processes : Saving(p) => Text(p) \in Nat /\ Text(p) <= Len(wanted)
<1>1. /\ queue \in Seq(Task) /\ Len(queue) \in Nat
      /\ drafts \in Seq(Texts \cup {Deleted}) /\ Len(drafts) \in Nat
      /\ \A d \in 1 .. Len(drafts) : drafts[d] \in Nat
      /\ Len(wanted) \in Nat
      /\ job \in [Processes -> Job]
  BY SMT DEF TypeInv, TypeOK, Processes
<1>2. \A task : Known(task) /\ Saves(task) => task.text \in Nat /\ task.text <= Len(wanted)
  BY <1>1, SMT DEF Known, Saves
<1>3. \A i \in 1 .. Len(queue) : Known(queue[i])
  BY DEF TypeInv, TasksKnown
<1>4. \A p \in Processes : Saving(p) => Known(job[p].task)
  BY DEF TypeInv, JobsKnown, Saving
<1>5. QED
  BY <1>1, <1>2, <1>3, <1>4 DEF Saving, Text

\* What waits after a step waited before, or is the newest of all, or saves nothing.
LEMMA QueueKeepsOrder ==
    ASSUME TypeInv, QueueOrdered, NEW shift \in {0, 1}, Len(queue') \in Nat,
           \A i \in 1 .. Len(queue') :
              \/ i + shift \in 1 .. Len(queue) /\ queue'[i] = queue[i + shift]
              \/ i + shift = Len(queue) + 1 /\ queue'[i].text = Len(wanted) + 1
              \/ ~Saves(queue'[i])
    PROVE  QueueOrdered'
<1> SUFFICES ASSUME NEW i \in 1 .. Len(queue'), NEW j \in 1 .. Len(queue'), i < j,
                    Saves(queue'[i]), Saves(queue'[j])
             PROVE  queue'[i].text < queue'[j].text
  BY DEF QueueOrdered, Saves
<1>1. \/ i + shift \in 1 .. Len(queue) /\ queue'[i] = queue[i + shift]
      \/ i + shift = Len(queue) + 1 /\ queue'[i].text = Len(wanted) + 1
  OBVIOUS
<1>2. \/ j + shift \in 1 .. Len(queue) /\ queue'[j] = queue[j + shift]
      \/ j + shift = Len(queue) + 1 /\ queue'[j].text = Len(wanted) + 1
  OBVIOUS
<1>3. CASE i + shift \in 1 .. Len(queue) /\ j + shift \in 1 .. Len(queue)
  <2>1. queue'[i] = queue[i + shift] /\ queue'[j] = queue[j + shift]
    BY <1>1, <1>2, <1>3, OrderTyped, SMT
  <2>2. i + shift < j + shift
    BY OrderTyped, SMT
  <2>3. QED
    BY <1>3, <2>1, <2>2 DEF QueueOrdered
<1>4. CASE i + shift \in 1 .. Len(queue) /\ j + shift \notin 1 .. Len(queue)
  <2>1. queue'[i] = queue[i + shift] /\ queue'[j].text = Len(wanted) + 1
    BY <1>1, <1>2, <1>4, OrderTyped, SMT
  <2>2. queue[i + shift].text \in Nat /\ queue[i + shift].text <= Len(wanted)
    BY <1>4, <2>1, OrderTyped
  <2>3. QED
    BY <2>1, <2>2, OrderTyped, SMT
<1>5. CASE i + shift \notin 1 .. Len(queue)
  BY <1>1, <1>2, <1>5, OrderTyped, SMT
<1>6. QED
  BY <1>3, <1>4, <1>5

LEMMA InitOrder == Init => OrderInv
<1> SUFFICES ASSUME Init PROVE OrderInv
  OBVIOUS
<1>1. Len(queue) = 0 /\ Len(wanted) = 1 /\ Len(drafts) = 1 /\ drafts[1] = 1
  BY SMT DEF Init
<1>2. \A p \in Processes : job[p].step = "idle"
  BY IdleIsJob, SMT DEF Init
<1>3. QueueOrdered /\ JobsOlder /\ DraftsOlder
  BY <1>1, SMT DEF QueueOrdered, JobsOlder, DraftsOlder
<1>4. QED
  BY <1>3, InitTyped DEF OrderInv

\* What a form adds to the queue: its own task, and perhaps the draft's removal.
HasText(task) == task.kind # "trash"
LEMMA FormQueue ==
    ASSUME TypeInv, TypeInv', FormSent
    PROVE  /\ Len(wanted') = Len(wanted) + 1
           /\ Len(queue') \in Nat
           /\ \A i \in 1 .. Len(queue') :
                \/ i \in 1 .. Len(queue) /\ queue'[i] = queue[i]
                \/ /\ i = Len(queue) + 1
                   /\ HasText(queue'[i]) => queue'[i].text = Len(wanted) + 1
                \/ ~HasText(queue'[i])
<1>1. PICK want \in {"mail", "forward", "draft"}, key \in Nat, tasks \in Seq(Task) :
         Submit(want, key, tasks) /\ FormTasks(want, key, tasks)
  BY DEF FormSent
<1>2. /\ Len(wanted') = Len(wanted) + 1
      /\ \A i \in 1 .. Len(queue) : queue'[i] = queue[i]
      /\ \A i \in 1 .. Len(queue') : i > Len(queue) =>
            i - Len(queue) \in 1 .. Len(tasks) /\ queue'[i] = tasks[i - Len(queue)]
  <2>1. \A i \in 1 .. Len(tasks) :
           /\ tasks[i].kind # "none"
           /\ tasks[i].kind # "trash" => tasks[i].text = NextText
           /\ tasks[i].kind \in {"update", "trash"} => tasks[i].key # NoKey
    BY <1>1 DEF FormTasks
  <2>2. Submit(want, key, tasks)
    BY <1>1
  <2>3. QED
    BY ONLY TypeInv, <2>1, <2>2, SubmitTyped, ZenonT(60)
<1>3. Len(queue') \in Nat
  <2>1. queue' \in Seq(Task)
    BY DEF TypeInv, TypeOK
  <2>2. QED
    BY <2>1
<1>4. \A i \in 1 .. Len(queue') :
         \/ i \in 1 .. Len(queue) /\ queue'[i] = queue[i]
         \/ i = Len(queue) + 1 /\ (HasText(queue'[i]) => queue'[i].text = Len(wanted) + 1)
         \/ ~HasText(queue'[i])
  <2> TAKE i \in 1 .. Len(queue')
  <2>1. CASE i <= Len(queue)
    BY <1>2, <1>3, <2>1, OrderTyped, SMT
  <2>2. CASE i > Len(queue)
    <3> DEFINE m == i - Len(queue)
    <3>1. m \in 1 .. Len(tasks) /\ queue'[i] = tasks[m]
      BY <1>2, <2>2
    <3>2. /\ tasks[m].kind # "trash" => tasks[m].text = NextText
          /\ m > 1 => tasks[m].kind = "trash"
      BY <1>1, <3>1 DEF FormTasks
    <3>3. /\ HasText(queue'[i]) => queue'[i].text = Len(wanted) + 1
          /\ m > 1 => ~HasText(queue'[i])
      BY <3>1, <3>2 DEF HasText, NextText
    <3>4. m > 1 \/ i = Len(queue) + 1
      BY <1>3, <2>2, <3>1, OrderTyped, SMT
    <3>5. QED
      BY <3>3, <3>4
  <2>3. QED
    BY <1>3, <2>1, <2>2, OrderTyped, SMT
<1>5. QED
  BY <1>2, <1>3, <1>4

LEMMA FormKeepsOrder == OrderInv /\ TypeInv' /\ FormSent => OrderInv'
<1> SUFFICES ASSUME OrderInv, TypeInv', FormSent PROVE OrderInv'
  OBVIOUS
<1>0. TypeInv
  BY DEF OrderInv
<1>1. Len(wanted') = Len(wanted) + 1 /\ Len(queue') \in Nat
  BY <1>0, FormQueue
<1>2. \A task : Saves(task) => HasText(task)
  BY DEF Saves, HasText
<1>3. \A i \in 1 .. Len(queue') :
         \/ i \in 1 .. Len(queue) /\ queue'[i] = queue[i]
         \/ i = Len(queue) + 1 /\ (Saves(queue'[i]) => queue'[i].text = Len(wanted) + 1)
         \/ ~Saves(queue'[i])
  BY <1>0, <1>2, FormQueue
<1>4. UNCHANGED <<drafts, job>>
  BY DEF FormSent
<1>5. QueueOrdered'
  <2>1. \A i \in 1 .. Len(queue') :
           \/ i + 0 \in 1 .. Len(queue) /\ queue'[i] = queue[i + 0]
           \/ i + 0 = Len(queue) + 1 /\ queue'[i].text = Len(wanted) + 1
           \/ ~Saves(queue'[i])
    BY <1>1, <1>3, SMT
  <2>2. QED
    BY <1>0, <1>1, <2>1, QueueKeepsOrder DEF OrderInv
<1>6. JobsOlder'
  <2> SUFFICES ASSUME NEW p \in Processes, NEW i \in 1 .. Len(queue'),
                      Saving(p), Saves(queue'[i])
               PROVE  Text(p) < queue'[i].text
    BY <1>4 DEF JobsOlder, Saving, Text, Saves
  <2>1. CASE i \in 1 .. Len(queue) /\ queue'[i] = queue[i]
    BY <2>1 DEF OrderInv, JobsOlder
  <2>2. CASE queue'[i].text = Len(wanted) + 1
    BY <1>0, <2>2, OrderTyped, SMT
  <2>3. QED
    BY <1>3, <2>1, <2>2
<1>7. DraftsOlder'
  <2>1. ASSUME NEW d \in 1 .. Len(drafts) PROVE drafts[d] <= Len(wanted')
    BY <1>0, <1>1, OrderTyped, SMT DEF OrderInv, DraftsOlder
  <2>2. ASSUME NEW d \in 1 .. Len(drafts), NEW i \in 1 .. Len(queue'), Saves(queue'[i])
        PROVE  drafts[d] < queue'[i].text
    <3>1. CASE i \in 1 .. Len(queue) /\ queue'[i] = queue[i]
      BY <2>2, <3>1 DEF OrderInv, DraftsOlder
    <3>2. CASE queue'[i].text = Len(wanted) + 1
      BY <1>0, <3>2, OrderTyped, SMT DEF OrderInv, DraftsOlder
    <3>3. QED
      BY <1>3, <2>2, <3>1, <3>2
  <2>3. QED
    BY <1>4, <2>1, <2>2 DEF DraftsOlder, Saves
<1>8. QED
  BY <1>5, <1>6, <1>7 DEF OrderInv

LEMMA TakenKeepsOrder == OrderInv /\ TypeInv' /\ TaskTaken => OrderInv'
<1> SUFFICES ASSUME OrderInv, TypeInv', TaskTaken PROVE OrderInv'
  OBVIOUS
<1>0. TypeInv
  BY DEF OrderInv
<1>1. /\ Len(queue') \in Nat /\ Len(queue') = Len(queue) - 1
      /\ \A i \in 1 .. Len(queue') : i + 1 \in 1 .. Len(queue) /\ queue'[i] = queue[i + 1]
      /\ Head(queue) = queue[1] /\ 1 \in 1 .. Len(queue)
      /\ UNCHANGED <<drafts, wanted>>
  <2>1. queue \in Seq(Task) /\ queue # <<>> /\ queue' = Tail(queue)
    BY <1>0, OrderTyped DEF TaskTaken
  <2>2. QED
    BY <2>1, SMT DEF TaskTaken
<1>2. QueueOrdered'
  BY <1>0, <1>1, QueueKeepsOrder DEF OrderInv
<1>3. \* The task that is taken is older than those that still wait.
      \A i \in 1 .. Len(queue') :
         Saves(queue[1]) /\ Saves(queue'[i]) => queue[1].text < queue'[i].text
  <2> TAKE i \in 1 .. Len(queue')
  <2>1. 1 < i + 1 /\ i + 1 \in 1 .. Len(queue) /\ queue'[i] = queue[i + 1]
    BY <1>1, SMT
  <2>2. QED
    BY <1>1, <2>1 DEF OrderInv, QueueOrdered
<1>4. DraftsOlder'
  BY <1>1 DEF OrderInv, DraftsOlder, Saves
<1>5. CASE UNCHANGED job
  BY <1>1, <1>2, <1>4, <1>5
     DEF OrderInv, JobsOlder, Saving, Text, Saves
<1>6. CASE \E w \in Workers : Begin(w, Head(queue)) /\ Loads(Head(queue))
  <2>1. PICK w \in Workers : Begin(w, Head(queue)) /\ Loads(Head(queue))
    BY <1>6
  <2>2. w \in Processes
    BY DEF Processes
  <2>3. Known(queue[1])
    BY <1>1, <1>0 DEF TypeInv, TasksKnown
  <2>4. /\ \A q \in Processes : q # w => job'[q] = job[q]
        /\ job'[w].task = queue[1] /\ job'[w].step = "call"
    BY <1>0, <1>1, <2>1, <2>2, <2>3, BeginTyped
  <2>5. JobsOlder'
    <3> SUFFICES ASSUME NEW p \in Processes, NEW i \in 1 .. Len(queue'),
                        job'[p].step = "call", Saves(job'[p].task), Saves(queue'[i])
                 PROVE  job'[p].task.text < queue'[i].text
      BY DEF JobsOlder, Saving, Saves, Text
    <3>1. CASE p = w
      BY <1>3, <2>4, <3>1
    <3>2. CASE p # w
      BY <1>1, <2>4, <3>2 DEF OrderInv, JobsOlder, Saving, Text
    <3>3. QED
      BY <3>1, <3>2
  <2>6. QED
    BY <1>2, <1>4, <2>5 DEF OrderInv
<1>7. QED
  BY <1>5, <1>6 DEF TaskTaken

LEMMA CommandKeepsOrder == OrderInv /\ TypeInv' /\ CommandRun => OrderInv'
<1> SUFFICES ASSUME OrderInv, TypeInv', CommandRun PROVE OrderInv'
  OBVIOUS
<1>0. TypeInv /\ Command \in Processes
  BY DEF OrderInv, Processes
<1>1. PICK t \in Texts : /\ Known(Send(t, NoKey)) /\ Loads(Send(t, NoKey))
                         /\ Begin(Command, Send(t, NoKey))
  BY DEF CommandRun
<1>2. /\ \A q \in Processes : q # Command => job'[q] = job[q]
      /\ job'[Command].task = Send(t, NoKey)
  BY <1>0, <1>1, BeginTyped
<1>3. ~Saves(job'[Command].task) /\ job'[Command].task.kind = "send"
  BY <1>2, SMT DEF Saves, Send
<1>4. UNCHANGED <<queue, drafts, wanted>>
  BY DEF CommandRun
<1>5. QueueOrdered' /\ DraftsOlder'
  BY <1>4 DEF OrderInv, QueueOrdered, DraftsOlder, Saves
<1>6. JobsOlder'
  <2>1. \A p \in Processes : Saving(p)' => Saving(p) /\ Text(p)' = Text(p)
    BY <1>2, <1>3 DEF Saving, Saves, Text
  <2>2. QED
    BY <1>4, <2>1 DEF OrderInv, JobsOlder, Saves
<1>7. QED
  BY <1>5, <1>6 DEF OrderInv

\* What Gmail does to a draft it is asked about, or that is asked for.
LEMMA DraftChanges ==
    ASSUME TypeInv, NEW p \in Processes, job[p].step = "call", Carried(p),
           NEW d \in 1 .. Len(drafts')
    PROVE  \/ d \in 1 .. Len(drafts) /\ drafts'[d] = drafts[d]
           \/ drafts'[d] = Deleted
           \/ Saving(p) /\ drafts'[d] = Text(p)
<1>0. Kind(p) # "trash" => Text(p) \in Texts
  BY SMT DEF TypeInv, TypeOK, JobsKnown, Known, Job, Task, Kind, Text
<1>1. /\ drafts \in Seq(Texts \cup {Deleted}) /\ Len(drafts) \in Nat
  BY OrderTyped
<1>2. CASE Kind(p) = "send" /\ Mail(Text(p))
  BY <1>2 DEF Mail
<1>3. CASE Kind(p) = "create" /\ NewDraft(Text(p))
  <2>1. Saving(p) /\ drafts' = Append(drafts, Text(p))
    BY <1>3 DEF NewDraft, Saving, Saves, Kind
  <2>2. Text(p) \in Texts
    BY <1>0, <1>3
  <2>3. /\ Len(drafts') = Len(drafts) + 1
        /\ drafts'[Len(drafts) + 1] = Text(p)
        /\ \A e \in 1 .. Len(drafts) : drafts'[e] = drafts[e]
    BY <1>1, <2>1, <2>2, AppendProperties
  <2>4. d \in 1 .. Len(drafts) \/ d = Len(drafts) + 1
    BY <1>1, <2>3, SMT
  <2>5. QED
    BY <2>1, <2>3, <2>4
<1>4. ASSUME NEW e \in 1 .. Len(drafts), NEW u, drafts' = [drafts EXCEPT ![e] = u]
      PROVE  d \in 1 .. Len(drafts) /\ (drafts'[d] = drafts[d] \/ drafts'[d] = u)
  <2>1. Len(drafts') = Len(drafts) /\ DOMAIN drafts' = 1 .. Len(drafts)
    BY <1>1, <1>4, SMT
  <2>2. QED
    BY <1>1, <1>4, <2>1
<1>5. CASE Kind(p) = "update" /\ ReplaceDraft(job[p].draft, Text(p))
  BY <1>4, <1>5 DEF ReplaceDraft, Held, Saving, Saves, Kind
<1>6. CASE Kind(p) = "trash" /\ DeleteDraft(job[p].draft)
  BY <1>4, <1>6 DEF DeleteDraft, Held
<1>7. QED
  BY <1>2, <1>3, <1>5, <1>6 DEF Carried

\* Jobs that go on keep their texts, and save nothing they did not save before.
LEMMA JobsKeepOrder ==
    ASSUME JobsGoOn
    PROVE  \A p \in Processes : Saving(p)' => Saving(p) /\ job'[p] = job[p]
BY DEF JobsGoOn, Saving

LEMMA GmailKeepsOrder == OrderInv /\ TypeInv' /\ GmailCalled => OrderInv'
<1> SUFFICES ASSUME OrderInv, TypeInv', GmailCalled PROVE OrderInv'
  OBVIOUS
<1>0. TypeInv
  BY DEF OrderInv
<1>1. PICK p \in Processes : job[p].step = "call" /\ Carried(p)
  BY DEF GmailCalled
<1>2. JobsGoOn /\ UNCHANGED <<queue, wanted>>
  BY DEF GmailCalled
<1>3. \A q \in Processes : Saving(q)' => Saving(q) /\ job'[q] = job[q]
  BY <1>2, JobsKeepOrder
<1>4. QueueOrdered' /\ JobsOlder'
  BY <1>2, <1>3 DEF OrderInv, QueueOrdered, JobsOlder, Saves, Text
<1>5. DraftsOlder'
  <2> SUFFICES ASSUME NEW d \in 1 .. Len(drafts')
               PROVE  /\ drafts'[d] <= Len(wanted)
                      /\ \A i \in 1 .. Len(queue) : Saves(queue[i]) => drafts'[d] < queue[i].text
    BY <1>2 DEF DraftsOlder, Saves
  <2>1. CASE d \in 1 .. Len(drafts) /\ drafts'[d] = drafts[d]
    BY <2>1 DEF OrderInv, DraftsOlder
  <2>2. CASE drafts'[d] = Deleted
    <3>1. \A i \in 1 .. Len(queue) : Saves(queue[i]) =>
             queue[i].text \in Nat /\ queue[i].text \in Texts
      BY <1>0, TypedRows DEF TypeInv, TasksKnown, Known, Saves
    <3>2. QED
      BY <1>0, <2>2, <3>1, OrderTyped, SMT
  <2>3. CASE Saving(p) /\ drafts'[d] = Text(p)
    BY <1>0, <2>3, OrderTyped DEF OrderInv, JobsOlder
  <2>4. QED
    BY <1>0, <1>1, <2>1, <2>2, <2>3, DraftChanges
<1>6. QED
  BY <1>4, <1>5 DEF OrderInv

\* Anything else queues at most the removal of a draft, and removes one.
LEMMA ElseQueue ==
    ASSUME TypeInv, AllElse
    PROVE  \A i \in 1 .. Len(queue') :
              (i \in 1 .. Len(queue) /\ queue'[i] = queue[i]) \/ ~HasText(queue'[i])
<1>1. CASE UNCHANGED queue
  BY <1>1
<1>2. ASSUME NEW task \in Task, task.kind = "trash", queue' = Append(queue, task)
      PROVE  \A i \in 1 .. Len(queue') :
               (i \in 1 .. Len(queue) /\ queue'[i] = queue[i]) \/ ~HasText(queue'[i])
  <2>1. /\ Len(queue') = Len(queue) + 1
        /\ \A i \in 1 .. Len(queue) : queue'[i] = queue[i]
        /\ queue'[Len(queue) + 1] = task
    BY <1>2, OrderTyped, AppendProperties
  <2>2. \A i \in 1 .. Len(queue') : i \in 1 .. Len(queue) \/ i = Len(queue) + 1
    BY <2>1, OrderTyped, SMT
  <2>3. ~HasText(task)
    BY <1>2 DEF HasText
  <2>4. QED
    BY <2>1, <2>2, <2>3, Zenon
<1>3. QED
  BY <1>1, <1>2 DEF AllElse

LEMMA ElseDrafts ==
    ASSUME TypeInv, AllElse
    PROVE  \A d \in 1 .. Len(drafts') :
              d \in 1 .. Len(drafts) /\ (drafts'[d] = drafts[d] \/ drafts'[d] = Deleted)
<1>1. ASSUME NEW e \in 1 .. Len(drafts), drafts' = [drafts EXCEPT ![e] = Deleted],
             NEW d \in 1 .. Len(drafts')
      PROVE  d \in 1 .. Len(drafts) /\ (drafts'[d] = drafts[d] \/ drafts'[d] = Deleted)
  <2>1. Len(drafts') = Len(drafts) /\ DOMAIN drafts = 1 .. Len(drafts)
    BY <1>1, OrderTyped, SMT
  <2>2. QED
    BY <1>1, <2>1
<1>2. QED
  BY <1>1 DEF AllElse

LEMMA ElseKeepsOrder == OrderInv /\ TypeInv' /\ AllElse => OrderInv'
<1> SUFFICES ASSUME OrderInv, TypeInv', AllElse PROVE OrderInv'
  OBVIOUS
<1>0. TypeInv /\ UNCHANGED wanted /\ Len(queue') \in Nat
  <2>1. queue' \in Seq(Task)
    BY DEF TypeInv, TypeOK
  <2>2. QED
    BY <2>1 DEF OrderInv, AllElse
<1>1. \A q \in Processes : Saving(q)' => Saving(q) /\ job'[q] = job[q]
  BY JobsKeepOrder DEF AllElse
<1>2. \A i \in 1 .. Len(queue') :
         (i \in 1 .. Len(queue) /\ queue'[i] = queue[i]) \/ ~Saves(queue'[i])
  BY <1>0, ElseQueue DEF Saves, HasText
<1>3. QueueOrdered'
  <2>1. \A i \in 1 .. Len(queue') :
           (i + 0 \in 1 .. Len(queue) /\ queue'[i] = queue[i + 0]) \/ ~Saves(queue'[i])
    BY <1>0, <1>2, SMT
  <2>2. QED
    BY <1>0, <2>1, QueueKeepsOrder DEF OrderInv
<1>4. JobsOlder'
  <2> SUFFICES ASSUME NEW p \in Processes, NEW i \in 1 .. Len(queue'),
                      Saving(p), job'[p] = job[p], Saves(queue'[i])
               PROVE  Text(p) < queue'[i].text
    BY <1>1 DEF JobsOlder, Text, Saves
  <2>1. QED
    BY <1>2 DEF OrderInv, JobsOlder
<1>5. \A d \in 1 .. Len(drafts') :
         d \in 1 .. Len(drafts) /\ (drafts'[d] = drafts[d] \/ drafts'[d] = Deleted)
  BY <1>0, ElseDrafts
<1>6. DraftsOlder'
  <2> SUFFICES ASSUME NEW d \in 1 .. Len(drafts')
               PROVE  /\ drafts'[d] <= Len(wanted)
                      /\ \A i \in 1 .. Len(queue') : Saves(queue'[i]) => drafts'[d] < queue'[i].text
    BY <1>0 DEF DraftsOlder, Saves
  <2>1. CASE drafts'[d] = drafts[d]
    BY <1>2, <1>5, <2>1 DEF OrderInv, DraftsOlder
  <2>2. CASE drafts'[d] = Deleted
    <3>1. ASSUME NEW i \in 1 .. Len(queue'), Saves(queue'[i])
          PROVE  queue'[i].text \in Nat /\ queue'[i].text \in Texts
      <4>1. Known(queue[i])' /\ queue'[i].kind # "trash"
        BY <3>1 DEF TypeInv, TasksKnown, Saves
      <4>2. queue'[i].text \in 1 .. Len(wanted')
        BY <4>1 DEF Known
      <4>3. QED
        BY <4>2, TypedWanted
    <3>2. QED
      BY <1>0, <2>2, <3>1, OrderTyped, SMT
  <2>3. QED
    BY <1>5, <2>1, <2>2
<1>7. QED
  BY <1>3, <1>4, <1>6 DEF OrderInv

LEMMA NextOrder == OrderInv /\ [Next]_vars => OrderInv'
BY StepShape, NextTyped, FormKeepsOrder, TakenKeepsOrder, CommandKeepsOrder,
   GmailKeepsOrder, ElseKeepsOrder DEF OrderInv

-----------------------------------------------------------------------------
(* The outbox implements TextDelivery.                                     *)

KeptTexts == {t \in Texts : outbox[t] # NoRow}
ObtainedTexts == {t \in Texts : Obtained(t)}

\* A number that no form has got yet is nobody's text.
Numbered == KeptTexts \cup ObtainedTexts \subseteq 1 .. Len(wanted)
DeliveryInv == SafeInv /\ Numbered

\* What a step may do to the texts, with Gmail being asked again for a text it
\* has, and a row being deleted again, among the steps that change nothing.
Submits ==
    \E t \in Texts :
        /\ t \notin 1 .. Len(wanted)
        /\ 1 .. Len(wanted') = 1 .. Len(wanted) \cup {t}
        /\ KeptTexts' = KeptTexts \cup {t} /\ ObtainedTexts' = ObtainedTexts
Obtains ==
    \E t \in KeptTexts \cup ObtainedTexts :
        /\ ObtainedTexts' = ObtainedTexts \cup {t} /\ KeptTexts' = KeptTexts
        /\ wanted' = wanted
Discharges ==
    \E t \in ObtainedTexts :
        /\ KeptTexts' = KeptTexts \ {t} /\ ObtainedTexts' = ObtainedTexts
        /\ wanted' = wanted
LeavesTexts == UNCHANGED <<KeptTexts, ObtainedTexts, wanted>>

LEMMA SameObtained ==
    UNCHANGED <<drafts, mailed, discarded>> => ObtainedTexts' = ObtainedTexts
BY DEF ObtainedTexts, Obtained, Drafted

LEMMA DiscardedWasDrafted ==
    ASSUME TypeInv, NEW d \in 1 .. Len(drafts), NEW x,
           drafts' = [drafts EXCEPT ![d] = x],
           discarded' \subseteq discarded \cup {drafts[d]}, UNCHANGED mailed,
           NEW t \in Texts, t # x, Obtained(t)'
    PROVE  Obtained(t)
<1>1. CASE mailed'[t].times > 0
  BY <1>1 DEF Obtained
<1>2. CASE t \in discarded'
  BY <1>2 DEF Obtained, Drafted
<1>3. CASE \E e \in 1 .. Len(drafts') : drafts'[e] = t
  <2>1. PICK e \in 1 .. Len(drafts') : drafts'[e] = t
    BY <1>3
  <2>2. /\ 1 .. Len(drafts') = 1 .. Len(drafts)
        /\ \A f \in 1 .. Len(drafts) : f # d => drafts'[f] = drafts[f]
        /\ drafts'[d] = x
    BY TypedRows, SMT
  <2>3. e # d
    BY <2>1, <2>2
  <2>4. QED
    BY <2>1, <2>2, <2>3 DEF Obtained, Drafted
<1>4. QED
  BY <1>1, <1>2, <1>3 DEF Obtained, Drafted

LEMMA DraftGoesOnly ==
    ASSUME TypeInv, NEW d, DeleteDraft(d) PROVE ObtainedTexts' = ObtainedTexts
<1>1. /\ d \in 1 .. Len(drafts) /\ drafts' = [drafts EXCEPT ![d] = Deleted]
      /\ discarded' = discarded \cup {drafts[d]} /\ UNCHANGED mailed
  BY DEF DeleteDraft, Held
<1>2. \A t \in Texts : t # Deleted
  BY SMT
<1>3. ASSUME NEW t \in Texts PROVE Obtained(t)' <=> Obtained(t)
  BY <1>1, <1>2, DraftGoes, DiscardedWasDrafted
<1>4. QED
  BY <1>3 DEF ObtainedTexts

\* A call gives Gmail the text that it is about, and no other.
LEMMA CarriedObtainsOnly ==
    ASSUME TypeInv, NEW p \in Processes, job[p].step = "call", Carried(p)
    PROVE  ObtainedTexts' = IF Kind(p) = "trash" THEN ObtainedTexts
                            ELSE ObtainedTexts \cup {Text(p)}
<1>1. Kind(p) # "trash" => Text(p) \in Texts
  BY SMT DEF TypeInv, TypeOK, JobsKnown, Known, Job, Task, Kind, Text
<1>2. CASE Kind(p) = "trash"
  BY <1>2, DraftGoesOnly DEF Carried
<1>3. CASE Kind(p) # "trash"
  <2>1. ASSUME NEW t \in Texts, t # Text(p), Obtained(t)' PROVE Obtained(t)
    <3>1. CASE Mail(Text(p))
      <4>1. mailed'[t] = mailed[t] /\ UNCHANGED <<drafts, discarded>>
        BY <2>1, <3>1 DEF Mail, TypeInv, TypeOK
      <4>2. QED
        BY <2>1, <4>1 DEF Obtained, Drafted
    <3>2. CASE NewDraft(Text(p))
      <4>1. /\ drafts' = Append(drafts, Text(p))
            /\ UNCHANGED <<mailed, discarded>> /\ Text(p) \in Texts \cup {Deleted}
        BY <1>1, <1>3, <3>2 DEF NewDraft
      <4>2. /\ Len(drafts') = Len(drafts) + 1
            /\ drafts'[Len(drafts) + 1] = Text(p)
            /\ \A d \in 1 .. Len(drafts) : drafts'[d] = drafts[d]
        BY <4>1, TypedRows, AppendProperties
      <4>3. \A d \in 1 .. Len(drafts') : d \in 1 .. Len(drafts) \/ d = Len(drafts) + 1
        BY <4>2, TypedRows, SMT
      <4>4. QED
        BY <2>1, <4>1, <4>2, <4>3 DEF Obtained, Drafted
    <3>3. CASE ReplaceDraft(job[p].draft, Text(p))
      BY <2>1, <3>3, DiscardedWasDrafted, ZenonT(60) DEF ReplaceDraft, Held
    <3>4. QED
      BY <1>3, <3>1, <3>2, <3>3 DEF Carried
  <2>2. QED
    BY <1>1, <1>3, <2>1, CarriedObtains DEF ObtainedTexts
<1>4. QED
  BY <1>2, <1>3

LEMMA BeginKeeps ==
    ASSUME TypeInv, NEW p \in Processes, NEW task, Known(task), Loads(task),
           Begin(p, task)
    PROVE  KeptTexts' = KeptTexts
<1>1. outbox \in [Texts -> OutboxRow \cup {NoRow}]
  BY DEF TypeInv, TypeOK
<1>2. \A t \in Texts : outbox[t] # NoRow => outbox'[t] # NoRow
  BY BeginTyped
<1>3. \A t \in Texts : outbox[t] = NoRow => outbox'[t] = NoRow
  <2>1. CASE UNCHANGED outbox
    BY <2>1
  <2>2. CASE task.kind = "send"
             /\ outbox' = [outbox EXCEPT ![task.text].copied = @ + 1]
    BY <1>1, <2>2 DEF Loads
  <2>3. QED
    BY <2>1, <2>2 DEF Begin, CopyAttachments
<1>4. QED
  BY <1>2, <1>3 DEF KeptTexts

LEMMA StepOnTexts ==
    ASSUME SafeInv, NEW p \in Processes, Step(p)
    PROVE  Obtains \/ Discharges \/ LeavesTexts
<1> USE DEF gmail, history
<1>0. TypeInv /\ outbox \in [Texts -> OutboxRow \cup {NoRow}]
  BY DEF SafeInv, TypeInv, TypeOK
<1>1. CASE Answered(p) \/ AnswerLost(p)
  <2>1. job[p].step = "call" /\ Carried(p) /\ UNCHANGED <<outbox, wanted>>
    BY <1>1 DEF Answered, AnswerLost
  <2>2. KeptTexts' = KeptTexts
    BY <2>1 DEF KeptTexts
  <2>3. CASE Kind(p) = "trash"
    BY <1>0, <2>1, <2>2, <2>3, CarriedObtainsOnly DEF LeavesTexts
  <2>4. CASE Kind(p) # "trash"
    <3>1. Text(p) \in Texts /\ Text(p) \in 1 .. Len(wanted)
      BY <1>0, <2>1, <2>4, TypedRows, SMT
         DEF TypeInv, JobsKnown, Known, Kind, Text
    <3>2. Text(p) \in KeptTexts \cup ObtainedTexts
      BY <3>1 DEF SafeInv, NothingLost, Kept, KeptTexts, ObtainedTexts
    <3>3. QED
      BY <1>0, <2>1, <2>2, <2>4, <3>2, CarriedObtainsOnly DEF Obtains
  <2>5. QED
    BY <2>3, <2>4
<1>2. CASE NotFound(p) \/ CallFails(p) \/ Store(p) \/ Crash(p)
  <2>1. UNCHANGED <<outbox, wanted, drafts, mailed, discarded>>
    BY <1>2 DEF NotFound, CallFails, Store, Crash
  <2>2. QED
    BY <2>1, SameObtained DEF LeavesTexts, KeptTexts
<1>3. CASE DeleteRow(p)
  <2>1. /\ outbox' = [outbox EXCEPT ![Text(p)] = NoRow]
        /\ UNCHANGED <<wanted, drafts, mailed, discarded>>
        /\ job[p].step = "delete"
    BY <1>3 DEF DeleteRow
  <2>2. KeptTexts' = KeptTexts \ {Text(p)}
    BY <1>0, <2>1 DEF KeptTexts
  <2>3. Text(p) \in ObtainedTexts
    <3>1. Text(p) \in Texts
      BY <1>0, <2>1, TypedRows, SMT DEF TypeInv, JobsKnown, Known, Kind, Text
    <3>2. QED
      BY <2>1, <3>1 DEF SafeInv, AnsweredIsObtained, ObtainedTexts
  <2>4. QED
    BY <2>1, <2>2, <2>3, SameObtained DEF Discharges
<1>4. QED
  BY <1>1, <1>2, <1>3 DEF Step

LEMMA NextOnTexts ==
    ASSUME SafeInv, [Next]_vars
    PROVE  Submits \/ Obtains \/ Discharges \/ LeavesTexts
<1> USE DEF gmail, history
<1>0. TypeInv /\ outbox \in [Texts -> OutboxRow \cup {NoRow}]
  BY DEF SafeInv, TypeInv, TypeOK
<1>1. ASSUME UNCHANGED <<outbox, wanted, drafts, mailed, discarded>> PROVE LeavesTexts
  BY <1>1, SameObtained DEF LeavesTexts, KeptTexts
<1>2. ASSUME NEW k \in Nat \ {0},
             \/ SendNew \/ SaveNewDraft
             \/ SendDraft(k) \/ ReplyOrForward(k) \/ SaveDraft(k)
      PROVE  Submits
  <2>1. PICK want \in {"mail", "forward", "draft"}, key \in Nat, tasks \in Seq(Task) :
           Submit(want, key, tasks) /\ FormTasks(want, key, tasks)
    BY <1>0, <1>2, FormTyped
  <2>2. Len(wanted') = Len(wanted) + 1 /\ Len(wanted) \in Nat
    BY <1>0, <2>1, SubmitTyped, TypedRows DEF FormTasks
  <2>3. /\ outbox' = [outbox EXCEPT ![NextText] = [copied |-> 0, origin |-> key]]
        /\ NextText = Len(wanted) + 1 /\ NextText \in Texts
        /\ UNCHANGED <<drafts, mailed, discarded>>
    BY <2>1 DEF Submit, NextText
  <2>4. [copied |-> 0, origin |-> key] # NoRow
    <3>1. [copied |-> 0, origin |-> key] \in OutboxRow
      BY SMT DEF OutboxRow
    <3>2. QED
      BY <3>1, NoRowIsNoRow
  <2>5. KeptTexts' = KeptTexts \cup {NextText}
    BY <1>0, <2>3, <2>4 DEF KeptTexts
  <2>6. NextText \notin 1 .. Len(wanted)
        /\ 1 .. Len(wanted') = 1 .. Len(wanted) \cup {NextText}
    BY <2>2, <2>3, SMT
  <2>7. QED
    BY <2>3, <2>5, <2>6, SameObtained DEF Submits
<1>3. ASSUME NEW k \in 1 .. Len(rows), TrashDraft(k) \/ SyncRemoves(k) PROVE LeavesTexts
  BY <1>1, <1>3 DEF TrashDraft, SyncRemoves
<1>4. ASSUME NEW d \in 1 .. Len(drafts), SyncDownloads(d) PROVE LeavesTexts
  BY <1>1, <1>4 DEF SyncDownloads
<1>5. ASSUME NEW k \in 1 .. Len(rows), DeletedElsewhere(k) PROVE LeavesTexts
  <2>1. UNCHANGED <<outbox, wanted>>
    BY <1>5 DEF DeletedElsewhere
  <2>2. ObtainedTexts' = ObtainedTexts
    BY <1>0, <1>5, SameObtained, DraftGoesOnly DEF DeletedElsewhere
  <2>3. QED
    BY <2>1, <2>2 DEF LeavesTexts, KeptTexts
<1>6. ASSUME NEW w \in Workers, Start(w) PROVE LeavesTexts
  <2>1. Head(queue) = queue[1] /\ 1 \in 1 .. Len(queue)
    BY <1>6, SMT DEF Start, SafeInv, TypeInv, TypeOK
  <2>2. Known(Head(queue)) /\ w \in Processes
    BY <2>1 DEF SafeInv, TypeInv, TasksKnown, Processes
  <2>3. UNCHANGED <<wanted, drafts, mailed, discarded>>
    BY <1>6 DEF Start
  <2>4. KeptTexts' = KeptTexts
    <3>1. CASE UNCHANGED outbox
      BY <3>1 DEF KeptTexts
    <3>2. CASE Loads(Head(queue)) /\ Begin(w, Head(queue))
      BY <1>0, <2>2, <3>2, BeginKeeps
    <3>3. QED
      BY <1>6, <3>1, <3>2 DEF Start
  <2>5. QED
    BY <2>3, <2>4, SameObtained DEF LeavesTexts
<1>7. ASSUME NEW u \in Texts, Resend(u) PROVE LeavesTexts
  <2>1. Known(Send(u, NoKey)) /\ Loads(Send(u, NoKey)) /\ Command \in Processes
    BY <1>0, <1>7, TypedRows, SMT DEF Resend, Known, Loads, Send, Task, Processes
  <2>2. UNCHANGED <<wanted, drafts, mailed, discarded>> /\ Begin(Command, Send(u, NoKey))
    BY <1>7 DEF Resend
  <2>3. QED
    BY <1>0, <2>1, <2>2, BeginKeeps, SameObtained DEF LeavesTexts
<1>8. CASE UNCHANGED vars
  BY <1>1, <1>8 DEF vars
<1>9. 1 \in Nat \ {0} /\ 1 .. Len(rows) \subseteq Nat \ {0}
  BY SMT DEF SafeInv, TypeInv, TypeOK
<1>10. CASE Next
  BY <1>2, <1>3, <1>4, <1>5, <1>6, <1>7, <1>9, <1>10, StepOnTexts DEF Next
<1>11. QED
  BY <1>8, <1>10

LEMMA InitDelivery == Init => DeliveryInv /\ Delivery!Init
<1> SUFFICES ASSUME Init PROVE DeliveryInv /\ Delivery!Init
  OBVIOUS
<1>1. Len(wanted) = 1 /\ Len(drafts) = 1 /\ drafts[1] = 1
  BY SMT DEF Init
<1>2. KeptTexts = {}
  BY DEF Init, KeptTexts
<1>3. ObtainedTexts \subseteq {1}
  BY <1>1, SMT DEF Init, ObtainedTexts, Obtained, Drafted
<1>4. DeliveryInv
  BY <1>1, <1>2, <1>3, InitSafe, SMT DEF DeliveryInv, Numbered
<1>5. QED
  BY <1>2, <1>4 DEF Delivery!Init, KeptTexts

LEMMA NextDelivery ==
    DeliveryInv /\ [Next]_vars =>
        DeliveryInv' /\ [Delivery!Next]_<<KeptTexts, ObtainedTexts>>
<1> SUFFICES ASSUME DeliveryInv, [Next]_vars
             PROVE  DeliveryInv' /\ [Delivery!Next]_<<KeptTexts, ObtainedTexts>>
  OBVIOUS
<1>0. SafeInv /\ SafeInv' /\ Numbered
  BY NextSafe DEF DeliveryInv
<1>1. CASE Submits
  <2>1. PICK t \in Texts :
          /\ t \notin 1 .. Len(wanted)
          /\ 1 .. Len(wanted') = 1 .. Len(wanted) \cup {t}
          /\ KeptTexts' = KeptTexts \cup {t} /\ ObtainedTexts' = ObtainedTexts
    BY <1>1 DEF Submits
  <2>2. Numbered' /\ t \notin KeptTexts \cup ObtainedTexts
    BY <1>0, <2>1 DEF Numbered
  <2>3. Delivery!Submit(t)
    BY <2>1, <2>2 DEF Delivery!Submit, KeptTexts, ObtainedTexts
  <2>4. QED
    BY <1>0, <2>2, <2>3 DEF DeliveryInv, Delivery!Next
<1>2. CASE Obtains
  <2>1. PICK t \in KeptTexts \cup ObtainedTexts :
          /\ ObtainedTexts' = ObtainedTexts \cup {t} /\ KeptTexts' = KeptTexts
          /\ wanted' = wanted
    BY <1>2 DEF Obtains
  <2>2. Numbered'
    BY <1>0, <2>1 DEF Numbered
  <2>3. CASE t \in KeptTexts
    <3>1. Delivery!Obtain(t) /\ t \in Texts
      BY <2>1, <2>3 DEF Delivery!Obtain, KeptTexts, ObtainedTexts
    <3>2. QED
      BY <1>0, <2>2, <3>1 DEF DeliveryInv, Delivery!Next
  <2>4. CASE t \in ObtainedTexts
    BY <1>0, <2>1, <2>2, <2>4 DEF DeliveryInv
  <2>5. QED
    BY <2>3, <2>4
<1>3. CASE Discharges
  <2>1. PICK t \in ObtainedTexts :
          /\ KeptTexts' = KeptTexts \ {t} /\ ObtainedTexts' = ObtainedTexts
          /\ wanted' = wanted
    BY <1>3 DEF Discharges
  <2>2. Numbered'
    BY <1>0, <2>1 DEF Numbered
  <2>3. CASE t \in KeptTexts
    <3>1. Delivery!Discharge(t) /\ t \in Texts
      BY <2>1, <2>3 DEF Delivery!Discharge, KeptTexts, ObtainedTexts
    <3>2. QED
      BY <1>0, <2>2, <3>1 DEF DeliveryInv, Delivery!Next
  <2>4. CASE t \notin KeptTexts
    BY <1>0, <2>1, <2>2, <2>4 DEF DeliveryInv
  <2>5. QED
    BY <2>3, <2>4
<1>4. CASE LeavesTexts
  BY <1>0, <1>4 DEF LeavesTexts, DeliveryInv, Numbered
<1>5. QED
  BY <1>0, <1>1, <1>2, <1>3, <1>4, NextOnTexts

\* Every behaviour of the outbox, with any number of workers and texts and under
\* any faults, is one of TextDelivery: a text is kept from the form on, obtained
\* from Gmail while it is kept, and given up only when Gmail has it.
THEOREM OutboxDelivers == Spec => DeliversTexts
<1>1. [Delivery!Next]_<<KeptTexts, ObtainedTexts>> =>
        [Delivery!Next]_<<{t \in Texts : outbox[t] # NoRow}, {t \in Texts : Obtained(t)}>>
  BY DEF KeptTexts, ObtainedTexts
<1>2. QED
  BY <1>1, InitDelivery, NextDelivery, PTL DEF Spec, DeliversTexts, Delivery!Spec
=============================================================================
