------------------------- MODULE MailboxMirrorProofs -------------------------
(***************************************************************************)
(* What holds of MailboxMirror for any number of messages, labels, row     *)
(* keys and workers, and any faults: its types, that no mail is taken for  *)
(* something else, and that no mail of the synchronised history is         *)
(* forgotten.                                                              *)
(***************************************************************************)
EXTENDS MailboxMirror, SequenceTheorems, FiniteSetTheorems, TLAPS

USE MirrorAssumption DEF NoKey

\* Steps on behalf of a message, and those of them that make or change its row.
MirrorSteps == {"exists", "get", "fetch", "short", "compare", "build", "insert",
                "labels", "save"}
MessageSteps ==
    MirrorSteps \cup {"info", "modify", "unlabel", "relabel", "trash", "patch"}

\* A job at such a step has a message, and a message task that which it is about.
Fits(j) ==
    /\ j.step \in MessageSteps => j.msg \in Messages
    /\ j.task.kind \in {"download", "update"} =>
         j.step \in MirrorSteps /\ j.task \in {Download(j.msg), Update(j.msg)}
GoodJob(n) == {j \in Job : Fits(j) /\ j.from <= n /\ j.upto <= n}
TypeInv == TypeOK /\ job \in [Workers -> GoodJob(Len(log))]

-----------------------------------------------------------------------------
(* Jobs.                                                                   *)

\* Setting one field of a job.
LEMMA JobField ==
    ASSUME NEW j \in Job
    PROVE  /\ \A s \in Steps : [j EXCEPT !.step = s] \in Job
           /\ \A r \in RowIds \union {NoKey} : [j EXCEPT !.row = r] \in Job
           /\ \A b \in BOOLEAN : /\ [j EXCEPT !.read = b] \in Job
                                 /\ [j EXCEPT !.full = b] \in Job
           /\ \A ls \in SUBSET Labels : [j EXCEPT !.seen = ls] \in Job
           /\ \A n \in Nat : [j EXCEPT !.upto = n] \in Job /\ [j EXCEPT !.from = n] \in Job
           /\ \A ms \in SUBSET Messages : [j EXCEPT !.listed = ms] \in Job
           /\ \A ts \in SUBSET Errand : [j EXCEPT !.todo = ts] \in Job
           /\ \A m \in Messages : [j EXCEPT !.msg = m] \in Job
           /\ \A c \in Change : [j EXCEPT !.change = c] \in Job
           /\ \A t \in Task \union Other : [j EXCEPT !.task = t] \in Job
BY SMT DEF Job

\* A job that goes on keeps its task, message and start.
Goes(j, k) ==
    /\ k \in Job
    /\ k.task = j.task /\ k.msg = j.msg /\ k.from = j.from

LEMMA GoesStep ==
    ASSUME NEW j \in Job, NEW step \in Steps,
           NEW k, k = [j EXCEPT !.step = step]
    PROVE  /\ Goes(j, k) /\ k.step = step /\ k.row = j.row /\ k.full = j.full
           /\ k.seen = j.seen /\ k.upto = j.upto /\ k.listed = j.listed
           /\ k.todo = j.todo
<1>1. k \in Job
  BY JobField
<1>2. QED
  BY <1>1 DEF Goes, Job

LEMMA JobRecord ==
    ASSUME NEW t \in Task \union Other, NEW s \in Steps, NEW m \in Messages \union {"none"},
           NEW r \in RowIds \union {NoKey}, NEW b \in BOOLEAN, NEW f \in BOOLEAN,
           NEW ls \in SUBSET Labels, NEW n \in Nat, NEW u \in Nat,
           NEW ms \in SUBSET Messages, NEW ts \in SUBSET Errand, NEW c \in Change
    PROVE  [task |-> t, step |-> s, msg |-> m, row |-> r, read |-> b, full |-> f,
            seen |-> ls, from |-> n, upto |-> u, listed |-> ms, todo |-> ts,
            change |-> c] \in Job
BY DEF Job

LEMMA NoChangeIsChange == NoChange \in Change
BY DEF NoChange, Change

LEMMA IdleIsGood ==
    /\ Idle \in Job /\ Idle.step = "idle" /\ Idle.task.kind = "none"
    /\ Idle.row = NoKey /\ Idle.from = 0 /\ Idle.upto = 0 /\ Idle.full = FALSE
    /\ \A n \in Nat : Idle \in GoodJob(n)
<1>1. NoChange \in Change
  BY DEF NoChange, Change
<1>2. Idle \in Job
  <2>1. [kind |-> "none"] \in Task \union Other
    BY DEF Other
  <2>2. "idle" \in Steps
    BY DEF Steps
  <2>3. QED
    BY <1>1, <2>1, <2>2, JobRecord DEF Idle
<1>3. /\ Idle.step = "idle" /\ Idle.task.kind = "none" /\ Idle.full = FALSE
      /\ Idle.row = NoKey /\ Idle.from = 0 /\ Idle.upto = 0
  BY DEF Idle
<1>4. Fits(Idle)
  BY <1>3 DEF Fits, MessageSteps, MirrorSteps
<1>5. \A n \in Nat : 0 <= n
  BY SMT
<1>6. QED
  BY <1>2, <1>3, <1>4, <1>5 DEF GoodJob

-----------------------------------------------------------------------------
(* Types.                                                                  *)

LEMMA Types ==
    ASSUME TypeInv
    PROVE  /\ sort \in [Messages -> Sorts]
           /\ remote \in [Messages -> [status : Status, labels : SUBSET Labels]]
           /\ log \in Seq(HistoryItem) /\ Len(log) \in Nat
           /\ synced \in Nat /\ synced <= Len(log) /\ synced \in 0 .. Len(log)
           /\ rows \in [RowIds -> Row \union {NoRow}]
           /\ noEmail \subseteq Messages /\ dropped \subseteq Messages
           /\ disturbed \subseteq Messages /\ skipped \subseteq Messages
           /\ syncs \in 0 .. MaxSyncs
           /\ tasks \in [Task -> Nat]
           /\ job \in [Workers -> Job]
           /\ \A i \in 1 .. Len(log) : log[i] \in HistoryItem
<1>1. TypeOK
  BY DEF TypeInv
<1>2. Len(log) \in Nat /\ \A i \in 1 .. Len(log) : log[i] \in HistoryItem
  BY <1>1, SMT DEF TypeOK
<1>3. synced \in Nat /\ synced <= Len(log)
  BY <1>1, <1>2, SMT DEF TypeOK
<1>4. QED
  BY <1>1, <1>2, <1>3 DEF TypeOK

LEMMA JobOf ==
    ASSUME TypeInv, NEW w \in Workers
    PROVE  /\ job[w] \in Job /\ Fits(job[w])
           /\ job[w].task \in Task \union Other /\ job[w].step \in Steps
           /\ job[w].row \in RowIds \union {NoKey}
           /\ job[w].seen \in SUBSET Labels /\ job[w].full \in BOOLEAN
           /\ job[w].from \in Nat /\ job[w].from <= Len(log)
           /\ job[w].upto \in Nat /\ job[w].upto <= Len(log)
           /\ job[w].listed \subseteq Messages /\ job[w].todo \subseteq Errand
           /\ job[w].change \in Change
           /\ job[w].step \in MessageSteps => job[w].msg \in Messages
<1>1. job[w] \in GoodJob(Len(log))
  BY DEF TypeInv
<1>2. QED
  BY <1>1 DEF GoodJob, Fits, Job

GmailTyped ==
    /\ sort' = sort
    /\ remote' \in [Messages -> [status : Status, labels : SUBSET Labels]]
    /\ log' \in Seq(HistoryItem) /\ Len(log') >= Len(log)
DatabaseTyped ==
    /\ synced' \in 0 .. Len(log)
    /\ rows' \in [RowIds -> Row \union {NoRow}]
    /\ noEmail' \subseteq Messages
BrokerTyped ==
    /\ tasks' \in [Task -> Nat]
    /\ dropped' \subseteq Messages /\ disturbed' \subseteq Messages
MarksTyped ==
    /\ skipped' \subseteq Messages
    /\ syncs' \in 0 .. MaxSyncs
JobTyped ==
    UNCHANGED job \/ \E w \in Workers, j \in GoodJob(Len(log)) : Become(w, j)

LEMMA KeepsTypes ==
    ASSUME TypeInv, GmailTyped, DatabaseTyped, BrokerTyped, MarksTyped, JobTyped
    PROVE  TypeInv'
<1>1. Len(log) \in Nat /\ Len(log') \in Nat /\ job \in [Workers -> GoodJob(Len(log))]
  <2>1. Len(log') \in Nat
    BY SMT DEF GmailTyped
  <2>2. QED
    BY <2>1, Types DEF TypeInv
<1>2. synced' \in 0 .. Len(log')
  BY <1>1, SMT DEF GmailTyped, DatabaseTyped
<1>3. \A j \in GoodJob(Len(log)) : j \in GoodJob(Len(log'))
  <2> SUFFICES ASSUME NEW j \in GoodJob(Len(log)) PROVE j \in GoodJob(Len(log'))
    OBVIOUS
  <2>1. j \in Job /\ Fits(j) /\ j.from <= Len(log) /\ j.upto <= Len(log)
        /\ j.from \in Nat /\ j.upto \in Nat
    BY DEF GoodJob, Job
  <2>2. j.from <= Len(log') /\ j.upto <= Len(log')
    BY <1>1, <2>1, SMT DEF GmailTyped
  <2>3. QED
    BY <2>1, <2>2 DEF GoodJob
<1>4. job' \in [Workers -> GoodJob(Len(log))]
  BY <1>1 DEF JobTyped, Become
<1>5. job' \in [Workers -> GoodJob(Len(log'))]
  BY <1>3, <1>4
<1>6. job' \in [Workers -> Job]
      /\ \A w \in Workers : job'[w].from <= Len(log') /\ job'[w].upto <= Len(log')
  BY <1>5 DEF GoodJob
<1>7. QED
  BY <1>2, <1>5, <1>6, Types DEF TypeInv, TypeOK, GmailTyped, DatabaseTyped, BrokerTyped,
     MarksTyped

LEMMA GoodNext ==
    ASSUME TypeInv, NEW w \in Workers, NEW k, Goes(job[w], k), k.upto <= Len(log),
           k.step \in MessageSteps => job[w].step \in MessageSteps,
           job[w].task.kind \in {"download", "update"} => k.step \in MirrorSteps
    PROVE  k \in GoodJob(Len(log))
<1>1. k.step \in MessageSteps => k.msg \in Messages
  BY JobOf DEF Goes
<1>2. k.task.kind \in {"download", "update"} =>
         k.step \in MirrorSteps /\ k.task \in {Download(k.msg), Update(k.msg)}
  BY JobOf DEF Goes, Fits
<1>3. QED
  BY <1>1, <1>2, JobOf DEF Goes, GoodJob, Fits

LEMMA TaskTypes ==
    /\ \A m \in Messages : Download(m) \in Task /\ Update(m) \in Task
    /\ \A t \in Task : t.kind = "download" => t \in MirrorTask
    /\ \A t \in MirrorTask : t.msg \in Messages /\ t.kind \in {"download", "update"}
                               /\ t \in {Download(t.msg), Update(t.msg)}
                               /\ (t.kind = "download" => t = Download(t.msg))
    /\ \A t \in Task : t \notin MirrorTask => /\ t.row \in RowIds
                                              /\ t.kind \in {"read", "labels", "trash"}
    /\ \A t \in LabelTask : t.kind \in {"read", "labels"} /\ t.change \in Change
    /\ \A m \in Messages : Download(m).kind = "download" /\ Download(m).msg = m
                             /\ Update(m).kind = "update" /\ Update(m).msg = m
    /\ \A t \in Task : t \notin MirrorTask /\ t.kind # "trash" => t.change \in Change
BY SMT DEF Task, MirrorTask, LabelTask, TrashTask, Download, Update, ReadChanges

LEMMA EnqueueTyped ==
    ASSUME TypeInv, NEW S, Enqueue(S)
    PROVE  /\ tasks' \in [Task -> Nat]
           /\ \A t \in Task : tasks[t] > 0 \/ t \in S => tasks'[t] > 0
           /\ \A t \in Task : tasks'[t] > 0 => tasks[t] > 0 \/ t \in S
<1>1. tasks \in [Task -> Nat]
  BY Types
<1>2. ASSUME NEW t \in Task
      PROVE  /\ tasks'[t] \in Nat
             /\ tasks[t] > 0 \/ t \in S => tasks'[t] > 0
             /\ tasks'[t] > 0 => tasks[t] > 0 \/ t \in S
  <2>1. tasks[t] \in Nat
    BY <1>1
  <2>2. tasks'[t] = IF t \in S THEN tasks[t] + 1 ELSE tasks[t]
    BY DEF Enqueue
  <2>3. QED
    BY <2>1, <2>2, SMT
<1>3. tasks' = [t \in Task |-> tasks'[t]]
  BY DEF Enqueue
<1>4. QED
  BY <1>2, <1>3

LEMMA FinishTyped == TypeInv => \A w \in Workers : Finish(w) => JobTyped
BY IdleIsGood, Types DEF Finish, JobTyped

LEMMA GivenUpTyped == \A t : GivenUp(t) \subseteq Messages
<1> SUFFICES ASSUME NEW t PROVE GivenUp(t) \subseteq Messages
  OBVIOUS
<1>1. t \in MirrorTask => t.msg \in Messages
  BY SMT DEF MirrorTask
<1>2. QED
  BY <1>1 DEF GivenUp, WithoutRow

LEMMA DisturbTyped == TypeInv => \A S : Disturb(S) => disturbed' \subseteq Messages
BY Types DEF Disturb

LEMMA GiveUpTyped ==
    ASSUME TypeInv, NEW w \in Workers, GiveUp(w) PROVE BrokerTyped /\ JobTyped
<1>1. JobTyped
  BY FinishTyped DEF GiveUp
<1>2. dropped' \subseteq Messages /\ disturbed' \subseteq Messages
  BY GivenUpTyped, DisturbTyped, Types DEF GiveUp
<1>3. QED
  BY <1>1, <1>2, Types DEF BrokerTyped, GiveUp

LEMMA RetryTyped ==
    ASSUME TypeInv, NEW w \in Workers, Retry(w) PROVE BrokerTyped /\ JobTyped
<1>1. CASE /\ Enqueue({job[w].task}) /\ Finish(w)
           /\ UNCHANGED <<dropped, disturbed>>
  BY <1>1, FinishTyped, EnqueueTyped, Types DEF BrokerTyped
<1>2. QED
  BY <1>1, GiveUpTyped DEF Retry

LEMMA Unchanged ==
    ASSUME TypeInv
    PROVE  /\ UNCHANGED gmail => GmailTyped
           /\ UNCHANGED database => DatabaseTyped
           /\ UNCHANGED broker => BrokerTyped
           /\ UNCHANGED marks => MarksTyped
           /\ UNCHANGED job => JobTyped
<1>1. /\ Len(log) >= Len(log) /\ synced \in 0 .. Len(log)
  BY Types, SMT
<1>2. QED
  BY <1>1, Types DEF gmail, database, broker, marks, GmailTyped, DatabaseTyped, BrokerTyped,
     MarksTyped, JobTyped

-----------------------------------------------------------------------------
(* Rows.                                                                   *)

LEMMA NoRowIsNoRow == \A row \in Row : row # NoRow
BY SMT DEF Row, NoRow

LEMMA RowLabels ==
    ASSUME NEW row \in Row, NEW ls \in SUBSET Labels
    PROVE  /\ [row EXCEPT !.labels = ls] \in Row
           /\ [row EXCEPT !.labels = ls].msg = row.msg
           /\ row.msg \in Messages /\ row.labels \in SUBSET Labels /\ row.read \in BOOLEAN
BY SMT DEF Row

LEMMA ExistingRow ==
    ASSUME TypeInv, NEW r, Exists(r) PROVE r \in RowIds /\ rows[r] \in Row
BY Types DEF Exists

LEMMA StoredTyped ==
    ASSUME TypeInv, NEW w \in Workers, job[w].step \in MessageSteps, NEW ls \in SUBSET Labels
    PROVE  Stored(w, ls) \in Row /\ Stored(w, ls).msg = job[w].msg
<1>1. job[w].msg \in Messages
  BY JobOf
<1>2. QED
  BY <1>1, SMT DEF Stored, Row

\* A step that changes nothing but the labels of a row.
Relabels ==
    /\ rows' \in [RowIds -> Row \union {NoRow}]
    /\ \A r \in RowIds : Exists(r)' <=> Exists(r)
    /\ \A r \in RowIds : Exists(r) => rows'[r].msg = rows[r].msg

LEMMA LabelsChanged ==
    ASSUME TypeInv, NEW r, Exists(r), NEW ls \in SUBSET Labels,
           rows' = [rows EXCEPT ![r].labels = ls]
    PROVE  Relabels
<1>1. r \in RowIds /\ rows[r] \in Row /\ rows \in [RowIds -> Row \union {NoRow}]
  BY ExistingRow, Types
<1>2. rows' = [rows EXCEPT ![r] = [rows[r] EXCEPT !.labels = ls]]
  BY <1>1
<1> DEFINE new == [rows[r] EXCEPT !.labels = ls]
<1>3. new \in Row /\ new.msg = rows[r].msg
  BY <1>1, RowLabels
<1> HIDE DEF new
<1>4. rows' \in [RowIds -> Row \union {NoRow}]
  BY <1>1, <1>2, <1>3 DEF new
<1>5. \A q \in RowIds : rows'[q] = IF q = r THEN new ELSE rows[q]
  BY <1>1, <1>2 DEF new
<1>6. QED
  BY <1>1, <1>3, <1>4, <1>5, NoRowIsNoRow DEF Relabels, Exists

LEMMA SaveRowTyped ==
    ASSUME TypeInv, NEW w \in Workers, job[w].step \in MessageSteps,
           SaveRow(w, rows[job[w].row].labels)
    PROVE  /\ rows' \in [RowIds -> Row \union {NoRow}]
           /\ \A r \in RowIds : r # job[w].row => rows'[r] = rows[r]
           /\ job[w].row \in RowIds =>
                rows'[job[w].row] # NoRow /\ rows'[job[w].row].msg = job[w].msg
<1> DEFINE ls == IF Exists(job[w].row) THEN rows[job[w].row].labels ELSE {}
<1>1. ls \in SUBSET Labels
  BY ExistingRow, RowLabels
<1>2. Stored(w, ls) \in Row /\ Stored(w, ls).msg = job[w].msg
  BY <1>1, StoredTyped
<1> HIDE DEF ls
<1>3. rows' = [rows EXCEPT ![job[w].row] = Stored(w, ls)]
  BY DEF SaveRow, ls
<1> DEFINE new == Stored(w, ls)
<1> HIDE DEF new
<1>4. new \in Row /\ new.msg = job[w].msg /\ rows \in [RowIds -> Row \union {NoRow}]
      /\ rows' = [rows EXCEPT ![job[w].row] = new]
  BY <1>2, <1>3, Types DEF new
<1>5. rows' \in [RowIds -> Row \union {NoRow}]
  BY <1>4
<1>6. \A r \in RowIds : rows'[r] = IF r = job[w].row THEN new ELSE rows[r]
  BY <1>4
<1>7. QED
  BY <1>4, <1>5, <1>6, NoRowIsNoRow DEF Exists

LEMMA FreshKeyIsFresh ==
    ASSUME \E r \in RowIds : Fresh(r)
    PROVE  FreshKey \in RowIds /\ Fresh(FreshKey)
BY DEF FreshKey

LEMMA RowsOfExist ==
    ASSUME NEW m PROVE \A r : r \in RowsOf(m) <=> Exists(r) /\ rows[r].msg = m
BY DEF RowsOf, Exists

-----------------------------------------------------------------------------
(* Every action keeps the types.                                           *)

LEMMA TypesArrive ==
    ASSUME TypeInv, NEW m \in Messages, NEW ls \in SUBSET Labels, Arrive(m, ls)
    PROVE  TypeInv'
<1> DEFINE what == IF ls = {} THEN "unlabelled" ELSE "added"
<1>1. [what |-> what, msg |-> m] \in HistoryItem
  BY DEF HistoryItem
<1>5. log' = Append(log, [what |-> what, msg |-> m])
  BY DEF Arrive, Logged
<1> HIDE DEF what
<1>2. log' \in Seq(HistoryItem) /\ Len(log') >= Len(log)
  BY <1>1, <1>5, Types, SMT
<1>3. GmailTyped
  BY <1>2, Types DEF Arrive, GmailTyped, Status
<1>4. QED
  BY <1>3, KeepsTypes, Unchanged DEF Arrive

LEMMA SetLabelsTyped ==
    ASSUME TypeInv, NEW m \in Messages, NEW ls \in SUBSET Labels, SetLabels(m, ls)
    PROVE  /\ remote' \in [Messages -> [status : Status, labels : SUBSET Labels]]
           /\ log' \in Seq(HistoryItem) /\ Len(log') >= Len(log)
           /\ \A n \in Messages : remote'[n].status = remote[n].status
<1>1. [what |-> "labels", msg |-> m] \in HistoryItem
  BY DEF HistoryItem
<1>2. log' \in Seq(HistoryItem) /\ Len(log') >= Len(log)
  <2>1. CASE UNCHANGED log
    BY <2>1, Types, SMT
  <2>2. CASE Logged("labels", m)
    BY <1>1, <2>2, Types, SMT DEF Logged
  <2>3. QED
    BY <2>1, <2>2 DEF SetLabels
<1>3. remote[m] \in [status : Status, labels : SUBSET Labels]
  BY Types
<1>4. [remote[m] EXCEPT !.labels = ls] \in [status : Status, labels : SUBSET Labels]
      /\ [remote[m] EXCEPT !.labels = ls].status = remote[m].status
  BY <1>3
<1>5. QED
  BY <1>2, <1>4, Types DEF SetLabels

LEMMA DeleteTyped ==
    ASSUME TypeInv, NEW m \in Messages, Delete(m)
    PROVE  /\ remote' \in [Messages -> [status : Status, labels : SUBSET Labels]]
           /\ log' \in Seq(HistoryItem) /\ Len(log') >= Len(log)
<1>1. [what |-> "deleted", msg |-> m] \in HistoryItem
  BY DEF HistoryItem
<1>2. log' \in Seq(HistoryItem) /\ Len(log') >= Len(log)
  BY <1>1, Types, SMT DEF Delete, Logged
<1>3. QED
  BY <1>2, Types DEF Delete, Status

LEMMA TypesRelabel ==
    ASSUME TypeInv, NEW m \in Messages, NEW ls \in SUBSET Labels, Relabel(m, ls)
    PROVE  TypeInv'
<1>1. GmailTyped
  BY SetLabelsTyped DEF Relabel, GmailTyped
<1>2. QED
  BY <1>1, KeepsTypes, Unchanged DEF Relabel

LEMMA TypesVanish ==
    ASSUME TypeInv, NEW m \in Messages, Vanish(m) PROVE TypeInv'
<1>1. GmailTyped
  BY DeleteTyped DEF Vanish, GmailTyped
<1>2. QED
  BY <1>1, KeepsTypes, Unchanged DEF Vanish

LEMMA TypesRequestChange ==
    ASSUME TypeInv, NEW r \in RowIds, NEW c \in UserChanges \ ReadChanges,
           RequestChange(r, c)
    PROVE  TypeInv'
<1>1. BrokerTyped
  BY EnqueueTyped, Types DEF RequestChange, BrokerTyped
<1>2. QED
  BY <1>1, KeepsTypes, Unchanged DEF RequestChange

LEMMA TypesRequestTrash ==
    ASSUME TypeInv, NEW r \in RowIds, RequestTrash(r) PROVE TypeInv'
<1>1. BrokerTyped
  BY EnqueueTyped, Types DEF RequestTrash, BrokerTyped
<1>2. QED
  BY <1>1, KeepsTypes, Unchanged DEF RequestTrash

\* A task that is taken from the broker.
LEMMA TakeTyped ==
    ASSUME TypeInv, NEW t \in Task, tasks[t] > 0, tasks' = [tasks EXCEPT ![t] = @ - 1]
    PROVE  /\ tasks' \in [Task -> Nat]
           /\ \A u \in Task : u # t => tasks'[u] = tasks[u]
<1>1. tasks \in [Task -> Nat]
  BY Types
<1>2. tasks[t] - 1 \in Nat
  BY <1>1, SMT
<1>3. QED
  BY <1>1, <1>2

\* The job that task t becomes.
Starts(w, t, k) ==
    /\ k \in GoodJob(Len(log))
    /\ Become(w, k) /\ k.task = t /\ k.full = FALSE /\ k.todo = {}
    /\ UNCHANGED dropped
    /\ \/ /\ t \in MirrorTask /\ k.row = NoKey /\ k.msg = t.msg
          /\ k.step = IF t.kind = "download" THEN "exists" ELSE "get"
          /\ Meet(w, k.msg)
       \/ /\ t \notin MirrorTask /\ Exists(k.row) /\ k.msg = rows[k.row].msg
          /\ k.row = t.row /\ Meet(w, k.msg)
          /\ k.step = IF t.kind = "trash" THEN "trash" ELSE "info"
          /\ k.change = IF t.kind = "trash" THEN NoChange ELSE t.change

LEMMA StartedJob ==
    ASSUME TypeInv, NEW w \in Workers, NEW t \in Task, Start(w, t)
    PROVE  \/ /\ UNCHANGED job
              /\ \/ /\ t \notin MirrorTask /\ ~Exists(t.row)
                    /\ UNCHANGED <<dropped, disturbed>>
                 \/ dropped' = dropped \union GivenUp(t) /\ Disturb(About(t))
           \/ \E k : Starts(w, t, k)
<1>1. CASE t \in MirrorTask /\ StartMirror(w, t) /\ UNCHANGED dropped
  <2> DEFINE step == IF t.kind = "download" THEN "exists" ELSE "get"
  <2>0. PICK k : k = [Idle EXCEPT !.task = t, !.msg = t.msg, !.step = step]
    OBVIOUS
  <2>1. step \in Steps /\ step \in MirrorSteps /\ step \in {"exists", "get"}
    BY DEF Steps, MirrorSteps
  <2> HIDE DEF step
  <2>2. k \in Job /\ k.task = t /\ k.msg = t.msg /\ k.step = step /\ k.full = FALSE
        /\ k.todo = {} /\ k.row = NoKey /\ k.from = 0 /\ k.upto = 0
    <3>1. k = [task |-> t, step |-> step, msg |-> t.msg, row |-> NoKey, read |-> FALSE,
             full |-> FALSE, seen |-> {}, from |-> 0, upto |-> 0, listed |-> {}, todo |-> {},
             change |-> NoChange]
      BY <2>0 DEF Idle
    <3>2. [task |-> t, step |-> step, msg |-> t.msg, row |-> NoKey, read |-> FALSE,
             full |-> FALSE, seen |-> {}, from |-> 0, upto |-> 0, listed |-> {}, todo |-> {},
             change |-> NoChange] \in Job
      BY <1>1, <2>1, TaskTypes, NoChangeIsChange, JobRecord
    <3>3. QED
      BY <3>1, <3>2
  <2>3. Become(w, k)
    BY <1>1, <2>0 DEF StartMirror, step
  <2>4. t.msg \in Messages /\ t \in {Download(t.msg), Update(t.msg)}
    BY <1>1, TaskTypes
  <2>5. 0 <= Len(log)
    BY Types, SMT
  <2>6. k \in GoodJob(Len(log))
    BY <2>1, <2>2, <2>4, <2>5 DEF GoodJob, Fits
  <2>8. Meet(w, k.msg)
    BY <1>1, <2>2 DEF StartMirror
  <2>7. QED
    BY <1>1, <2>1, <2>2, <2>3, <2>6, <2>8 DEF step, Starts
<1>2. CASE /\ t \notin MirrorTask /\ Exists(t.row)
           /\ StartByUser(w, t) /\ UNCHANGED dropped
  <2> DEFINE step == IF t.kind = "trash" THEN "trash" ELSE "info"
             c == IF t.kind = "trash" THEN NoChange ELSE t.change
             m == rows[t.row].msg
  <2>0. PICK k : k = [Idle EXCEPT !.task = t, !.msg = m, !.row = t.row, !.step = step,
                                  !.change = c]
    OBVIOUS
  <2>1. step \in Steps /\ step \in MessageSteps /\ step \in {"trash", "info"}
    BY DEF Steps, MessageSteps
  <2>2. c \in Change
    BY <1>2, TaskTypes DEF NoChange, Change
  <2>3. m \in Messages /\ t.row \in RowIds
    BY <1>2, ExistingRow, RowLabels
  <2>4. Become(w, k) /\ Meet(w, m)
    BY <1>2, <2>0 DEF StartByUser
  <2> HIDE DEF step, c, m
  <2>10. t \in Task \union Other
    OBVIOUS
  <2>5. k \in Job /\ k.task = t /\ k.msg = m /\ k.step = step /\ k.full = FALSE
        /\ k.todo = {} /\ k.change = c /\ k.row = t.row /\ k.from = 0 /\ k.upto = 0
    <3>1. k = [task |-> t, step |-> step, msg |-> m, row |-> t.row, read |-> FALSE,
             full |-> FALSE, seen |-> {}, from |-> 0, upto |-> 0, listed |-> {}, todo |-> {},
             change |-> c]
      BY <2>0 DEF Idle
    <3>2. [task |-> t, step |-> step, msg |-> m, row |-> t.row, read |-> FALSE,
             full |-> FALSE, seen |-> {}, from |-> 0, upto |-> 0, listed |-> {}, todo |-> {},
             change |-> c] \in Job
      BY <2>1, <2>2, <2>3, <2>10, JobRecord
    <3>3. QED
      BY <3>1, <3>2
  <2>6. t.kind \notin {"download", "update"}
    BY <1>2, TaskTypes
  <2>7. 0 <= Len(log)
    BY Types, SMT
  <2>8. k \in GoodJob(Len(log))
    BY <2>3, <2>5, <2>6, <2>7 DEF GoodJob, Fits
  <2>9. QED
    BY <1>2, <2>1, <2>4, <2>5, <2>8, Zenon DEF m, c, step, Starts
<1>3. CASE /\ t \notin MirrorTask /\ ~Exists(t.row)
           /\ UNCHANGED <<job, dropped, disturbed>>
  BY <1>3
<1>4. CASE dropped' = dropped \union GivenUp(t) /\ UNCHANGED job /\ Disturb(About(t))
  BY <1>4
<1>5. QED
  BY <1>1, <1>2, <1>3, <1>4 DEF Start

LEMMA TypesStart ==
    ASSUME TypeInv, NEW w \in Workers, NEW t \in Task, Start(w, t) PROVE TypeInv'
<1>1. tasks' \in [Task -> Nat] /\ UNCHANGED <<gmail, database, marks>>
  BY TakeTyped DEF Start
<1>2. JobTyped /\ dropped' \subseteq Messages
  BY StartedJob, GivenUpTyped, Types DEF JobTyped, Starts
<1>5. disturbed' \subseteq Messages
  <2>1. CASE UNCHANGED disturbed
    BY <2>1, Types
  <2>2. ASSUME NEW S, Disturb(S) PROVE disturbed' \subseteq Messages
    BY <2>2, DisturbTyped
  <2>3. CASE \E m : Meet(w, m)
    BY <2>2, <2>3 DEF Meet
  <2>4. UNCHANGED disturbed \/ Disturb(About(t)) \/ \E m : Meet(w, m)
    BY StartedJob DEF Starts
  <2>5. QED
    BY <2>1, <2>2, <2>3, <2>4
<1>3. BrokerTyped
  BY <1>1, <1>2, <1>5 DEF BrokerTyped
<1>4. QED
  BY <1>1, <1>2, <1>3, KeepsTypes, Unchanged

LEMMA TypesCallFails ==
    ASSUME TypeInv, NEW w \in Workers, CallFails(w) PROVE TypeInv'
BY RetryTyped, GiveUpTyped, KeepsTypes, Unchanged DEF CallFails

LEMMA TypesCrash ==
    ASSUME TypeInv, NEW w \in Workers, Crash(w) PROVE TypeInv'
<1>1. tasks' \in [Task -> Nat] /\ disturbed' \subseteq Messages
  BY EnqueueTyped, DisturbTyped DEF Crash
<1>4. Unsent(w) \subseteq Messages /\ WithoutRow(Unsent(w)) \subseteq Messages
      /\ Undeleted(w) \subseteq Messages
  BY DEF Unsent, WithoutRow, Undeleted
<1>2. dropped' \subseteq Messages /\ skipped' \subseteq Messages /\ UNCHANGED syncs
  BY <1>4, GivenUpTyped, Types DEF Crash
<1>3. QED
  BY <1>1, <1>2, FinishTyped, KeepsTypes, Unchanged, Types
     DEF Crash, BrokerTyped, MarksTyped

SyncSteps == {"history", "apply", "carry", "profile", "list", "look", "send"}

LEMMA StepKinds ==
    /\ MirrorSteps \subseteq MessageSteps /\ MessageSteps \subseteq Steps
    /\ SyncSteps \union {"idle"} \subseteq Steps
    /\ (SyncSteps \union {"idle"}) \cap MessageSteps = {}
    /\ {"info", "modify", "unlabel", "relabel", "trash", "patch"} \cap MirrorSteps = {}
BY DEF MirrorSteps, MessageSteps, SyncSteps, Steps

\* Going on at another step for the same message.
LEMMA GoodMirrorStep ==
    ASSUME TypeInv, NEW w \in Workers, NEW k, Goes(job[w], k), k.upto = job[w].upto,
           job[w].step \in MessageSteps, k.step \in MirrorSteps
    PROVE  k \in GoodJob(Len(log))
BY GoodNext, JobOf

LEMMA GoodUserStep ==
    ASSUME TypeInv, NEW w \in Workers, NEW k, Goes(job[w], k), k.upto = job[w].upto,
           job[w].step \in MessageSteps \ MirrorSteps
    PROVE  k \in GoodJob(Len(log))
BY GoodNext, JobOf DEF Fits

LEMMA GoodSyncStep ==
    ASSUME TypeInv, NEW w \in Workers, NEW k, Goes(job[w], k), k.upto <= Len(log),
           job[w].step \notin MessageSteps, k.step \notin MessageSteps
    PROVE  k \in GoodJob(Len(log))
BY GoodNext, JobOf, StepKinds DEF Fits

LEMMA GoodGoto ==
    ASSUME TypeInv, NEW w \in Workers, NEW step, Goto(w, step), step \in MirrorSteps,
           job[w].step \in MessageSteps
    PROVE  \E k \in GoodJob(Len(log)) :
             /\ Become(w, k) /\ Goes(job[w], k) /\ k.step = step /\ k.row = job[w].row
             /\ k.full = job[w].full /\ k.seen = job[w].seen /\ k.upto = job[w].upto
<1>1. PICK k : k = [job[w] EXCEPT !.step = step]
  OBVIOUS
<1>2. step \in Steps
  BY StepKinds
<1>3. /\ Goes(job[w], k) /\ k.step = step /\ k.row = job[w].row
      /\ k.full = job[w].full /\ k.seen = job[w].seen /\ k.upto = job[w].upto
  BY <1>1, <1>2, GoesStep, JobOf
<1>4. k \in GoodJob(Len(log))
  BY <1>3, GoodMirrorStep
<1>5. Become(w, k)
  BY <1>1 DEF Goto
<1>6. QED
  BY <1>3, <1>4, <1>5

LEMMA GoodUserGoto ==
    ASSUME TypeInv, NEW w \in Workers, NEW step \in Steps, Goto(w, step),
           job[w].step \in MessageSteps \ MirrorSteps
    PROVE  \E k \in GoodJob(Len(log)) :
             /\ Become(w, k) /\ Goes(job[w], k) /\ k.step = step /\ k.row = job[w].row
             /\ k.full = job[w].full /\ k.seen = job[w].seen /\ k.upto = job[w].upto
<1>1. PICK k : k = [job[w] EXCEPT !.step = step]
  OBVIOUS
<1>3. /\ Goes(job[w], k) /\ k.step = step /\ k.row = job[w].row
      /\ k.full = job[w].full /\ k.seen = job[w].seen /\ k.upto = job[w].upto
  BY <1>1, GoesStep, JobOf
<1>4. k \in GoodJob(Len(log))
  BY <1>3, GoodUserStep
<1>5. Become(w, k)
  BY <1>1 DEF Goto
<1>6. QED
  BY <1>3, <1>4, <1>5

\* What the steps make of their job.
LEMMA JobFetchMessage ==
    ASSUME TypeInv, NEW w \in Workers, FetchMessage(w)
    PROVE  \/ ~There(w) /\ Finish(w)
           \/ \E k \in GoodJob(Len(log)) :
                /\ There(w) /\ Become(w, k) /\ Goes(job[w], k) /\ k.step = "build"
                /\ k.row = job[w].row /\ k.full = TRUE
<1>1. job[w].step \in MessageSteps /\ job[w].msg \in Messages
  BY JobOf DEF FetchMessage, MessageSteps, MirrorSteps
<1>2. CASE There(w)
  <2> DEFINE ls == remote[job[w].msg].labels
  <2>1. ls \in SUBSET Labels
    BY <1>1, Types
  <2>2. PICK k : k = [job[w] EXCEPT !.step = "build", !.full = TRUE, !.seen = ls]
    OBVIOUS
  <2>8. k = [[[job[w] EXCEPT !.step = "build"] EXCEPT !.full = TRUE] EXCEPT !.seen = ls]
    BY <2>2, JobOf, SMT DEF Job
  <2>3. Become(w, k)
    BY <1>2, <2>2 DEF FetchMessage
  <2> HIDE DEF ls
  <2>4. "build" \in Steps /\ "build" \in MirrorSteps
    BY DEF Steps, MirrorSteps
  <2>5. /\ Goes(job[w], k) /\ k.step = "build" /\ k.row = job[w].row /\ k.full = TRUE
        /\ k.upto = job[w].upto
    <3>1. job[w] \in Job
      BY JobOf
    <3>2. [[[job[w] EXCEPT !.step = "build"] EXCEPT !.full = TRUE] EXCEPT !.seen = ls] \in Job
      BY <3>1, <2>1, <2>4, JobField
    <3>3. QED
      BY <3>1, <3>2, <2>8, SMT DEF Job, Goes
  <2>6. k \in GoodJob(Len(log))
    BY <1>1, <2>4, <2>5, GoodMirrorStep
  <2>7. QED
    BY <1>2, <2>3, <2>5, <2>6
<1>3. CASE ~There(w)
  BY <1>3 DEF FetchMessage
<1>4. QED
  BY <1>2, <1>3

LEMMA JobGetMessage ==
    ASSUME TypeInv, NEW w \in Workers, GetMessage(w)
    PROVE  \E k \in GoodJob(Len(log)) :
              /\ Become(w, k) /\ Goes(job[w], k) /\ k.full = job[w].full
              /\ \/ k.step = "exists" /\ k.row = job[w].row
                 \/ k.step = "short" /\ k.row \in RowsOf(job[w].msg)
<1>1. job[w].step \in MessageSteps
  BY DEF GetMessage, MessageSteps, MirrorSteps
<1>2. CASE Goto(w, "exists")
  BY <1>1, <1>2, GoodGoto DEF MirrorSteps
<1>3. ASSUME NEW r \in RowsOf(job[w].msg),
             Become(w, [job[w] EXCEPT !.step = "short", !.row = r, !.read = rows[r].read])
      PROVE  \E k \in GoodJob(Len(log)) :
                /\ Become(w, k) /\ Goes(job[w], k) /\ k.full = job[w].full
                /\ k.step = "short" /\ k.row \in RowsOf(job[w].msg)
  <2> DEFINE b == rows[r].read
  <2>1. b \in BOOLEAN /\ r \in RowIds \union {NoKey}
    BY RowsOfExist, ExistingRow, RowLabels
  <2>2. PICK k : k = [job[w] EXCEPT !.step = "short", !.row = r, !.read = b]
    OBVIOUS
  <2>8. k = [[[job[w] EXCEPT !.step = "short"] EXCEPT !.row = r] EXCEPT !.read = b]
    BY <2>2, JobOf, SMT DEF Job
  <2>3. Become(w, k)
    BY <1>3, <2>2
  <2> HIDE DEF b
  <2>4. "short" \in Steps /\ "short" \in MirrorSteps
    BY DEF Steps, MirrorSteps
  <2>5. /\ Goes(job[w], k) /\ k.step = "short" /\ k.row = r /\ k.full = job[w].full
        /\ k.upto = job[w].upto
    <3>1. job[w] \in Job
      BY JobOf
    <3>2. [[[job[w] EXCEPT !.step = "short"] EXCEPT !.row = r] EXCEPT !.read = b] \in Job
      BY <3>1, <2>1, <2>4, JobField
    <3>3. QED
      BY <3>1, <3>2, <2>8, SMT DEF Job, Goes
  <2>6. k \in GoodJob(Len(log))
    BY <1>1, <2>4, <2>5, GoodMirrorStep
  <2>7. QED
    BY <1>3, <2>3, <2>5, <2>6
<1>4. QED
  BY <1>2, <1>3 DEF GetMessage

LEMMA JobFetchLabels ==
    ASSUME TypeInv, NEW w \in Workers, FetchLabels(w)
    PROVE  \/ ~There(w) /\ Finish(w)
           \/ \E k \in GoodJob(Len(log)) :
                /\ Become(w, k) /\ Goes(job[w], k) /\ k.step = "compare"
                /\ k.row = job[w].row /\ k.full = job[w].full
<1>1. job[w].step \in MessageSteps /\ job[w].msg \in Messages
  BY JobOf DEF FetchLabels, MessageSteps, MirrorSteps
<1>2. CASE There(w)
  <2> DEFINE ls == remote[job[w].msg].labels
  <2>1. ls \in SUBSET Labels
    BY <1>1, Types
  <2>2. PICK k : k = [job[w] EXCEPT !.step = "compare", !.seen = ls]
    OBVIOUS
  <2>8. k = [[job[w] EXCEPT !.step = "compare"] EXCEPT !.seen = ls]
    BY <2>2, JobOf, SMT DEF Job
  <2>3. Become(w, k)
    BY <1>2, <2>2 DEF FetchLabels
  <2> HIDE DEF ls
  <2>4. "compare" \in Steps /\ "compare" \in MirrorSteps
    BY DEF Steps, MirrorSteps
  <2>5. /\ Goes(job[w], k) /\ k.step = "compare" /\ k.row = job[w].row
        /\ k.full = job[w].full /\ k.upto = job[w].upto
    <3>1. job[w] \in Job
      BY JobOf
    <3>2. [[job[w] EXCEPT !.step = "compare"] EXCEPT !.seen = ls] \in Job
      BY <3>1, <2>1, <2>4, JobField
    <3>3. QED
      BY <3>1, <3>2, <2>8, SMT DEF Job, Goes
  <2>6. k \in GoodJob(Len(log))
    BY <1>1, <2>4, <2>5, GoodMirrorStep
  <2>7. QED
    BY <1>2, <2>3, <2>5, <2>6
<1>3. CASE ~There(w)
  BY <1>3 DEF FetchLabels
<1>4. QED
  BY <1>2, <1>3

LEMMA JobCompareLabels ==
    ASSUME TypeInv, NEW w \in Workers, CompareLabels(w)
    PROVE  \/ Finish(w)
           \/ \E k \in GoodJob(Len(log)) :
                /\ Become(w, k) /\ Goes(job[w], k) /\ k.step = "build"
                /\ k.row = job[w].row /\ k.full = job[w].full
<1>1. job[w].step \in MessageSteps /\ "build" \in MirrorSteps
  BY DEF CompareLabels, MessageSteps, MirrorSteps
<1>2. Finish(w) \/ Goto(w, "build")
  BY DEF CompareLabels
<1>3. QED
  BY <1>1, <1>2, GoodGoto

LEMMA JobDownloadedAlready ==
    ASSUME TypeInv, NEW w \in Workers, DownloadedAlready(w)
    PROVE  \E k \in GoodJob(Len(log)) :
                /\ Become(w, k) /\ Goes(job[w], k) /\ k.step \in {"fetch", "get"}
                /\ k.row = job[w].row /\ k.full = job[w].full
<1>1. job[w].step \in MessageSteps /\ "fetch" \in MirrorSteps /\ "get" \in MirrorSteps
  BY DEF DownloadedAlready, MessageSteps, MirrorSteps
<1>2. Goto(w, "fetch") \/ Goto(w, "get")
  BY SMTT(30) DEF DownloadedAlready
<1>3. QED
  BY <1>1, <1>2, GoodGoto

LEMMA JobBuild ==
    ASSUME TypeInv, NEW w \in Workers, Build(w)
    PROVE  \/ \E k \in GoodJob(Len(log)) :
                /\ Become(w, k) /\ Goes(job[w], k) /\ k.full = job[w].full
                /\ HasDate(w, RowsOf(job[w].msg)) /\ UNCHANGED noEmail
                /\ \/ k.step = "insert" /\ k.row = NoKey /\ RowsOf(job[w].msg) = {}
                   \/ k.step = "labels" /\ k.row \in RowsOf(job[w].msg)
           \/ /\ ~HasDate(w, RowsOf(job[w].msg)) /\ Finish(w)
              /\ noEmail' = noEmail \union {job[w].msg}
<1>1. job[w].step \in MessageSteps
  BY DEF Build, MessageSteps, MirrorSteps
<1> DEFINE At(step, r) == [job[w] EXCEPT !.step = step, !.row = r]
           On(step, r) ==
             \E k \in GoodJob(Len(log)) :
                /\ Become(w, k) /\ Goes(job[w], k) /\ k.full = job[w].full
                /\ k.step = step /\ k.row = r
<1>2. ASSUME NEW step \in MirrorSteps, NEW r \in RowIds \union {NoKey},
             Become(w, At(step, r))
      PROVE  On(step, r)
  <2>2. PICK k : k = [job[w] EXCEPT !.step = step, !.row = r]
    OBVIOUS
  <2>8. k = [[job[w] EXCEPT !.step = step] EXCEPT !.row = r]
    BY <2>2, JobOf, SMT DEF Job
  <2>3. Become(w, k)
    BY <1>2, <2>2 DEF At
  <2>4. step \in Steps
    BY StepKinds
  <2>5. /\ Goes(job[w], k) /\ k.step = step /\ k.row = r /\ k.full = job[w].full
        /\ k.upto = job[w].upto
    <3>1. job[w] \in Job
      BY JobOf
    <3>2. [[job[w] EXCEPT !.step = step] EXCEPT !.row = r] \in Job
      BY <3>1, <2>4, JobField
    <3>3. QED
      BY <3>1, <3>2, <2>8, SMT DEF Job, Goes
  <2>6. k \in GoodJob(Len(log))
    BY <1>1, <2>4, <2>5, GoodMirrorStep
  <2>7. QED
    BY <2>3, <2>5, <2>6 DEF On
<1> HIDE DEF At, On
<1>3. "insert" \in MirrorSteps /\ "labels" \in MirrorSteps
      /\ \A r \in RowsOf(job[w].msg) : r \in RowIds
  BY DEF MirrorSteps, RowsOf
<1>4. CASE /\ HasDate(w, RowsOf(job[w].msg)) /\ RowsOf(job[w].msg) = {}
           /\ UNCHANGED noEmail
           /\ Become(w, [job[w] EXCEPT !.step = "insert", !.row = NoKey])
  <2>1. Become(w, At("insert", NoKey))
    BY <1>4 DEF At
  <2>2. On("insert", NoKey)
    BY <1>2, <1>3, <2>1
  <2>3. QED
    BY <1>4, <2>2 DEF On
<1>5. ASSUME HasDate(w, RowsOf(job[w].msg)), UNCHANGED noEmail,
             NEW r \in RowsOf(job[w].msg),
             Become(w, [job[w] EXCEPT !.step = "labels", !.row = r])
      PROVE  \E k \in GoodJob(Len(log)) :
                /\ Become(w, k) /\ Goes(job[w], k) /\ k.full = job[w].full
                /\ HasDate(w, RowsOf(job[w].msg)) /\ UNCHANGED noEmail
                /\ k.step = "labels" /\ k.row \in RowsOf(job[w].msg)
  <2>1. Become(w, At("labels", r))
    BY <1>5 DEF At
  <2>2. On("labels", r)
    BY <1>2, <1>3, <2>1
  <2>3. QED
    BY <1>5, <2>2 DEF On
<1>6. CASE /\ ~HasDate(w, RowsOf(job[w].msg)) /\ Finish(w)
           /\ noEmail' = noEmail \union {job[w].msg}
  BY <1>6
<1>8. QED
  BY <1>4, <1>5, <1>6 DEF Build

LEMMA JobInsertRow ==
    ASSUME TypeInv, NEW w \in Workers, InsertRow(w), RowsOf(job[w].msg) = {}
    PROVE  /\ FreshKey \in RowIds /\ Fresh(FreshKey)
           /\ UNCHANGED broker
           /\ rows' \in [RowIds -> Row \union {NoRow}]
           /\ rows'[FreshKey] # NoRow /\ rows'[FreshKey].msg = job[w].msg
           /\ \A r \in RowIds : r # FreshKey => rows'[r] = rows[r]
           /\ \E k \in GoodJob(Len(log)) :
                /\ Become(w, k) /\ Goes(job[w], k) /\ k.full = job[w].full
                /\ k.step = "labels" /\ k.row = FreshKey
<1>1. job[w].step \in MessageSteps
  BY DEF InsertRow, MessageSteps, MirrorSteps
<1>2. FreshKey \in RowIds /\ Fresh(FreshKey)
  BY FreshKeyIsFresh DEF InsertRow
<1> DEFINE f == FreshKey
<1> HIDE DEF f
<1>3. f \in RowIds
  BY <1>2 DEF f
<1>4. Stored(w, {}) \in Row /\ Stored(w, {}).msg = job[w].msg
  BY <1>1, StoredTyped
<1>5. rows' = [rows EXCEPT ![f] = Stored(w, {})]
  BY DEF InsertRow, f
<1>6. /\ rows' \in [RowIds -> Row \union {NoRow}]
      /\ rows'[f] # NoRow /\ rows'[f].msg = job[w].msg
      /\ \A r \in RowIds : r # f => rows'[r] = rows[r]
  BY <1>3, <1>4, <1>5, Types, NoRowIsNoRow
<1>7. \E k \in GoodJob(Len(log)) :
                /\ Become(w, k) /\ Goes(job[w], k) /\ k.full = job[w].full
                /\ k.step = "labels" /\ k.row = f
  <2>2. PICK k : k = [job[w] EXCEPT !.step = "labels", !.row = f]
    OBVIOUS
  <2>8. k = [[job[w] EXCEPT !.step = "labels"] EXCEPT !.row = f]
    BY <2>2, JobOf, SMT DEF Job
  <2>3. Become(w, k)
    BY <2>2 DEF InsertRow, f
  <2>4. "labels" \in Steps /\ "labels" \in MirrorSteps
    BY DEF Steps, MirrorSteps
  <2>5. /\ Goes(job[w], k) /\ k.step = "labels" /\ k.row = f /\ k.full = job[w].full
        /\ k.upto = job[w].upto
    <3>1. job[w] \in Job
      BY JobOf
    <3>2. [[job[w] EXCEPT !.step = "labels"] EXCEPT !.row = f] \in Job
      BY <1>3, <3>1, <2>4, JobField
    <3>3. QED
      BY <3>1, <3>2, <2>8, SMT DEF Job, Goes
  <2>6. k \in GoodJob(Len(log))
    BY <1>1, <2>4, <2>5, GoodMirrorStep
  <2>7. QED
    BY <2>3, <2>5, <2>6
<1>8. QED
  BY <1>2, <1>6, <1>7 DEF f, InsertRow

LEMMA JobWriteLabels ==
    ASSUME TypeInv, NEW w \in Workers, WriteLabels(w)
    PROVE  \/ /\ \/ UNCHANGED rows
                 \/ Relabels
              /\ \E k \in GoodJob(Len(log)) :
                   /\ Become(w, k) /\ Goes(job[w], k) /\ k.full = job[w].full
                   /\ k.step = "save" /\ k.row = job[w].row
              /\ UNCHANGED broker
           \/ Retry(w) /\ UNCHANGED rows
           \/ Finish(w) /\ UNCHANGED <<rows, broker>>
<1>1. job[w].step \in MessageSteps /\ "save" \in MirrorSteps
  BY DEF WriteLabels, MessageSteps, MirrorSteps
<1>2. CASE Exists(job[w].row) /\ ReplaceLabels(w) /\ Goto(w, "save") /\ UNCHANGED broker
  <2>1. Relabels
    BY <1>2, LabelsChanged, JobOf DEF ReplaceLabels
  <2>2. QED
    BY <1>1, <1>2, <2>1, GoodGoto
<1>3. CASE Goto(w, "save") /\ UNCHANGED <<rows, broker>>
  BY <1>1, <1>3, GoodGoto
<1>4. QED
  BY <1>2, <1>3 DEF WriteLabels

\* The job of a request to change the read flag.
Patches(w, k, r, c) ==
    /\ k \in GoodJob(Len(log))
    /\ Become(w, k) /\ k.task.kind = "patch" /\ k.full = FALSE
    /\ k.step = "patch" /\ Exists(k.row) /\ k.msg = rows[k.row].msg
    /\ Meet(w, k.msg) /\ k.todo = {} /\ k.row = r /\ k.change = c
    /\ k.seen = c.add

LEMMA JobPatchRead ==
    ASSUME TypeInv, NEW w \in Workers, NEW r \in RowIds,
           NEW c \in UserChanges \intersect ReadChanges, PatchRead(w, r, c)
    PROVE  \E k : Patches(w, k, r, c)
<1> DEFINE m == rows[r].msg
           ls == c.add
           t == [kind |-> "patch"]
<1>1. m \in Messages /\ Exists(r)
  BY ExistingRow, RowLabels DEF PatchRead
<1>2. c \in Change /\ ls \in SUBSET Labels
  BY DEF Change
<1>3. t \in Task \union Other /\ t.kind = "patch" /\ "patch" \in Steps
      /\ "patch" \in MessageSteps
  BY DEF Other, Steps, MessageSteps
<1>4. PICK k : k = [Idle EXCEPT !.task = t, !.step = "patch", !.msg = m, !.row = r,
                                !.seen = ls, !.change = c]
  OBVIOUS
<1>5. Become(w, k) /\ Meet(w, m)
  BY <1>4 DEF PatchRead
<1> HIDE DEF m, ls, t
<1>6. k = [task |-> t, step |-> "patch", msg |-> m, row |-> r, read |-> FALSE,
             full |-> FALSE, seen |-> ls, from |-> 0, upto |-> 0, listed |-> {}, todo |-> {},
             change |-> c]
  BY <1>4 DEF Idle
<1>7. [task |-> t, step |-> "patch", msg |-> m, row |-> r, read |-> FALSE,
             full |-> FALSE, seen |-> ls, from |-> 0, upto |-> 0, listed |-> {}, todo |-> {},
             change |-> c] \in Job
  BY <1>1, <1>2, <1>3, JobRecord
<1>8. 0 <= Len(log)
  BY Types, SMT
<1>9. k \in GoodJob(Len(log))
  BY <1>1, <1>3, <1>6, <1>7, <1>8 DEF GoodJob, Fits
<1>10. QED
  BY <1>1, <1>3, <1>5, <1>6, <1>9 DEF m, ls, Patches

LEMMA JobReadInfo ==
    ASSUME TypeInv, NEW w \in Workers, ReadInfo(w)
    PROVE  \/ There(w) /\ UNCHANGED <<rows, broker>> /\ Finish(w)
           \/ /\ There(w) /\ UNCHANGED <<rows, broker>>
              /\ \E k \in GoodJob(Len(log)) :
                   /\ Become(w, k) /\ Goes(job[w], k) /\ k.step = "modify"
                   /\ k.row = job[w].row /\ k.full = job[w].full
           \/ /\ ~There(w) /\ Exists(job[w].row) /\ Finish(w) /\ UNCHANGED broker
              /\ rows' = [rows EXCEPT ![job[w].row] = NoRow]
           \/ Retry(w) /\ UNCHANGED rows
<1>1. job[w].step \in MessageSteps \ MirrorSteps /\ job[w].msg \in Messages
  BY JobOf, StepKinds DEF ReadInfo, MessageSteps
<1> DEFINE ls == remote[job[w].msg].labels
<1>2. ASSUME Become(w, [job[w] EXCEPT !.step = "modify", !.seen = ls]),
             There(w), UNCHANGED <<rows, broker>>
      PROVE  \E k \in GoodJob(Len(log)) :
                   /\ Become(w, k) /\ Goes(job[w], k) /\ k.step = "modify"
                   /\ k.row = job[w].row /\ k.full = job[w].full
  <2>1. ls \in SUBSET Labels
    BY <1>1, Types
  <2>2. PICK k : k = [job[w] EXCEPT !.step = "modify", !.seen = ls]
    OBVIOUS
  <2>3. Become(w, k)
    BY <1>2, <2>2
  <2> HIDE DEF ls
  <2>8. k = [[job[w] EXCEPT !.step = "modify"] EXCEPT !.seen = ls]
    BY <2>2, JobOf, SMT DEF Job
  <2>4. "modify" \in Steps
    BY DEF Steps
  <2>5. /\ Goes(job[w], k) /\ k.step = "modify" /\ k.row = job[w].row
        /\ k.full = job[w].full /\ k.upto = job[w].upto
    <3>1. job[w] \in Job
      BY JobOf
    <3>2. [[job[w] EXCEPT !.step = "modify"] EXCEPT !.seen = ls] \in Job
      BY <3>1, <2>1, <2>4, JobField
    <3>3. QED
      BY <3>1, <3>2, <2>8, SMT DEF Job, Goes
  <2>6. k \in GoodJob(Len(log))
    BY <1>1, <2>5, GoodUserStep
  <2>7. QED
    BY <2>3, <2>5, <2>6
<1>3. QED
  BY <1>2 DEF ReadInfo

LEMMA JobTrashRemote ==
    ASSUME TypeInv, NEW w \in Workers, TrashRemote(w)
    PROVE  /\ job[w].msg \in Messages
           /\ \/ Finish(w) /\ UNCHANGED <<remote, log>>
              \/ Finish(w) /\ Delete(job[w].msg)
              \/ /\ There(w)
                 /\ \E ls \in SUBSET Labels : SetLabels(job[w].msg, ls)
                 /\ \E k \in GoodJob(Len(log)) :
                      /\ Become(w, k) /\ Goes(job[w], k) /\ k.step = "fetch"
                      /\ k.row = job[w].row /\ k.full = job[w].full
<1>1. job[w].step \in MessageSteps /\ job[w].msg \in Messages /\ "fetch" \in MirrorSteps
  BY JobOf DEF TrashRemote, MessageSteps, MirrorSteps
<1>2. remote[job[w].msg].labels \union {Trash} \in SUBSET Labels
  BY <1>1, Types
<1>3. QED
  BY <1>1, <1>2, GoodGoto DEF TrashRemote

LEMMA JobModifyRemote ==
    ASSUME TypeInv, NEW w \in Workers, ModifyRemote(w)
    PROVE  \/ /\ job[w].msg \in Messages /\ There(w)
              /\ \E ls \in SUBSET Labels : SetLabels(job[w].msg, ls)
              /\ \E k \in GoodJob(Len(log)) :
                   /\ Become(w, k) /\ Goes(job[w], k) /\ k.step = "unlabel"
                   /\ k.row = job[w].row /\ k.full = job[w].full
              /\ UNCHANGED broker
           \/ Retry(w) /\ UNCHANGED <<remote, log>>
<1>1. job[w].step \in MessageSteps \ MirrorSteps /\ job[w].msg \in Messages
      /\ "unlabel" \in Steps
  BY JobOf, StepKinds DEF ModifyRemote, MessageSteps
<1>2. (remote[job[w].msg].labels \ ToRemove(w)) \union ToAdd(w) \in SUBSET Labels
  BY <1>1, Types, JobOf DEF ToAdd, Change
<1>3. QED
  BY <1>1, <1>2, GoodUserGoto DEF ModifyRemote

LEMMA JobRemoveLocally ==
    ASSUME TypeInv, NEW w \in Workers, RemoveLocally(w)
    PROVE  /\ \/ UNCHANGED rows
              \/ Relabels
           /\ \E k \in GoodJob(Len(log)) :
                /\ Become(w, k) /\ Goes(job[w], k) /\ k.step = "relabel"
                /\ k.row = job[w].row /\ k.full = job[w].full
<1>1. job[w].step \in MessageSteps \ MirrorSteps /\ "relabel" \in Steps
  BY StepKinds DEF RemoveLocally, MessageSteps
<1>2. CASE Exists(job[w].row)
  <2> DEFINE r == job[w].row
             ls == rows[r].labels \ ToRemove(w)
  <2>1. ls \in SUBSET Labels
    BY <1>2, ExistingRow, RowLabels
  <2>2. rows' = [rows EXCEPT ![r].labels = ls]
    BY <1>2 DEF RemoveLocally
  <2> HIDE DEF ls
  <2>3. Relabels
    BY <1>2, <2>1, <2>2, LabelsChanged
  <2>4. QED
    BY <1>1, <2>3, GoodUserGoto DEF RemoveLocally
<1>3. CASE ~Exists(job[w].row)
  BY <1>1, <1>3, GoodUserGoto DEF RemoveLocally
<1>4. QED
  BY <1>2, <1>3

LEMMA JobAddLocally ==
    ASSUME TypeInv, NEW w \in Workers, AddLocally(w)
    PROVE  \/ /\ UNCHANGED rows \/ Relabels
              /\ Finish(w) /\ UNCHANGED broker
           \/ Retry(w) /\ UNCHANGED rows
<1>1. job[w].step \in MessageSteps
  BY DEF AddLocally, MessageSteps
<1>2. CASE /\ Exists(job[w].row) /\ Finish(w) /\ UNCHANGED broker
           /\ rows' = [rows EXCEPT ![job[w].row].labels = @ \union ToAdd(w)]
  <2> DEFINE r == job[w].row
             ls == rows[r].labels \union ToAdd(w)
  <2>1. ls \in SUBSET Labels
    BY <1>2, ExistingRow, RowLabels, JobOf DEF ToAdd, Change
  <2>2. rows' = [rows EXCEPT ![r].labels = ls]
    BY <1>2
  <2> HIDE DEF ls
  <2>3. Relabels
    BY <1>2, <2>1, <2>2, LabelsChanged
  <2>4. QED
    BY <1>2, <2>3
<1>3. CASE ~Exists(job[w].row) /\ Finish(w) /\ UNCHANGED <<rows, broker>>
  BY <1>3
<1>4. CASE Retry(w) /\ UNCHANGED rows
  BY <1>4
<1>5. QED
  BY <1>2, <1>3, <1>4 DEF AddLocally

IsKind(kind, step, from) ==
    \/ kind = "incremental" /\ step = "history" /\ from = synced
    \/ kind = "full" /\ step = "profile" /\ from = 0

\* The job of a synchronisation that begins.
Begins(w, k, kind, step, from) ==
    /\ k \in GoodJob(Len(log))
    /\ Become(w, k) /\ k.task.kind = kind /\ k.row = NoKey
    /\ k.step = step /\ k.from = from /\ k.todo = {} /\ k.msg = "none"
    /\ k.full = FALSE

LEMMA JobBeginSync ==
    ASSUME TypeInv, NEW w \in Workers, NEW kind, NEW step, NEW from,
           IsKind(kind, step, from), BeginSync(w, kind, step, from)
    PROVE  \E k : Begins(w, k, kind, step, from)
<1> DEFINE t == [kind |-> kind]
<1>1. t \in Task \union Other /\ t.kind = kind /\ step \in Steps
      /\ kind \notin {"download", "update"} /\ step \notin MessageSteps
  BY StepKinds DEF Other, Steps, IsKind, SyncSteps
<1>2. from \in Nat /\ from <= Len(log) /\ 0 <= Len(log)
  BY Types, SMT DEF IsKind
<1>3. PICK k : k = [Idle EXCEPT !.task = t, !.step = step, !.from = from]
  OBVIOUS
<1>4. Become(w, k)
  BY <1>3 DEF BeginSync
<1>9. t = [kind |-> kind]
  OBVIOUS
<1> HIDE DEF t
<1>5. k = [task |-> t, step |-> step, msg |-> "none", row |-> NoKey, read |-> FALSE,
           full |-> FALSE, seen |-> {}, from |-> from, upto |-> 0, listed |-> {},
           todo |-> {}, change |-> NoChange]
  BY <1>3 DEF Idle
<1>6. [task |-> t, step |-> step, msg |-> "none", row |-> NoKey, read |-> FALSE,
           full |-> FALSE, seen |-> {}, from |-> from, upto |-> 0, listed |-> {},
           todo |-> {}, change |-> NoChange] \in Job
  BY <1>1, <1>2, NoChangeIsChange, JobRecord
<1>7. k \in GoodJob(Len(log))
  BY <1>1, <1>2, <1>5, <1>6 DEF GoodJob, Fits
<1>8. QED
  BY <1>4, <1>5, <1>7, <1>9 DEF Begins

LEMMA BeginSyncTyped ==
    ASSUME TypeInv, NEW w \in Workers, NEW q, NEW s, NEW f,
           IsKind(q, s, f), BeginSync(w, q, s, f)
    PROVE  JobTyped
<1>1. PICK k : Begins(w, k, q, s, f)
  BY JobBeginSync
<1>2. QED
  BY <1>1 DEF JobTyped, Begins

\* The job of w, at a step with the history id of this moment.
Upto(w, step) == [job[w] EXCEPT !.step = step, !.upto = Len(log)]

LEMMA GoodUpto ==
    ASSUME TypeInv, NEW w \in Workers, job[w].step \notin MessageSteps,
           NEW step \in Steps \ MessageSteps, NEW k, k = Upto(w, step)
    PROVE  /\ k \in GoodJob(Len(log)) /\ Goes(job[w], k) /\ k.step = step
           /\ k.row = job[w].row /\ k.upto = Len(log) /\ k.todo = job[w].todo
<1> DEFINE n == Len(log)
<1>0. k = [job[w] EXCEPT !.step = step, !.upto = n]
  BY DEF Upto
<1>1. n \in Nat /\ n <= n /\ n = Len(log)
  BY Types, SMT
<1> HIDE DEF n
<1>2. k = [[job[w] EXCEPT !.step = step] EXCEPT !.upto = n]
  BY <1>0, JobOf, SMT DEF Job
<1>3. job[w] \in Job
  BY JobOf
<1>4. [[job[w] EXCEPT !.step = step] EXCEPT !.upto = n] \in Job
  BY <1>1, <1>3, JobField
<1>5. Goes(job[w], k) /\ k.step = step /\ k.row = job[w].row /\ k.upto = n
      /\ k.todo = job[w].todo
  BY <1>1, <1>2, <1>3, <1>4, SMT DEF Job, Goes
<1>6. k \in GoodJob(Len(log))
  BY <1>1, <1>5, GoodSyncStep
<1>7. QED
  BY <1>1, <1>5, <1>6

LEMMA JobGetHistory ==
    ASSUME TypeInv, NEW w \in Workers, GetHistory(w)
    PROVE  \E k \in GoodJob(Len(log)) :
                /\ Become(w, k) /\ Goes(job[w], k) /\ k.step = "apply"
                /\ k.row = job[w].row /\ k.upto = Len(log) /\ k.todo = job[w].todo
<1>1. job[w].step \notin MessageSteps /\ "apply" \in Steps \ MessageSteps
  BY StepKinds DEF GetHistory, SyncSteps
<1>2. PICK k : k = Upto(w, "apply")
  OBVIOUS
<1>3. Become(w, k)
  BY <1>2 DEF GetHistory, Upto
<1>4. /\ k \in GoodJob(Len(log)) /\ Goes(job[w], k) /\ k.step = "apply"
      /\ k.row = job[w].row /\ k.upto = Len(log) /\ k.todo = job[w].todo
  BY <1>1, <1>2, GoodUpto
<1>5. QED
  BY <1>3, <1>4

LEMMA JobGetProfile ==
    ASSUME TypeInv, NEW w \in Workers, GetProfile(w)
    PROVE  \E k \in GoodJob(Len(log)) :
                /\ Become(w, k) /\ Goes(job[w], k) /\ k.step = "list"
                /\ k.row = job[w].row /\ k.upto = Len(log) /\ k.todo = job[w].todo
<1>1. job[w].step \notin MessageSteps /\ "list" \in Steps \ MessageSteps
  BY StepKinds DEF GetProfile, SyncSteps
<1>2. PICK k : k = Upto(w, "list")
  OBVIOUS
<1>3. Become(w, k)
  BY <1>2 DEF GetProfile, Upto
<1>4. /\ k \in GoodJob(Len(log)) /\ Goes(job[w], k) /\ k.step = "list"
      /\ k.row = job[w].row /\ k.upto = Len(log) /\ k.todo = job[w].todo
  BY <1>1, <1>2, GoodUpto
<1>5. QED
  BY <1>3, <1>4

LEMMA JobListMessages ==
    ASSUME TypeInv, NEW w \in Workers, ListMessages(w)
    PROVE  \E k \in GoodJob(Len(log)) :
                /\ Become(w, k) /\ Goes(job[w], k) /\ k.step = "look"
                /\ k.row = job[w].row /\ k.upto = job[w].upto /\ k.todo = job[w].todo
                /\ \A m \in Messages : IsMail(m) => m \in k.listed
<1> DEFINE ms == {m \in NotChat(Messages) : remote[m].status = "there"}
<1>1. job[w].step \notin MessageSteps /\ "look" \in Steps \ MessageSteps
  BY StepKinds DEF ListMessages, SyncSteps
<1>2. ms \in SUBSET Messages /\ \A m \in Messages : IsMail(m) => m \in ms
  BY DEF NotChat, IsMail
<1>3. PICK k : k = [job[w] EXCEPT !.step = "look", !.listed = ms]
  OBVIOUS
<1>4. Become(w, k)
  BY <1>3 DEF ListMessages
<1> HIDE DEF ms
<1>5. k = [[job[w] EXCEPT !.step = "look"] EXCEPT !.listed = ms]
  BY <1>3, JobOf, SMT DEF Job
<1>6. job[w] \in Job
  BY JobOf
<1>7. [[job[w] EXCEPT !.step = "look"] EXCEPT !.listed = ms] \in Job
  BY <1>1, <1>2, <1>6, JobField
<1>8. Goes(job[w], k) /\ k.step = "look" /\ k.row = job[w].row
      /\ k.upto = job[w].upto /\ k.listed = ms /\ k.todo = job[w].todo
  BY <1>5, <1>6, <1>7, SMT DEF Job, Goes
<1>9. k \in GoodJob(Len(log))
  BY <1>1, <1>8, GoodSyncStep, JobOf
<1>10. QED
  BY <1>2, <1>4, <1>8, <1>9

\* The job of w, at a step with these things to do.
Doing(w, step, ts) == [job[w] EXCEPT !.step = step, !.todo = ts]

LEMMA GoodTodo ==
    ASSUME TypeInv, NEW w \in Workers, job[w].step \notin MessageSteps,
           NEW step \in Steps \ MessageSteps, NEW ts \in SUBSET Errand,
           NEW k, k = Doing(w, step, ts)
    PROVE  /\ k \in GoodJob(Len(log)) /\ Goes(job[w], k) /\ k.step = step
           /\ k.row = job[w].row /\ k.upto = job[w].upto /\ k.todo = ts
<1>1. k = [[job[w] EXCEPT !.step = step] EXCEPT !.todo = ts]
  BY JobOf, SMT DEF Job, Doing
<1>2. job[w] \in Job
  BY JobOf
<1>3. [[job[w] EXCEPT !.step = step] EXCEPT !.todo = ts] \in Job
  BY <1>2, JobField
<1>4. Goes(job[w], k) /\ k.step = step /\ k.row = job[w].row /\ k.upto = job[w].upto
      /\ k.todo = ts
  BY <1>1, <1>2, <1>3, SMT DEF Job, Goes
<1>5. QED
  BY <1>4, GoodSyncStep, JobOf

LEMMA ErrandTypes ==
    /\ \A m \in Messages : {Deletion(m), Download(m), Update(m)} \subseteq Errand
    /\ \A t \in Errand : t.msg \in Messages /\ t.kind \in {"delete", "download", "update"}
    /\ \A t \in Errand : /\ t.kind = "delete" <=> t = Deletion(t.msg)
                         /\ t.kind # "delete" => t \in MirrorTask /\ t \in Task
    /\ \A m, n : Deletion(m) # Download(n) /\ Deletion(m) # Update(n)
    /\ \A m, n : Deletion(m) = Deletion(n) => m = n
BY SMT DEF Errand, MirrorTask, Task, Deletion, Download, Update

LEMMA ErrandsOf ==
    ASSUME NEW D \in SUBSET Messages, NEW N \in SUBSET Messages, NEW E \in SUBSET Messages
    PROVE  {Deletion(m) : m \in D} \union {Download(m) : m \in N}
                \union {Update(m) : m \in E} \in SUBSET Errand
BY ErrandTypes

LEMMA MentionedTyped ==
    ASSUME TypeInv, NEW w \in Workers
    PROVE  \A what : Mentioned(w, what) \subseteq Messages
<1>1. \A k \in job[w].from + 1 .. job[w].upto : k \in 1 .. Len(log)
  BY JobOf, Types, SMT
<1>2. QED
  BY <1>1, Types DEF Mentioned, HistoryItem

LEMMA JobApplyHistory ==
    ASSUME TypeInv, NEW w \in Workers, ApplyHistory(w)
    PROVE  \E k \in GoodJob(Len(log)) :
                /\ Become(w, k) /\ Goes(job[w], k) /\ k.step = "carry"
                /\ k.row = job[w].row /\ k.upto = job[w].upto
                /\ k.todo = {Deletion(m) : m \in Deleted(w)}
                               \union {Download(m) : m \in NewMessages(w)}
                               \union {Update(m) : m \in EditLabels(w)}
<1> DEFINE ts == {Deletion(m) : m \in Deleted(w)}
                   \union {Download(m) : m \in NewMessages(w)}
                   \union {Update(m) : m \in EditLabels(w)}
<1>1. job[w].step \notin MessageSteps /\ "carry" \in Steps \ MessageSteps
  BY StepKinds DEF ApplyHistory, SyncSteps
<1>2. Deleted(w) \subseteq Messages /\ NewMessages(w) \subseteq Messages
      /\ EditLabels(w) \subseteq Messages
  BY MentionedTyped DEF Deleted, NewMessages, EditLabels, NotChat
<1>3. ts \in SUBSET Errand
  BY <1>2, ErrandsOf
<1>4. PICK k : k = Doing(w, "carry", ts)
  OBVIOUS
<1>5. Become(w, k)
  BY <1>4 DEF ApplyHistory, Doing
<1> HIDE DEF ts
<1>7. /\ k \in GoodJob(Len(log)) /\ Goes(job[w], k) /\ k.step = "carry"
      /\ k.row = job[w].row /\ k.upto = job[w].upto /\ k.todo = ts
  BY <1>1, <1>3, <1>4, GoodTodo
<1>6. QED
  BY <1>5, <1>7 DEF ts

LEMMA JobLookUp ==
    ASSUME TypeInv, NEW w \in Workers, LookUp(w)
    PROVE  \E k \in GoodJob(Len(log)) :
                /\ Become(w, k) /\ Goes(job[w], k) /\ k.step = "send"
                /\ k.row = job[w].row /\ k.upto = job[w].upto
                /\ k.todo = {Download(m) : m \in WithoutRow(job[w].listed \ noEmail)}
                     \union {Update(m) : m \in (job[w].listed \ noEmail)
                                                 \ WithoutRow(job[w].listed \ noEmail)}
<1> DEFINE wanted == job[w].listed \ noEmail
           ts == {Download(m) : m \in WithoutRow(wanted)}
                   \union {Update(m) : m \in wanted \ WithoutRow(wanted)}
<1>1. job[w].step \notin MessageSteps /\ "send" \in Steps \ MessageSteps
  BY StepKinds DEF LookUp, SyncSteps
<1>2. WithoutRow(wanted) \subseteq Messages /\ wanted \ WithoutRow(wanted) \subseteq Messages
  BY JobOf DEF WithoutRow
<1>8. \A m \in WithoutRow(wanted) : Download(m) \in Errand
  BY <1>2, ErrandTypes
<1>9. \A m \in wanted \ WithoutRow(wanted) : Update(m) \in Errand
  BY <1>2, ErrandTypes
<1> HIDE DEF wanted
<1>3. ts \in SUBSET Errand
  BY <1>8, <1>9
<1> USE DEF wanted
<1>4. PICK k : k = Doing(w, "send", ts)
  OBVIOUS
<1>5. Become(w, k)
  BY <1>4 DEF LookUp, Doing
<1> HIDE DEF ts
<1>7. /\ k \in GoodJob(Len(log)) /\ Goes(job[w], k) /\ k.step = "send"
      /\ k.row = job[w].row /\ k.upto = job[w].upto /\ k.todo = ts
  BY <1>1, <1>3, <1>4, GoodTodo
<1>6. QED
  BY <1>5, <1>7 DEF ts

LEMMA JobDone ==
    ASSUME TypeInv, NEW w \in Workers, NEW t, Done(w, t), job[w].step \in {"carry", "send"}
    PROVE  \E k \in GoodJob(Len(log)) :
                /\ Become(w, k) /\ Goes(job[w], k) /\ k.step = job[w].step
                /\ k.row = job[w].row /\ k.upto = job[w].upto
                /\ k.todo = job[w].todo \ {t}
<1>1. PICK step : step = job[w].step
  OBVIOUS
<1>2. PICK ts : ts = job[w].todo \ {t}
  OBVIOUS
<1>3. job[w].step \notin MessageSteps /\ step \in Steps \ MessageSteps
  BY <1>1, StepKinds DEF SyncSteps
<1>4. ts \in SUBSET Errand
  BY <1>2, JobOf
<1>5. PICK k : k = Doing(w, step, ts)
  OBVIOUS
<1>6. k = [job[w] EXCEPT !.todo = ts]
  <2>1. job[w] \in Job
    BY JobOf
  <2>2. [job[w] EXCEPT !.step = step] = job[w]
    BY <1>1, <2>1, SMT DEF Job
  <2>3. k = [[job[w] EXCEPT !.step = step] EXCEPT !.todo = ts]
    BY <1>5, <2>1, SMT DEF Job, Doing
  <2>4. QED
    BY <2>2, <2>3
<1>7. Become(w, k)
  BY <1>2, <1>6 DEF Done
<1>8. /\ k \in GoodJob(Len(log)) /\ Goes(job[w], k) /\ k.step = step
      /\ k.row = job[w].row /\ k.upto = job[w].upto /\ k.todo = ts
  BY <1>3, <1>4, <1>5, GoodTodo
<1>9. QED
  BY <1>1, <1>2, <1>7, <1>8

LEMMA EndFullTyped ==
    ASSUME TypeInv, NEW w \in Workers, EndFull(w)
    PROVE  DatabaseTyped /\ MarksTyped /\ JobTyped
<1>1. synced' \in 0 .. Len(log)
  BY JobOf, Types, SMT DEF EndFull
<1>2. JobTyped
  BY FinishTyped DEF EndFull
<1> DEFINE passed == {k \in synced + 1 .. job[w].upto : log[k].what = "deleted"}
           over == {log[i].msg : i \in passed}
<1>3. over \subseteq Messages
  <2>1. \A k \in synced + 1 .. job[w].upto : k \in 1 .. Len(log)
    BY JobOf, Types, SMT
  <2>2. QED
    BY <2>1, Types DEF HistoryItem
<1>4. skipped' = skipped \union over /\ UNCHANGED syncs
  BY DEF EndFull
<1> HIDE DEF over
<1>5. MarksTyped
  BY <1>3, <1>4, Types DEF MarksTyped
<1>6. QED
  BY <1>1, <1>2, <1>5, Types DEF DatabaseTyped, EndFull

-----------------------------------------------------------------------------
\* The steps of a worker.
LEMMA TypesMirrorStep ==
    ASSUME TypeInv, NEW w \in Workers, MirrorStep(w) PROVE TypeInv'
<1>1. CASE DownloadedAlready(w)
  <2>1. JobTyped
    BY <1>1, JobDownloadedAlready DEF JobTyped
  <2>2. QED
    BY <1>1, <2>1, KeepsTypes, Unchanged DEF DownloadedAlready
<1>2. CASE FetchMessage(w)
  <2>1. JobTyped
    BY <1>2, JobFetchMessage, FinishTyped DEF JobTyped
  <2>2. QED
    BY <1>2, <2>1, KeepsTypes, Unchanged DEF FetchMessage
<1>3. CASE GetMessage(w)
  <2>1. JobTyped
    BY <1>3, JobGetMessage DEF JobTyped
  <2>2. QED
    BY <1>3, <2>1, KeepsTypes, Unchanged DEF GetMessage
<1>4. CASE FetchLabels(w)
  <2>1. JobTyped
    BY <1>4, JobFetchLabels, FinishTyped DEF JobTyped
  <2>2. QED
    BY <1>4, <2>1, KeepsTypes, Unchanged DEF FetchLabels
<1>5. CASE CompareLabels(w)
  <2>1. JobTyped
    BY <1>5, JobCompareLabels, FinishTyped DEF JobTyped
  <2>2. QED
    BY <1>5, <2>1, KeepsTypes, Unchanged DEF CompareLabels
<1>6. CASE Build(w)
  <2>1. JobTyped
    BY <1>6, JobBuild, FinishTyped DEF JobTyped
  <2>2. job[w].msg \in Messages
    BY <1>6, JobOf DEF Build, MessageSteps, MirrorSteps
  <2>3. noEmail' \subseteq Messages
    BY <1>6, <2>2, JobBuild, Types
  <2>4. DatabaseTyped
    BY <1>6, <2>3, Types DEF Build, DatabaseTyped
  <2>5. QED
    BY <1>6, <2>1, <2>4, KeepsTypes, Unchanged DEF Build
<1>7. CASE InsertRow(w)
  <2>1. CASE RowsOf(job[w].msg) = {}
    <3>1. JobTyped /\ BrokerTyped
      BY <1>7, <2>1, JobInsertRow, Unchanged DEF JobTyped
    <3>2. rows' \in [RowIds -> Row \union {NoRow}]
      BY <1>7, <2>1, JobInsertRow
    <3>3. DatabaseTyped
      BY <1>7, <3>2, Types DEF InsertRow, DatabaseTyped
    <3>4. QED
      BY <1>7, <3>1, <3>3, KeepsTypes, Unchanged DEF InsertRow
  <2>2. CASE RowsOf(job[w].msg) # {}
    <3>1. Retry(w) /\ UNCHANGED database
      BY <1>7, <2>2 DEF InsertRow, database
    <3>2. QED
      BY <1>7, <3>1, RetryTyped, KeepsTypes, Unchanged DEF InsertRow
  <2>3. QED
    BY <2>1, <2>2
<1>8. CASE WriteLabels(w)
  <2>1. JobTyped /\ BrokerTyped
    BY <1>8, JobWriteLabels, RetryTyped, FinishTyped, Unchanged DEF JobTyped, broker
  <2>2. rows' \in [RowIds -> Row \union {NoRow}]
    BY <1>8, JobWriteLabels, Types DEF Relabels
  <2>3. DatabaseTyped
    BY <1>8, <2>2, Types DEF WriteLabels, DatabaseTyped
  <2>4. QED
    BY <1>8, <2>1, <2>3, KeepsTypes, Unchanged DEF WriteLabels
<1>9. CASE SaveMessage(w)
  <2>2. job[w].step \in MessageSteps
    BY <1>9 DEF SaveMessage, MessageSteps, MirrorSteps
  <2>1. CASE CanSave(w)
    <3>1. JobTyped /\ BrokerTyped
      BY <1>9, <2>1, FinishTyped, Unchanged DEF SaveMessage
    <3>3. rows' \in [RowIds -> Row \union {NoRow}]
      BY <1>9, <2>1, <2>2, SaveRowTyped DEF SaveMessage
    <3>4. DatabaseTyped
      BY <1>9, <3>3, Types DEF SaveMessage, DatabaseTyped
    <3>5. QED
      BY <1>9, <3>1, <3>4, KeepsTypes, Unchanged DEF SaveMessage
  <2>3. CASE ~CanSave(w)
    <3>1. JobTyped /\ BrokerTyped
      BY <1>9, <2>3, FinishTyped, RetryTyped, Unchanged DEF SaveMessage
    <3>2. UNCHANGED database
      BY <1>9, <2>3 DEF SaveMessage, database
    <3>3. QED
      BY <1>9, <3>1, <3>2, KeepsTypes, Unchanged DEF SaveMessage
  <2>4. QED
    BY <2>1, <2>3
<1>10. QED
  BY <1>1, <1>2, <1>3, <1>4, <1>5, <1>6, <1>7, <1>8, <1>9 DEF MirrorStep

LEMMA TypesUserStep ==
    ASSUME TypeInv, NEW w \in Workers, UserStep(w) PROVE TypeInv'
<1>1. CASE SavePatch(w)
  <2>1. JobTyped
    BY <1>1, FinishTyped DEF SavePatch
  <2>2. job[w].step \in MessageSteps
    BY <1>1 DEF SavePatch, MessageSteps
  <2>3. rows' \in [RowIds -> Row \union {NoRow}]
    BY <1>1, <2>2, SaveRowTyped, Types DEF SavePatch
  <2>4. DatabaseTyped
    BY <1>1, <2>3, Types DEF SavePatch, DatabaseTyped
  <2>5. tasks' \in [Task -> Nat]
    BY <1>1, EnqueueTyped, Types DEF SavePatch
  <2>7. BrokerTyped
    BY <1>1, <2>5, Types DEF SavePatch, BrokerTyped
  <2>6. QED
    BY <1>1, <2>1, <2>4, <2>7, KeepsTypes, Unchanged DEF SavePatch
<1>2. CASE ReadInfo(w)
  <2>1. JobTyped /\ BrokerTyped
    BY <1>2, JobReadInfo, RetryTyped, FinishTyped, Unchanged DEF JobTyped, broker
  <2>2. rows' \in [RowIds -> Row \union {NoRow}]
    BY <1>2, JobReadInfo, Types
  <2>3. DatabaseTyped
    BY <1>2, <2>2, Types DEF ReadInfo, DatabaseTyped
  <2>4. QED
    BY <1>2, <2>1, <2>3, KeepsTypes, Unchanged DEF ReadInfo
<1>3. CASE ModifyRemote(w)
  <2>1. JobTyped /\ BrokerTyped
    BY <1>3, JobModifyRemote, RetryTyped, Unchanged DEF JobTyped
  <2>2. UNCHANGED <<remote, log>> => UNCHANGED gmail
    BY <1>3 DEF ModifyRemote, gmail
  <2>3. GmailTyped
    BY <1>3, <2>2, JobModifyRemote, SetLabelsTyped, Unchanged DEF ModifyRemote, GmailTyped
  <2>4. QED
    BY <1>3, <2>1, <2>3, KeepsTypes, Unchanged DEF ModifyRemote
<1>4. CASE RemoveLocally(w)
  <2>1. JobTyped
    BY <1>4, JobRemoveLocally DEF JobTyped
  <2>2. rows' \in [RowIds -> Row \union {NoRow}]
    BY <1>4, JobRemoveLocally, Types DEF Relabels
  <2>3. DatabaseTyped
    BY <1>4, <2>2, Types DEF RemoveLocally, DatabaseTyped
  <2>4. QED
    BY <1>4, <2>1, <2>3, KeepsTypes, Unchanged DEF RemoveLocally
<1>5. CASE AddLocally(w)
  <2>1. JobTyped /\ BrokerTyped
    BY <1>5, JobAddLocally, RetryTyped, FinishTyped, Unchanged
  <2>2. rows' \in [RowIds -> Row \union {NoRow}]
    BY <1>5, JobAddLocally, Types DEF Relabels
  <2>3. DatabaseTyped
    BY <1>5, <2>2, Types DEF AddLocally, DatabaseTyped
  <2>4. QED
    BY <1>5, <2>1, <2>3, KeepsTypes, Unchanged DEF AddLocally
<1>6. CASE TrashRemote(w)
  <2>1. JobTyped
    BY <1>6, JobTrashRemote, FinishTyped DEF JobTyped
  <2>2. UNCHANGED <<remote, log>> => UNCHANGED gmail
    BY <1>6 DEF TrashRemote, gmail
  <2>3. GmailTyped
    BY <1>6, <2>2, JobTrashRemote, SetLabelsTyped, DeleteTyped, Unchanged
       DEF TrashRemote, GmailTyped
  <2>4. QED
    BY <1>6, <2>1, <2>3, KeepsTypes, Unchanged DEF TrashRemote
<1>7. QED
  BY <1>1, <1>2, <1>3, <1>4, <1>5, <1>6 DEF UserStep

LEMMA TypesSyncStep ==
    ASSUME TypeInv, NEW w \in Workers, SyncStep(w) PROVE TypeInv'
<1>1. CASE GetHistory(w)
  <2>1. JobTyped
    BY <1>1, JobGetHistory DEF JobTyped
  <2>2. QED
    BY <1>1, <2>1, KeepsTypes, Unchanged DEF GetHistory
<1>2. CASE ApplyHistory(w)
  <2>1. JobTyped
    BY <1>2, JobApplyHistory DEF JobTyped
  <2>2. synced' \in 0 .. Len(log)
    BY <1>2, JobOf, Types, SMT DEF ApplyHistory
  <2>3. DatabaseTyped
    BY <1>2, <2>2, Types DEF ApplyHistory, DatabaseTyped
  <2>4. QED
    BY <1>2, <2>1, <2>3, KeepsTypes, Unchanged DEF ApplyHistory
<1>3. CASE GetProfile(w)
  <2>1. JobTyped
    BY <1>3, JobGetProfile DEF JobTyped
  <2>2. QED
    BY <1>3, <2>1, KeepsTypes, Unchanged DEF GetProfile
<1>4. CASE ListMessages(w)
  <2>1. JobTyped
    BY <1>4, JobListMessages DEF JobTyped
  <2>2. QED
    BY <1>4, <2>1, KeepsTypes, Unchanged DEF ListMessages
<1>5. CASE EndFull(w)
  BY <1>5, EndFullTyped, KeepsTypes, Unchanged DEF EndFull
<1>6. CASE LookUp(w)
  <2>1. JobTyped
    BY <1>6, JobLookUp DEF JobTyped
  <2>2. QED
    BY <1>6, <2>1, KeepsTypes, Unchanged DEF LookUp
<1>7. CASE DeleteRow(w)
  <2>0. PICK m \in Messages :
             /\ rows' = [r \in RowIds |-> IF r \in RowsOf(m) THEN NoRow ELSE rows[r]]
             /\ Done(w, Deletion(m)) /\ Meet(w, m)
    BY <1>7 DEF DeleteRow, Undeleted
  <2>1. JobTyped
    BY <1>7, <2>0, JobDone DEF JobTyped, DeleteRow
  <2>2. rows' \in [RowIds -> Row \union {NoRow}]
    BY <2>0, Types
  <2>3. DatabaseTyped
    BY <1>7, <2>2, Types DEF DeleteRow, DatabaseTyped
  <2>4. BrokerTyped
    BY <1>7, <2>0, DisturbTyped, Types DEF DeleteRow, BrokerTyped, Meet
  <2>5. QED
    BY <1>7, <2>1, <2>3, <2>4, KeepsTypes, Unchanged DEF DeleteRow
<1>8. CASE SendTask(w)
  <2>0. PICK t \in job[w].todo : Enqueue({t}) /\ Done(w, t)
    BY <1>8 DEF SendTask
  <2>1. JobTyped
    BY <1>8, <2>0, JobDone DEF JobTyped, SendTask
  <2>2. BrokerTyped
    BY <1>8, <2>0, EnqueueTyped, Types DEF SendTask, BrokerTyped
  <2>3. QED
    BY <1>8, <2>1, <2>2, KeepsTypes, Unchanged DEF SendTask
<1>9. CASE EndIncremental(w)
  BY <1>9, FinishTyped, KeepsTypes, Unchanged DEF EndIncremental
<1>10. QED
  BY <1>1, <1>2, <1>3, <1>4, <1>5, <1>6, <1>7, <1>8, <1>9 DEF SyncStep

LEMMA TypesBegin ==
    ASSUME TypeInv, NEW w \in Workers,
           \/ \E r \in RowIds, c \in UserChanges \intersect ReadChanges : PatchRead(w, r, c)
           \/ BeginSync(w, "incremental", "history", synced)
           \/ BeginSync(w, "full", "profile", 0)
    PROVE  TypeInv'
<1>1. ASSUME NEW r \in RowIds, NEW c \in UserChanges \intersect ReadChanges,
             PatchRead(w, r, c)
      PROVE  TypeInv'
  <2>1. JobTyped
    BY <1>1, JobPatchRead DEF JobTyped, Patches
  <2>4. disturbed' \subseteq Messages
    BY <1>1, DisturbTyped DEF PatchRead, Meet
  <2>2. BrokerTyped
    BY <1>1, <2>4, Types DEF PatchRead, BrokerTyped
  <2>3. QED
    BY <1>1, <2>1, <2>2, KeepsTypes, Unchanged DEF PatchRead
<1>2. ASSUME NEW kind, NEW step, NEW from, IsKind(kind, step, from),
             BeginSync(w, kind, step, from)
      PROVE  TypeInv'
  <2>1. JobTyped
    BY <1>2, BeginSyncTyped
  <2>2. syncs' \in 0 .. MaxSyncs
    BY <1>2, Types, SMT DEF BeginSync
  <2>3. MarksTyped
    BY <1>2, <2>2, Types DEF MarksTyped, BeginSync
  <2>4. QED
    BY <1>2, <2>1, <2>3, KeepsTypes, Unchanged DEF BeginSync
<1>3. IsKind("incremental", "history", synced) /\ IsKind("full", "profile", 0)
  BY DEF IsKind
<1>4. QED
  BY <1>1, <1>2, <1>3

LEMMA InitTypes == Init => TypeInv
<1> SUFFICES ASSUME Init PROVE TypeInv
  OBVIOUS
<1>0. PICK key \in [Messages -> RowIds \union {NoKey}], ls \in [Messages -> SUBSET Labels] :
         LET stored == {m \in Messages : key[m] # NoKey} IN
         /\ \A m \in stored : sort[m] = "mail"
         /\ \A m, n \in stored : key[m] = key[n] => m = n
         /\ remote = [m \in Messages |->
                        IF m \in stored
                        THEN [status |-> "there", labels |-> ls[m]]
                        ELSE [status |-> "unborn", labels |-> {}]]
         /\ rows \in [RowIds -> {NoRow} \union {Mirror(m, ls[m]) : m \in stored}]
         /\ \A r \in RowIds, m \in stored :
                (rows[r] # NoRow /\ rows[r].msg = m) <=> key[m] = r
  BY DEF Init
<1> DEFINE stored == {m \in Messages : key[m] # NoKey}
<1>1. /\ remote = [m \in Messages |->
                      IF m \in stored
                      THEN [status |-> "there", labels |-> ls[m]]
                      ELSE [status |-> "unborn", labels |-> {}]]
      /\ rows \in [RowIds -> {NoRow} \union {Mirror(m, ls[m]) : m \in stored}]
  BY <1>0
<1>2. remote \in [Messages -> [status : Status, labels : SUBSET Labels]]
  BY <1>1 DEF Status
<1>3. \A m \in Messages : Mirror(m, ls[m]) \in Row
  BY <1>1 DEF Mirror, Row
<1>4. rows \in [RowIds -> Row \union {NoRow}]
  BY <1>1, <1>3
<1>5. log \in Seq(HistoryItem) /\ Len(log) = 0 /\ synced \in 0 .. Len(log)
      /\ tasks \in [Task -> Nat]
  BY SMT DEF Init
<1>6. job \in [Workers -> GoodJob(Len(log))]
  BY <1>5, IdleIsGood DEF Init
<1>7. job \in [Workers -> Job]
      /\ \A w \in Workers : job[w].from <= Len(log) /\ job[w].upto <= Len(log)
  BY <1>6 DEF GoodJob
<1>8. QED
  BY <1>2, <1>4, <1>5, <1>6, <1>7 DEF Init, TypeInv, TypeOK

LEMMA NextTypes == TypeInv /\ [Next]_vars => TypeInv'
<1> SUFFICES ASSUME TypeInv, [Next]_vars PROVE TypeInv'
  OBVIOUS
<1>1. CASE UNCHANGED vars
  BY <1>1, KeepsTypes, Unchanged DEF vars, gmail, database, broker, marks
<1>2. CASE \E m \in Messages :
             \/ \E ls \in SUBSET Labels : Arrive(m, ls) \/ Relabel(m, ls)
             \/ Vanish(m)
  BY <1>2, TypesArrive, TypesRelabel, TypesVanish
<1>3. CASE \E r \in RowIds :
             \/ \E c \in UserChanges \ ReadChanges : RequestChange(r, c)
             \/ RequestTrash(r)
  BY <1>3, TypesRequestChange, TypesRequestTrash
<1>4. ASSUME NEW w \in Workers,
             \/ \E t \in Task : Start(w, t)
             \/ \E r \in RowIds, c \in UserChanges \intersect ReadChanges :
                  PatchRead(w, r, c)
             \/ BeginSync(w, "incremental", "history", synced)
             \/ BeginSync(w, "full", "profile", 0)
             \/ MirrorStep(w) \/ UserStep(w) \/ SyncStep(w)
             \/ CallFails(w) \/ Crash(w)
      PROVE  TypeInv'
  BY <1>4, TypesStart, TypesBegin, TypesMirrorStep, TypesUserStep, TypesSyncStep,
     TypesCallFails, TypesCrash
<1>5. QED
  BY <1>1, <1>2, <1>3, <1>4 DEF Next

\* The states of the mirror are what they are meant to be: every row is a row
\* of a message, every task on the broker is one a worker knows, every job is
\* at a step of its kind of work, and no process is ahead of Gmail's history.
THEOREM TypeCorrect == Spec => []TypeOK
<1>1. TypeInv => TypeOK
  BY DEF TypeInv
<1>2. QED
  BY <1>1, InitTypes, NextTypes, PTL DEF Spec

-----------------------------------------------------------------------------
(* No mail is taken for something else.                                    *)

\* A row of m was seen, or made, and can only have gone with the message.
Backed(m) == RowsOf(m) # {} \/ remote[m].status = "gone"

\* What the history says is deleted, is; a row is of a message that arrived.
GmailInv ==
    \A i \in 1 .. Len(log) :
        log[i].what = "deleted" => remote[log[i].msg].status = "gone"
RowInv == \A r \in RowIds : rows[r] # NoRow => remote[rows[r].msg].status # "unborn"

\* The key a job remembers is of a row of its message, or of no row at all;
\* and two jobs that remember a key are about one message.
KeyInv ==
    /\ \A w \in Workers :
         job[w].row \in RowIds /\ rows[job[w].row] # NoRow =>
             rows[job[w].row].msg = job[w].msg
    /\ \A v, w \in Workers :
         job[v].row \in RowIds /\ job[v].row = job[w].row => job[v].msg = job[w].msg

\* What a job at some step may rely on.
Held(j) ==
    /\ j.step \in MessageSteps /\ j.full => remote[j.msg].status # "unborn"
    /\ j.step = "insert" => j.full
    /\ j.step \in {"short", "compare", "labels", "save", "patch"} => Backed(j.msg)
    /\ j.step = "build" /\ ~j.full => Backed(j.msg)
    /\ j.step = "carry" => \A m \in Messages : Deletion(m) \in j.todo => remote[m].status = "gone"
HeldInv == \A w \in Workers : Held(job[w])

\* A message has one row.
OneRowInv ==
    \A q, r \in RowIds : rows[q] # NoRow /\ rows[r] # NoRow /\ rows[q].msg = rows[r].msg => q = r

Lost(m) == sort[m] # "mail" \/ remote[m].status = "gone"
SkipInv == \A m \in noEmail : Lost(m)

MirrorInv == TypeInv /\ GmailInv /\ RowInv /\ OneRowInv /\ KeyInv /\ HeldInv /\ SkipInv

\* What any step does to Gmail: messages arrive and go for good, the history
\* grows and tells.
ItemsGo ==
    /\ Len(log') <= Len(log) + 1
    /\ \A i \in Len(log) + 1 .. Len(log') :
         /\ remote'[log'[i].msg].status # "unborn"
         /\ Arrives(log'[i], log'[i].msg) => remote[log'[i].msg].status = "unborn"
GmailGoes ==
    /\ sort' = sort /\ GmailInv' /\ ItemsGo
    /\ Len(log) \in Nat /\ Len(log') \in Nat /\ Len(log) <= Len(log')
    /\ \A i \in 1 .. Len(log) : log'[i] = log[i]
    /\ \A m \in Messages :
         /\ remote[m].status = "gone" => remote'[m].status = "gone"
         /\ remote[m].status # "unborn" => remote'[m].status # "unborn"
         /\ remote'[m].status = "there" =>
              \/ remote[m].status = "there"
              \/ \E i \in Len(log) + 1 .. Len(log') : Arrives(log'[i], m)

\* Rows only go with their message; and in most steps no row comes.
RowsGo ==
    \A r \in RowIds : rows[r] # NoRow =>
        \/ rows'[r] # NoRow /\ rows'[r].msg = rows[r].msg
        \/ remote[rows[r].msg].status = "gone"
NoNewRows ==
    \A r \in RowIds : rows'[r] # NoRow => rows[r] # NoRow /\ rows'[r].msg = rows[r].msg

KeyFits(w, k) ==
    \/ k.row = NoKey
    \/ k.row = job[w].row /\ k.msg = job[w].msg
    \/ k.row \in RowIds /\ rows[k.row] # NoRow /\ rows[k.row].msg = k.msg

LEMMA RowMsg ==
    ASSUME TypeInv, NEW r \in RowIds, rows[r] # NoRow PROVE rows[r].msg \in Messages
BY ExistingRow, RowLabels DEF Exists

LEMMA BackedStays ==
    ASSUME TypeInv, GmailGoes, RowsGo, NEW m \in Messages, Backed(m)
    PROVE  Backed(m)'
<1>1. CASE remote[m].status = "gone"
  BY <1>1 DEF GmailGoes, Backed
<1>2. ASSUME NEW r \in RowIds, rows[r] # NoRow, rows[r].msg = m
      PROVE  Backed(m)'
  <2>1. CASE rows'[r] # NoRow /\ rows'[r].msg = m
    <3>1. r \in RowsOf(m)'
      BY <2>1 DEF RowsOf
    <3>2. QED
      BY <3>1 DEF Backed
  <2>2. CASE remote[m].status = "gone"
    BY <2>2 DEF GmailGoes, Backed
  <2>3. QED
    BY <1>2, <2>1, <2>2 DEF RowsGo
<1>3. QED
  BY <1>1, <1>2 DEF Backed, RowsOf

LEMMA HeldStays ==
    ASSUME TypeInv, GmailGoes, RowsGo, NEW w \in Workers, Held(job[w]),
           NEW j, j = job[w]
    PROVE  Held(j)'
<1>1. j.step \in MessageSteps => j.msg \in Messages
  BY JobOf
<1>2. {"short", "compare", "labels", "save", "patch", "build"} \subseteq MessageSteps
  BY DEF MessageSteps, MirrorSteps
<1>3. j.step \in MessageSteps /\ Backed(j.msg) => Backed(j.msg)'
  BY <1>1, BackedStays
<1>4. j.step \in MessageSteps /\ remote[j.msg].status # "unborn" =>
        remote'[j.msg].status # "unborn"
  BY <1>1 DEF GmailGoes
<1>5. \A m \in Messages : remote[m].status = "gone" => remote'[m].status = "gone"
  BY DEF GmailGoes
<1>6. QED
  BY <1>2, <1>3, <1>4, <1>5 DEF Held

LEMMA SkipStays ==
    ASSUME MirrorInv, GmailGoes, \A m \in noEmail' : m \in noEmail \/ Lost(m)'
    PROVE  SkipInv'
<1>1. \A m \in noEmail : m \in Messages /\ Lost(m)
  BY Types DEF MirrorInv, SkipInv
<1>2. QED
  BY <1>1 DEF GmailGoes, SkipInv, Lost

LEMMA RowsStay ==
    ASSUME MirrorInv, GmailGoes, NoNewRows PROVE RowInv' /\ OneRowInv'
<1>1. RowInv'
  BY RowMsg, ZenonT(60) DEF MirrorInv, RowInv, GmailGoes, NoNewRows
<1>2. OneRowInv'
  BY DEF MirrorInv, OneRowInv, NoNewRows
<1>3. QED
  BY <1>1, <1>2

\* What every step shall be shown to do.
AllKept == MirrorInv' /\ GmailGoes /\ RowsGo

\* A job goes on, with the rows as they were or with fewer.
LEMMA WorkGoesOn ==
    ASSUME MirrorInv, TypeInv', GmailGoes, RowsGo, NoNewRows,
           \A m \in noEmail' : m \in noEmail \/ Lost(m)',
           NEW w \in Workers, NEW k, Become(w, k), KeyFits(w, k), Held(k)'
    PROVE  AllKept
<1>1. TypeInv /\ HeldInv /\ KeyInv
  BY DEF MirrorInv
<1>2. job'[w] = k /\ \A v \in Workers : v # w => job'[v] = job[v]
  BY <1>1, Types DEF Become
<1>3. HeldInv'
  <2> SUFFICES ASSUME NEW v \in Workers PROVE Held(job[v])'
    BY DEF HeldInv
  <2>1. CASE v = w
    BY <1>2, <2>1 DEF Held
  <2>2. CASE v # w
    <3>1. PICK j : j = job[v]
      OBVIOUS
    <3>2. Held(j)'
      BY <1>1, <3>1, HeldStays DEF HeldInv
    <3>3. job'[v] = j
      BY <1>2, <2>2, <3>1
    <3>4. QED
      BY <3>2, <3>3 DEF Held
  <2>3. QED
    BY <2>1, <2>2
<1>4. \A v \in Workers : job[v].row \in RowIds /\ rows'[job[v].row] # NoRow =>
         rows'[job[v].row].msg = job[v].msg
  BY <1>1 DEF KeyInv, NoNewRows
<1>5. k.row \in RowIds /\ rows'[k.row] # NoRow => rows'[k.row].msg = k.msg
  BY <1>4 DEF KeyFits, NoNewRows
<1>6. \A v \in Workers : k.row \in RowIds /\ job[v].row = k.row => job[v].msg = k.msg
  BY <1>1 DEF KeyFits, KeyInv
<1>7. KeyInv'
  BY <1>1, <1>2, <1>4, <1>5, <1>6 DEF KeyInv
<1>8. RowInv' /\ OneRowInv' /\ SkipInv'
  BY RowsStay, SkipStays
<1>9. QED
  BY <1>3, <1>7, <1>8 DEF MirrorInv, GmailGoes, AllKept

LEMMA WorkEnds ==
    ASSUME MirrorInv, TypeInv', GmailGoes, RowsGo, NoNewRows,
           \A m \in noEmail' : m \in noEmail \/ Lost(m)',
           NEW w \in Workers, Finish(w)
    PROVE  AllKept
<1>1. Become(w, Idle)
  BY DEF Finish
<1>2. KeyFits(w, Idle)
  BY IdleIsGood DEF KeyFits
<1>3. Held(Idle)'
  BY IdleIsGood, StepKinds DEF Held
<1>4. QED
  BY <1>1, <1>2, <1>3, WorkGoesOn

LEMMA WorkStays ==
    ASSUME MirrorInv, TypeInv', GmailGoes, RowsGo, NoNewRows,
           \A m \in noEmail' : m \in noEmail \/ Lost(m)', UNCHANGED job
    PROVE  AllKept
<1>1. TypeInv /\ HeldInv /\ KeyInv
  BY DEF MirrorInv
<1>2. HeldInv'
  <2> SUFFICES ASSUME NEW v \in Workers PROVE Held(job[v])'
    BY DEF HeldInv
  <2>1. PICK j : j = job[v]
    OBVIOUS
  <2>2. Held(j)'
    BY <1>1, <2>1, HeldStays DEF HeldInv
  <2>3. QED
    BY <2>1, <2>2 DEF Held
<1>3. KeyInv'
  BY <1>1 DEF KeyInv, NoNewRows
<1>4. RowInv' /\ OneRowInv' /\ SkipInv'
  BY RowsStay, SkipStays
<1>5. QED
  BY <1>2, <1>3, <1>4 DEF MirrorInv, GmailGoes, AllKept

-----------------------------------------------------------------------------
\* How the steps change Gmail and the rows.
LEMMA GmailStays == MirrorInv /\ UNCHANGED gmail => GmailGoes
<1> SUFFICES ASSUME MirrorInv, UNCHANGED gmail PROVE GmailGoes
  OBVIOUS
<1>1. Len(log) \in Nat /\ Len(log) <= Len(log)
  BY Types, SMT DEF MirrorInv
<1>2. ItemsGo
  <2>1. Len(log') = Len(log)
    BY DEF gmail
  <2>2. QED
    BY <1>1, <2>1, SMT DEF ItemsGo
<1>3. QED
  BY <1>1, <1>2 DEF MirrorInv, GmailInv, GmailGoes, gmail

LEMMA RowsStayPut == UNCHANGED rows => RowsGo /\ NoNewRows
BY DEF RowsGo, NoNewRows

LEMMA RelabelledRows == Relabels => RowsGo /\ NoNewRows
BY DEF Relabels, RowsGo, NoNewRows, Exists

LEMMA LoggedGoes ==
    ASSUME TypeInv, NEW what, NEW m, Logged(what, m)
    PROVE  /\ Len(log) \in Nat /\ Len(log') = Len(log) + 1 /\ Len(log') \in Nat
           /\ Len(log) <= Len(log')
           /\ \A i \in 1 .. Len(log) : log'[i] = log[i]
           /\ log'[Len(log')] = [what |-> what, msg |-> m]
           /\ log'[Len(log')].what = what /\ log'[Len(log')].msg = m
           /\ \A i \in 1 .. Len(log') : i = Len(log') \/ i \in 1 .. Len(log)
<1>1. log \in Seq(HistoryItem)
  BY Types
<1>2. log' = Append(log, [what |-> what, msg |-> m])
  BY DEF Logged
<1>3. QED
  BY <1>1, <1>2, SMT

LEMMA ItemGoes ==
    ASSUME TypeInv, NEW what, NEW m, Logged(what, m), remote'[m].status # "unborn",
           what \in {"added", "unlabelled"} => remote[m].status = "unborn"
    PROVE  ItemsGo
<1>1. /\ Len(log) \in Nat /\ Len(log') = Len(log) + 1
      /\ log'[Len(log')] = [what |-> what, msg |-> m]
      /\ log'[Len(log')].msg = m
  BY LoggedGoes
<1>2. \A i \in Len(log) + 1 .. Len(log') : i = Len(log')
  BY <1>1, SMT
<1>3. Arrives([what |-> what, msg |-> m], m) => what \in {"added", "unlabelled"}
  BY SMT DEF Arrives
<1>4. Len(log') <= Len(log) + 1
  BY <1>1, SMT
<1>5. QED
  BY <1>1, <1>2, <1>3, <1>4 DEF ItemsGo

LEMMA LabelsGo ==
    ASSUME MirrorInv, NEW m \in Messages, NEW ls \in SUBSET Labels, SetLabels(m, ls),
           UNCHANGED sort, remote[m].status = "there"
    PROVE  GmailGoes
<1>1. TypeInv /\ GmailInv
  BY DEF MirrorInv
<1>2. \A n \in Messages : remote'[n].status = remote[n].status
  BY <1>1, SetLabelsTyped
<1>3. CASE UNCHANGED log
  <2>5. Len(log) \in Nat
    BY <1>1, Types, SMT
  <2>6. Len(log) <= Len(log)
    BY <2>5, SMT
  <2>7. \A i \in 1 .. Len(log) : log[i].msg \in Messages
    BY <1>1, Types DEF HistoryItem
  <2>1. Len(log) \in Nat /\ Len(log) <= Len(log) /\ \A i \in 1 .. Len(log) : log[i].msg \in Messages
    BY <2>5, <2>6, <2>7
  <2>4. Len(log') = Len(log)
    BY <1>3
  <2>2. Len(log') <= Len(log) + 1 /\ \A i \in Len(log) + 1 .. Len(log') : FALSE
    <3>1. \A n \in Nat : n <= n + 1 /\ \A i \in n + 1 .. n : FALSE
      BY SMT
    <3>2. QED
      BY <2>1, <2>4, <3>1
  <2>3. QED
    BY <1>1, <1>2, <1>3, <2>1, <2>2 DEF GmailGoes, GmailInv, ItemsGo
<1>4. CASE Logged("labels", m)
  <2>1. \A i \in 1 .. Len(log) : log[i].msg \in Messages
    BY <1>1, Types DEF HistoryItem
  <2>2. log'[Len(log')].what = "labels"
    BY <1>1, <1>4, LoggedGoes
  <2>3. GmailInv'
    <3> SUFFICES ASSUME NEW i \in 1 .. Len(log'), log'[i].what = "deleted"
                 PROVE  remote'[log'[i].msg].status = "gone"
      BY DEF GmailInv
    <3>1. i \in 1 .. Len(log) /\ log'[i] = log[i]
      BY <1>1, <1>4, <2>2, LoggedGoes
    <3>2. QED
      BY <1>1, <1>2, <2>1, <3>1 DEF GmailInv
  <2>5. ItemsGo
    BY <1>1, <1>2, <1>4, ItemGoes
  <2>4. QED
    BY <1>1, <1>2, <1>4, <2>3, <2>5, LoggedGoes DEF GmailGoes
<1>5. QED
  BY <1>3, <1>4 DEF SetLabels

LEMMA DeleteGoes ==
    ASSUME MirrorInv, NEW m \in Messages, Delete(m), UNCHANGED sort
    PROVE  GmailGoes
<1>1. TypeInv /\ GmailInv
  BY DEF MirrorInv
<1>2. /\ remote'[m].status = "gone"
      /\ \A n \in Messages : n # m => remote'[n] = remote[n]
  BY <1>1, Types DEF Delete
<1>3. Logged("deleted", m)
  BY DEF Delete
<1>4. \A i \in 1 .. Len(log) : log[i].msg \in Messages
  BY <1>1, Types DEF HistoryItem
<1>5. log'[Len(log')].msg = m
  BY <1>1, <1>3, LoggedGoes
<1>6. GmailInv'
  <2> SUFFICES ASSUME NEW i \in 1 .. Len(log'), log'[i].what = "deleted"
               PROVE  remote'[log'[i].msg].status = "gone"
    BY DEF GmailInv
  <2>1. CASE i = Len(log')
    BY <1>2, <1>5, <2>1
  <2>2. CASE i # Len(log')
    <3>1. i \in 1 .. Len(log) /\ log'[i] = log[i]
      BY <1>1, <1>3, <2>2, LoggedGoes
    <3>2. remote[log[i].msg].status = "gone"
      BY <1>1, <3>1 DEF GmailInv
    <3>3. QED
      BY <1>2, <1>4, <3>1, <3>2
  <2>3. QED
    BY <2>1, <2>2
<1>7. \A n \in Messages :
         /\ remote[n].status = "gone" => remote'[n].status = "gone"
         /\ remote[n].status # "unborn" => remote'[n].status # "unborn"
         /\ remote'[n].status = "there" => remote[n].status = "there"
  BY <1>2
<1>9. ItemsGo
  BY <1>1, <1>2, <1>3, ItemGoes
<1>8. QED
  BY <1>1, <1>3, <1>6, <1>7, <1>9, LoggedGoes DEF GmailGoes

LEMMA ArriveGoes ==
    ASSUME MirrorInv, NEW m \in Messages, NEW ls \in SUBSET Labels, Arrive(m, ls)
    PROVE  GmailGoes
<1>1. TypeInv /\ GmailInv
  BY DEF MirrorInv
<1>2. /\ remote[m].status = "unborn" /\ remote'[m].status = "there"
      /\ \A n \in Messages : n # m => remote'[n] = remote[n]
  BY <1>1, Types DEF Arrive
<1>0. PICK what \in {"added", "unlabelled"} : Logged(what, m)
  BY DEF Arrive
<1>3. Logged(what, m)
  BY <1>0
<1>4. \A i \in 1 .. Len(log) : log[i].msg \in Messages
  BY <1>1, Types DEF HistoryItem
<1>10. /\ log'[Len(log')] = [what |-> what, msg |-> m]
       /\ log'[Len(log')].what = what /\ log'[Len(log')].msg = m
  BY <1>1, <1>3, LoggedGoes
<1>5. Arrives(log'[Len(log')], m)
  BY <1>0, <1>10 DEF Arrives
<1>6. GmailInv'
  <2> SUFFICES ASSUME NEW i \in 1 .. Len(log'), log'[i].what = "deleted"
               PROVE  remote'[log'[i].msg].status = "gone"
    BY DEF GmailInv
  <2>1. CASE i = Len(log')
    BY <1>0, <1>10, <2>1
  <2>2. CASE i # Len(log')
    <3>1. i \in 1 .. Len(log) /\ log'[i] = log[i]
      BY <1>1, <1>3, <2>2, LoggedGoes
    <3>2. remote[log[i].msg].status = "gone"
      BY <1>1, <3>1 DEF GmailInv
    <3>3. QED
      BY <1>2, <1>4, <3>1, <3>2
  <2>3. QED
    BY <2>1, <2>2
<1>7. Len(log') \in Len(log) + 1 .. Len(log')
  <2>1. Len(log) \in Nat /\ Len(log') = Len(log) + 1
    BY <1>1, <1>3, LoggedGoes
  <2>2. QED
    BY <2>1, SMT
<1>8. \A n \in Messages :
         /\ remote[n].status = "gone" => remote'[n].status = "gone"
         /\ remote[n].status # "unborn" => remote'[n].status # "unborn"
         /\ remote'[n].status = "there" =>
              \/ remote[n].status = "there"
              \/ \E i \in Len(log) + 1 .. Len(log') : Arrives(log'[i], n)
  BY <1>2, <1>5, <1>7
<1>11. ItemsGo
  BY <1>1, <1>2, <1>3, ItemGoes
<1>9. QED
  BY <1>1, <1>3, <1>6, <1>8, <1>11, LoggedGoes DEF GmailGoes, Arrive

-----------------------------------------------------------------------------
\* Every step keeps the mirror's invariant.
LEMMA SameNoEmail ==
    UNCHANGED noEmail => \A m \in noEmail' : m \in noEmail \/ Lost(m)'
OBVIOUS

LEMMA StartKeeps ==
    ASSUME MirrorInv, TypeInv', NEW w \in Workers, NEW t \in Task, Start(w, t)
    PROVE  AllKept
<1>1. GmailGoes /\ RowsGo /\ NoNewRows /\ UNCHANGED noEmail /\ TypeInv
  BY GmailStays, RowsStayPut DEF Start, database, MirrorInv
<1>2. CASE UNCHANGED job
  BY <1>1, <1>2, WorkStays, SameNoEmail
<1>3. ASSUME NEW k, Starts(w, t, k) PROVE AllKept
  <2>1. KeyFits(w, k)
    BY <1>3 DEF KeyFits, Exists, Starts
  <2>2. Become(w, k) /\ Held(k)'
    BY <1>3 DEF Held, Starts
  <2>3. QED
    BY <1>1, <2>1, <2>2, WorkGoesOn, SameNoEmail
<1>4. QED
  BY <1>1, <1>2, <1>3, StartedJob

LEMMA RetryEnds == \A w : (Retry(w) => Finish(w)) /\ (GiveUp(w) => Finish(w))
BY DEF Retry, GiveUp

\* A step of w that leaves Gmail and the database alone.
LEMMA QuietStepKeeps ==
    ASSUME MirrorInv, TypeInv', NEW w \in Workers, UNCHANGED gmail,
           UNCHANGED rows, UNCHANGED noEmail,
           \/ Finish(w)
           \/ \E k : Become(w, k) /\ KeyFits(w, k) /\ Held(k)'
    PROVE  AllKept
<1>1. GmailGoes /\ RowsGo /\ NoNewRows
  BY GmailStays, RowsStayPut
<1>2. QED
  BY <1>1, WorkEnds, WorkGoesOn, SameNoEmail

LEMMA BackedBy ==
    ASSUME NEW m, RowsOf(m) # {}, UNCHANGED rows PROVE Backed(m)'
BY DEF Backed, RowsOf

LEMMA KeyOfRow ==
    ASSUME NEW w \in Workers, NEW k, k.row \in RowsOf(job[w].msg), k.msg = job[w].msg
    PROVE  KeyFits(w, k)
BY DEF KeyFits, RowsOf

LEMMA KeyKept ==
    ASSUME NEW w \in Workers, NEW k, k.row = job[w].row, Goes(job[w], k)
    PROVE  KeyFits(w, k)
BY DEF KeyFits, Goes

LEMMA BackedOn ==
    ASSUME MirrorInv, UNCHANGED gmail, UNCHANGED rows, NEW m \in Messages, Backed(m)
    PROVE  Backed(m)'
BY GmailStays, RowsStayPut, BackedStays DEF MirrorInv

LEMMA FullGoes ==
    ASSUME MirrorInv, GmailGoes, NEW w \in Workers, job[w].step \in MessageSteps,
           job[w].full
    PROVE  remote'[job[w].msg].status # "unborn"
<1>1. job[w].msg \in Messages
  BY JobOf DEF MirrorInv
<1>2. QED
  BY <1>1 DEF MirrorInv, HeldInv, Held, GmailGoes

LEMMA FetchStepsKeep ==
    ASSUME MirrorInv, TypeInv', NEW w \in Workers,
           \/ DownloadedAlready(w) \/ FetchMessage(w) \/ GetMessage(w)
           \/ FetchLabels(w) \/ CompareLabels(w)
    PROVE  AllKept
<1>1. /\ UNCHANGED gmail /\ UNCHANGED rows /\ UNCHANGED noEmail /\ TypeInv /\ GmailGoes
      /\ job[w].step \in MessageSteps /\ job[w].msg \in Messages
  <2>1. UNCHANGED gmail /\ UNCHANGED rows /\ UNCHANGED noEmail
    BY DEF DownloadedAlready, FetchMessage, GetMessage, FetchLabels, CompareLabels,
           database
  <2>2. job[w].step \in MessageSteps
    BY DEF DownloadedAlready, FetchMessage, GetMessage, FetchLabels, CompareLabels,
           MessageSteps, MirrorSteps
  <2>3. QED
    BY <2>1, <2>2, JobOf, GmailStays DEF MirrorInv
<1>2. CASE DownloadedAlready(w)
  <2>1. PICK k : /\ Become(w, k) /\ Goes(job[w], k) /\ k.step \in {"fetch", "get"}
                 /\ k.row = job[w].row /\ k.full = job[w].full
    BY <1>1, <1>2, JobDownloadedAlready
  <2>2. Held(k)'
    BY <1>1, <2>1, FullGoes DEF Held, Goes
  <2>3. QED
    BY <1>1, <2>1, <2>2, KeyKept, QuietStepKeeps
<1>3. CASE FetchMessage(w)
  <2>1. CASE Finish(w)
    BY <1>1, <2>1, QuietStepKeeps
  <2>2. ASSUME NEW k, There(w), Become(w, k), Goes(job[w], k), k.step = "build",
               k.row = job[w].row, k.full = TRUE
        PROVE  AllKept
    <3>1. Held(k)'
      BY <1>1, <2>2 DEF Held, Goes, There, gmail
    <3>2. QED
      BY <1>1, <2>2, <3>1, KeyKept, QuietStepKeeps
  <2>3. QED
    BY <1>1, <1>3, <2>1, <2>2, JobFetchMessage
<1>4. CASE GetMessage(w)
  <2>2. ASSUME NEW k, Become(w, k), Goes(job[w], k), k.full = job[w].full,
               \/ k.step = "exists" /\ k.row = job[w].row
               \/ k.step = "short" /\ k.row \in RowsOf(job[w].msg)
        PROVE  AllKept
    <3>1. k.step = "short" => Backed(k.msg)'
      <4>1. k.step = "short" => RowsOf(k.msg) # {}
        BY <2>2 DEF Goes
      <4>2. QED
        BY <1>1, <4>1, BackedBy
    <3>2. Held(k)'
      BY <1>1, <2>2, <3>1, FullGoes DEF Held, Goes
    <3>3. KeyFits(w, k)
      BY <2>2, KeyKept, KeyOfRow DEF Goes
    <3>4. QED
      BY <1>1, <2>2, <3>2, <3>3, QuietStepKeeps
  <2>3. QED
    BY <1>1, <1>4, <2>2, JobGetMessage
<1>5. CASE FetchLabels(w)
  <2>1. CASE Finish(w)
    BY <1>1, <2>1, QuietStepKeeps
  <2>2. ASSUME NEW k, Become(w, k), Goes(job[w], k), k.step = "compare",
               k.row = job[w].row, k.full = job[w].full
        PROVE  AllKept
    <3>1. Backed(job[w].msg)
      BY <1>5 DEF FetchLabels, MirrorInv, HeldInv, Held
    <3>2. Held(k)'
      BY <1>1, <2>2, <3>1, FullGoes, BackedOn DEF Held, Goes
    <3>3. QED
      BY <1>1, <2>2, <3>2, KeyKept, QuietStepKeeps
  <2>3. QED
    BY <1>1, <1>5, <2>1, <2>2, JobFetchLabels
<1>6. CASE CompareLabels(w)
  <2>1. CASE Finish(w)
    BY <1>1, <2>1, QuietStepKeeps
  <2>2. ASSUME NEW k, Become(w, k), Goes(job[w], k), k.step = "build",
               k.row = job[w].row, k.full = job[w].full
        PROVE  AllKept
    <3>1. Backed(job[w].msg)
      BY <1>6 DEF CompareLabels, MirrorInv, HeldInv, Held
    <3>2. Held(k)'
      BY <1>1, <2>2, <3>1, FullGoes, BackedOn DEF Held, Goes
    <3>3. QED
      BY <1>1, <2>2, <3>2, KeyKept, QuietStepKeeps
  <2>3. QED
    BY <1>1, <1>6, <2>1, <2>2, JobCompareLabels
<1>7. QED
  BY <1>2, <1>3, <1>4, <1>5, <1>6

\* The builder's verdict: without a date, the message is no mail, or it is gone.
LEMMA NoDateIsLost ==
    ASSUME MirrorInv, NEW w \in Workers, job[w].step = "build",
           ~HasDate(w, RowsOf(job[w].msg))
    PROVE  Lost(job[w].msg)
BY DEF HasDate, Lost, MirrorInv, HeldInv, Held, Backed

LEMMA BuildKeeps ==
    ASSUME MirrorInv, TypeInv', NEW w \in Workers, Build(w) PROVE AllKept
<1>1. /\ UNCHANGED gmail /\ UNCHANGED rows /\ TypeInv /\ GmailGoes
      /\ job[w].step = "build" /\ job[w].step \in MessageSteps /\ job[w].msg \in Messages
  <2>1. UNCHANGED gmail /\ UNCHANGED rows /\ job[w].step = "build"
    BY DEF Build
  <2>2. job[w].step \in MessageSteps
    BY <2>1 DEF MessageSteps, MirrorSteps
  <2>3. QED
    BY <2>1, <2>2, JobOf, GmailStays DEF MirrorInv
<1>2. ASSUME NEW k, Become(w, k), Goes(job[w], k), k.full = job[w].full, UNCHANGED noEmail,
             HasDate(w, RowsOf(job[w].msg)),
             \/ k.step = "insert" /\ k.row = NoKey /\ RowsOf(job[w].msg) = {}
             \/ k.step = "labels" /\ k.row \in RowsOf(job[w].msg)
      PROVE  AllKept
  <2>1. k.step = "labels" => Backed(k.msg)'
    <3>1. k.step = "labels" => RowsOf(k.msg) # {}
      BY <1>2 DEF Goes
    <3>2. QED
      BY <1>1, <3>1, BackedBy
  <2>2. k.step = "insert" => k.full
    BY <1>2 DEF HasDate
  <2>3. Held(k)'
    BY <1>1, <1>2, <2>1, <2>2, FullGoes DEF Held, Goes
  <2>4. KeyFits(w, k)
    BY <1>2, KeyOfRow DEF Goes, KeyFits
  <2>5. QED
    BY <1>1, <1>2, <2>3, <2>4, QuietStepKeeps
<1>3. CASE /\ ~HasDate(w, RowsOf(job[w].msg)) /\ Finish(w)
           /\ noEmail' = noEmail \union {job[w].msg}
  <2>1. PICK m : m = job[w].msg
    OBVIOUS
  <2>2. Lost(m)'
    BY <1>1, <1>3, <2>1, NoDateIsLost DEF Lost, gmail
  <2>3. \A n \in noEmail' : n \in noEmail \/ Lost(n)'
    BY <1>3, <2>1, <2>2
  <2>4. QED
    BY <1>1, <1>3, <2>3, RowsStayPut, WorkEnds
<1>5. QED
  BY <1>1, <1>2, <1>3, JobBuild

\* A row that comes, at a key whose every holder is at work for its message.
LEMMA RowComes ==
    ASSUME MirrorInv, TypeInv', UNCHANGED gmail, UNCHANGED noEmail,
           NEW w \in Workers, NEW k, Become(w, k), Held(k)',
           NEW q \in RowIds, NEW m \in Messages, remote[m].status # "unborn",
           rows'[q] # NoRow, rows'[q].msg = m,
           \A r \in RowIds : r # q => rows'[r] = rows[r],
           rows[q] # NoRow => rows[q].msg = m, RowsOf(m) \subseteq {q},
           \A v \in Workers : v # w /\ job[v].row = q => job[v].msg = m,
           k.row = NoKey \/ (k.row = q /\ k.msg = m)
    PROVE  AllKept
<1>1. TypeInv /\ HeldInv /\ KeyInv /\ GmailGoes
  BY GmailStays DEF MirrorInv
<1>2. RowsGo
  BY DEF RowsGo
<1>3. job'[w] = k /\ \A v \in Workers : v # w => job'[v] = job[v]
  BY <1>1, Types DEF Become
<1>4. HeldInv'
  <2> SUFFICES ASSUME NEW v \in Workers PROVE Held(job[v])'
    BY DEF HeldInv
  <2>1. CASE v = w
    BY <1>3, <2>1 DEF Held
  <2>2. CASE v # w
    <3>1. PICK j : j = job[v]
      OBVIOUS
    <3>2. Held(j)'
      BY <1>1, <1>2, <3>1, HeldStays DEF HeldInv
    <3>3. job'[v] = j
      BY <1>3, <2>2, <3>1
    <3>4. QED
      BY <3>2, <3>3 DEF Held
  <2>3. QED
    BY <2>1, <2>2
<1>5. RowInv'
  BY RowMsg DEF MirrorInv, RowInv, gmail
<1>6. KeyInv'
  <2>1. \A v \in Workers : job'[v].row \in RowIds /\ rows'[job'[v].row] # NoRow =>
             rows'[job'[v].row].msg = job'[v].msg
    BY <1>1, <1>3 DEF KeyInv
  <2>2. \A u, v \in Workers :
         job'[v].row \in RowIds /\ job'[v].row = job'[u].row => job'[v].msg = job'[u].msg
    BY <1>1, <1>3 DEF KeyInv
  <2>3. QED
    BY <2>1, <2>2 DEF KeyInv
<1>7. SkipInv'
  BY <1>1, SkipStays
<1>9. OneRowInv'
  <2>1. \A r \in RowIds : rows'[r] # NoRow /\ rows'[r].msg = m => r = q
    BY DEF RowsOf
  <2>2. QED
    BY <2>1 DEF MirrorInv, OneRowInv
<1>8. QED
  BY <1>1, <1>2, <1>4, <1>5, <1>6, <1>7, <1>9 DEF MirrorInv, GmailGoes, AllKept

LEMMA InsertKeeps ==
    ASSUME MirrorInv, TypeInv', NEW w \in Workers, InsertRow(w) PROVE AllKept
<1>1. /\ UNCHANGED gmail /\ UNCHANGED noEmail /\ TypeInv /\ GmailGoes
      /\ job[w].step = "insert" /\ job[w].step \in MessageSteps /\ job[w].msg \in Messages
  <2>1. UNCHANGED gmail /\ UNCHANGED noEmail /\ job[w].step = "insert"
    BY DEF InsertRow
  <2>2. job[w].step \in MessageSteps
    BY <2>1 DEF MessageSteps, MirrorSteps
  <2>3. QED
    BY <2>1, <2>2, JobOf, GmailStays DEF MirrorInv
<1>20. CASE RowsOf(job[w].msg) # {}
  <2>1. Finish(w) /\ UNCHANGED rows
    BY <1>20, RetryEnds DEF InsertRow
  <2>2. QED
    BY <1>1, <2>1, QuietStepKeeps
<1>21. SUFFICES ASSUME RowsOf(job[w].msg) = {} PROVE AllKept
  BY <1>20
<1>2. PICK q : q = FreshKey
  OBVIOUS
<1>3. PICK m : m = job[w].msg
  OBVIOUS
<1>4. /\ q \in RowIds /\ rows[q] = NoRow /\ \A v \in Workers : job[v].row # q
      /\ rows'[q] # NoRow /\ rows'[q].msg = m
      /\ \A r \in RowIds : r # q => rows'[r] = rows[r]
  BY <1>1, <1>2, <1>3, <1>21, JobInsertRow DEF Fresh
<1>5. PICK k : /\ Become(w, k) /\ Goes(job[w], k) /\ k.full = job[w].full
               /\ k.step = "labels" /\ k.row = q
  BY <1>1, <1>2, <1>21, JobInsertRow
<1>6. job[w].full /\ remote[m].status # "unborn" /\ m \in Messages
  BY <1>1, <1>3 DEF MirrorInv, HeldInv, Held
<1>7. Held(k)'
  <2>1. q \in RowsOf(m)'
    BY <1>4 DEF RowsOf
  <2>2. k.msg = m
    BY <1>3, <1>5 DEF Goes
  <2>3. Backed(k.msg)'
    BY <2>1, <2>2 DEF Backed
  <2>4. remote'[k.msg].status # "unborn"
    BY <1>1, <1>6, <2>2 DEF gmail
  <2>5. QED
    BY <1>5, <2>3, <2>4 DEF Held
<1>8. k.msg = m
  BY <1>3, <1>5 DEF Goes
<1>9. QED
  BY <1>1, <1>3, <1>4, <1>5, <1>6, <1>7, <1>8, <1>21, RowComes

LEMMA SaveKeeps ==
    ASSUME MirrorInv, TypeInv', NEW w \in Workers, SaveMessage(w) \/ SavePatch(w)
    PROVE  AllKept
<1>1. /\ UNCHANGED gmail /\ UNCHANGED noEmail /\ TypeInv /\ GmailGoes
      /\ job[w].step \in {"save", "patch"} /\ job[w].step \in MessageSteps
      /\ job[w].msg \in Messages /\ Finish(w)
      /\ \/ ~CanSave(w) /\ UNCHANGED rows
         \/ CanSave(w) /\ SaveRow(w, rows[job[w].row].labels)
  <2>1. /\ UNCHANGED gmail /\ UNCHANGED noEmail /\ job[w].step \in {"save", "patch"}
        /\ Finish(w)
        /\ \/ ~CanSave(w) /\ UNCHANGED rows
           \/ CanSave(w) /\ SaveRow(w, rows[job[w].row].labels)
    BY RetryEnds DEF SaveMessage, SavePatch
  <2>2. job[w].step \in MessageSteps
    BY <2>1 DEF MessageSteps, MirrorSteps
  <2>3. QED
    BY <2>1, <2>2, JobOf, GmailStays DEF MirrorInv
<1>20. CASE ~CanSave(w) /\ UNCHANGED rows
  BY <1>1, <1>20, QuietStepKeeps
<1>21. SUFFICES ASSUME CanSave(w), SaveRow(w, rows[job[w].row].labels) PROVE AllKept
  BY <1>1, <1>20
<1>2. PICK q : q = job[w].row
  OBVIOUS
<1>3. PICK m : m = job[w].msg
  OBVIOUS
<1>4. /\ q \in RowIds => rows'[q] # NoRow /\ rows'[q].msg = m
      /\ \A r \in RowIds : r # q => rows'[r] = rows[r]
  BY <1>1, <1>2, <1>3, <1>21, SaveRowTyped
<1>5. Become(w, Idle) /\ Held(Idle)' /\ Idle.row = NoKey
  BY <1>1, IdleIsGood, StepKinds DEF Finish, Held
<1>6. remote[m].status # "unborn" /\ m \in Messages
  <2>1. Backed(m) /\ m \in Messages
    BY <1>1, <1>3 DEF MirrorInv, HeldInv, Held
  <2>2. CASE remote[m].status = "gone"
    BY <2>1, <2>2
  <2>3. CASE RowsOf(m) # {}
    BY <2>1, <2>3 DEF RowsOf, MirrorInv, RowInv
  <2>4. QED
    BY <2>1, <2>2, <2>3 DEF Backed
<1>7. CASE q \in RowIds
  <2>1. rows[q] # NoRow => rows[q].msg = m
    BY <1>2, <1>3, <1>7 DEF MirrorInv, KeyInv
  <2>2. \A v \in Workers : v # w /\ job[v].row = q => job[v].msg = m
    BY <1>2, <1>3, <1>7 DEF MirrorInv, KeyInv
  <2>3. RowsOf(m) \subseteq {q}
    <3>1. CASE RowsOf(m) = {}
      BY <3>1
    <3>2. CASE rows[q] # NoRow
      BY <1>7, <2>1, <3>2 DEF RowsOf, MirrorInv, OneRowInv
    <3>3. QED
      BY <1>2, <1>3, <1>21, <3>1, <3>2 DEF CanSave, Exists
  <2>4. QED
    BY <1>1, <1>4, <1>5, <1>6, <1>7, <2>1, <2>2, <2>3, RowComes
<1>8. CASE q \notin RowIds
  <2>1. RowsGo /\ NoNewRows
    BY <1>4, <1>8 DEF RowsGo, NoNewRows
  <2>2. QED
    BY <1>1, <2>1, WorkEnds, SameNoEmail
<1>9. QED
  BY <1>7, <1>8

LEMMA WriteKeeps ==
    ASSUME MirrorInv, TypeInv', NEW w \in Workers, WriteLabels(w) PROVE AllKept
<1>1. /\ UNCHANGED gmail /\ UNCHANGED noEmail /\ TypeInv /\ GmailGoes
      /\ job[w].step = "labels" /\ job[w].step \in MessageSteps /\ job[w].msg \in Messages
  <2>1. UNCHANGED gmail /\ UNCHANGED noEmail /\ job[w].step = "labels"
    BY DEF WriteLabels
  <2>2. job[w].step \in MessageSteps
    BY <2>1 DEF MessageSteps, MirrorSteps
  <2>3. QED
    BY <2>1, <2>2, JobOf, GmailStays DEF MirrorInv
<1>2. RowsGo /\ NoNewRows
  BY <1>1, JobWriteLabels, RowsStayPut, RelabelledRows
<1>3. ASSUME NEW k, Become(w, k), Goes(job[w], k), k.full = job[w].full,
             k.step = "save", k.row = job[w].row
      PROVE  AllKept
  <2>1. Backed(k.msg) /\ k.msg \in Messages /\ k.msg = job[w].msg
    BY <1>1, <1>3 DEF Goes, MirrorInv, HeldInv, Held
  <2>2. Backed(k.msg)'
    BY <1>1, <1>2, <2>1, BackedStays
  <2>3. k.full => remote'[k.msg].status # "unborn"
    BY <1>1, <1>3, <2>1, FullGoes
  <2>4. Held(k)'
    BY <1>3, <2>2, <2>3 DEF Held
  <2>5. QED
    BY <1>1, <1>2, <1>3, <2>4, KeyKept, WorkGoesOn, SameNoEmail
<1>4. CASE Finish(w)
  BY <1>1, <1>2, <1>4, WorkEnds, SameNoEmail
<1>5. QED
  BY <1>1, <1>3, <1>4, JobWriteLabels, RetryEnds

\* A step of a user's task: the job goes on at a step that relies on nothing.
LEMMA UserHeld ==
    ASSUME MirrorInv, GmailGoes, NEW w \in Workers, job[w].step \in MessageSteps,
           NEW k, Goes(job[w], k), k.full = job[w].full,
           k.step \in {"modify", "unlabel", "relabel", "fetch"}
    PROVE  Held(k)'
<1>1. k.full => remote'[k.msg].status # "unborn"
  BY FullGoes DEF Goes
<1>2. QED
  BY <1>1 DEF Held

LEMMA UserKeeps ==
    ASSUME MirrorInv, TypeInv', NEW w \in Workers,
           ReadInfo(w) \/ ModifyRemote(w) \/ RemoveLocally(w) \/ AddLocally(w)
             \/ TrashRemote(w)
    PROVE  AllKept
<1>1. /\ UNCHANGED sort /\ UNCHANGED noEmail /\ TypeInv
      /\ job[w].step \in MessageSteps /\ job[w].msg \in Messages
  <2>1. UNCHANGED sort /\ UNCHANGED noEmail
    BY DEF ReadInfo, ModifyRemote, RemoveLocally, AddLocally, TrashRemote, gmail, database
  <2>2. job[w].step \in MessageSteps
    BY DEF ReadInfo, ModifyRemote, RemoveLocally, AddLocally, TrashRemote, MessageSteps
  <2>3. QED
    BY <2>1, <2>2, JobOf DEF MirrorInv
<1>2. ASSUME GmailGoes, RowsGo, NoNewRows,
             NEW k, Become(w, k), Goes(job[w], k), k.full = job[w].full,
             k.row = job[w].row, k.step \in {"modify", "unlabel", "relabel", "fetch"}
      PROVE  AllKept
  BY <1>1, <1>2, UserHeld, KeyKept, WorkGoesOn, SameNoEmail
<1>3. ASSUME GmailGoes, RowsGo, NoNewRows, Finish(w)
      PROVE  AllKept
  BY <1>1, <1>3, WorkEnds, SameNoEmail
<1>4. CASE ReadInfo(w)
  <2>1. GmailGoes
    BY <1>4, GmailStays DEF ReadInfo
  <2>2. CASE UNCHANGED rows
    BY <1>1, <1>2, <1>3, <1>4, <2>1, <2>2, JobReadInfo, RowsStayPut, RetryEnds
  <2>3. CASE ~There(w) /\ Exists(job[w].row) /\ Finish(w)
               /\ rows' = [rows EXCEPT ![job[w].row] = NoRow]
    <3>1. PICK q : q = job[w].row
      OBVIOUS
    <3>2. q \in RowIds /\ rows[q] # NoRow /\ rows[q].msg = job[w].msg
      BY <2>3, <3>1 DEF Exists, MirrorInv, KeyInv
    <3>3. remote[rows[q].msg].status = "gone"
      <4>1. remote[rows[q].msg].status # "unborn" /\ remote[rows[q].msg].status # "there"
        BY <2>3, <3>2 DEF MirrorInv, RowInv, There
      <4>2. remote[rows[q].msg].status \in Status
        BY <1>1, <3>2, Types
      <4>3. QED
        BY <4>1, <4>2 DEF Status
    <3>4. rows'[q] = NoRow /\ \A r \in RowIds : r # q => rows'[r] = rows[r]
      BY <1>1, <2>3, <3>1, <3>2, Types
    <3>5. RowsGo /\ NoNewRows
      BY <3>3, <3>4 DEF RowsGo, NoNewRows
    <3>6. QED
      BY <1>3, <2>1, <2>3, <3>5
  <2>4. QED
    BY <1>1, <1>4, <2>2, <2>3, JobReadInfo
<1>5. CASE ModifyRemote(w)
  <2>1. UNCHANGED rows
    BY <1>5 DEF ModifyRemote, database
  <2>2. UNCHANGED <<remote, log>> => GmailGoes
    BY <1>1, GmailStays DEF gmail
  <2>3. There(w) /\ (\E ls \in SUBSET Labels : SetLabels(job[w].msg, ls)) => GmailGoes
    BY <1>1, LabelsGo DEF There
  <2>4. QED
    BY <1>1, <1>2, <1>3, <1>5, <2>1, <2>2, <2>3, JobModifyRemote, RowsStayPut, RetryEnds
<1>6. CASE RemoveLocally(w)
  <2>1. GmailGoes /\ RowsGo /\ NoNewRows
    BY <1>1, <1>6, GmailStays, JobRemoveLocally, RowsStayPut, RelabelledRows DEF RemoveLocally
  <2>2. QED
    BY <1>1, <1>2, <1>6, <2>1, JobRemoveLocally
<1>7. CASE AddLocally(w)
  <2>1. GmailGoes /\ RowsGo /\ NoNewRows
    BY <1>1, <1>7, GmailStays, JobAddLocally, RowsStayPut, RelabelledRows DEF AddLocally
  <2>2. QED
    BY <1>1, <1>3, <1>7, <2>1, JobAddLocally, RetryEnds
<1>8. CASE TrashRemote(w)
  <2>1. RowsGo /\ NoNewRows
    BY <1>8, RowsStayPut DEF TrashRemote, database
  <2>2. UNCHANGED <<remote, log>> => GmailGoes
    BY <1>1, GmailStays DEF gmail
  <2>3. There(w) /\ (\E ls \in SUBSET Labels : SetLabels(job[w].msg, ls)) => GmailGoes
    BY <1>1, LabelsGo DEF There
  <2>4. Delete(job[w].msg) => GmailGoes
    BY <1>1, DeleteGoes
  <2>5. QED
    BY <1>1, <1>2, <1>3, <1>8, <2>1, <2>2, <2>3, <2>4, JobTrashRemote
<1>9. QED
  BY <1>4, <1>5, <1>6, <1>7, <1>8

\* What the history between two ids mentions as deleted is gone.
LEMMA DeletedAreGone ==
    ASSUME MirrorInv, NEW w \in Workers, NEW m \in Deleted(w)
    PROVE  m \in Messages /\ remote[m].status = "gone"
<1>1. PICK i \in job[w].from + 1 .. job[w].upto : log[i].what = "deleted" /\ log[i].msg = m
  BY DEF Deleted, Mentioned
<1>2. i \in 1 .. Len(log)
  <2>1. /\ job[w].from \in Nat /\ job[w].upto \in Nat /\ job[w].upto <= Len(log)
        /\ Len(log) \in Nat
    BY JobOf, Types DEF MirrorInv
  <2>2. QED
    BY <2>1, SMT
<1>3. QED
  BY <1>1, <1>2, Types DEF MirrorInv, GmailInv, HistoryItem

LEMMA SyncKeeps ==
    ASSUME MirrorInv, TypeInv', NEW w \in Workers, SyncStep(w) PROVE AllKept
<1>1. UNCHANGED gmail /\ UNCHANGED noEmail /\ TypeInv /\ GmailGoes
  <2>1. UNCHANGED gmail /\ UNCHANGED noEmail
    BY DEF SyncStep, GetHistory, ApplyHistory, DeleteRow, SendTask, EndIncremental,
           GetProfile, ListMessages, LookUp, EndFull, database
  <2>2. QED
    BY <2>1, GmailStays DEF MirrorInv
<1>2. ASSUME UNCHANGED rows, NEW k, Become(w, k), Goes(job[w], k), k.row = job[w].row,
             k.step \in SyncSteps \ {"carry"}
      PROVE  AllKept
  <2>1. Held(k)'
    BY <1>2, StepKinds DEF Held, SyncSteps
  <2>2. KeyFits(w, k)
    BY <1>2, KeyKept
  <2>3. QED
    BY <1>1, <1>2, <2>1, <2>2, QuietStepKeeps
<1>3. ASSUME RowsGo, NoNewRows, NEW k, Become(w, k), Goes(job[w], k), k.row = job[w].row,
             k.step = "carry",
             \A m \in Messages : Deletion(m) \in k.todo => remote[m].status = "gone"
      PROVE  AllKept
  <2>1. Held(k)'
    BY <1>1, <1>3, StepKinds DEF Held, SyncSteps, gmail
  <2>2. KeyFits(w, k)
    BY <1>3, KeyKept
  <2>3. QED
    BY <1>1, <1>3, <2>1, <2>2, WorkGoesOn, SameNoEmail
<1>4. CASE GetHistory(w)
  BY <1>2, <1>4, JobGetHistory, <1>1 DEF GetHistory, database, SyncSteps
<1>5. CASE GetProfile(w)
  BY <1>2, <1>5, JobGetProfile, <1>1 DEF GetProfile, database, SyncSteps
<1>6. CASE ListMessages(w)
  BY <1>2, <1>6, JobListMessages, <1>1 DEF ListMessages, database, SyncSteps
<1>7. CASE LookUp(w)
  BY <1>2, <1>7, JobLookUp, <1>1 DEF LookUp, database, SyncSteps
<1>8. CASE ApplyHistory(w)
  <2>1. PICK k \in GoodJob(Len(log)) :
                /\ Become(w, k) /\ Goes(job[w], k) /\ k.step = "carry"
                /\ k.row = job[w].row
                /\ k.todo = {Deletion(m) : m \in Deleted(w)}
                               \union {Download(m) : m \in NewMessages(w)}
                               \union {Update(m) : m \in EditLabels(w)}
    BY <1>1, <1>8, JobApplyHistory
  <2>2. \A m \in Messages : Deletion(m) \in k.todo => m \in Deleted(w)
    BY <2>1, ErrandTypes
  <2>3. \A m \in Messages : Deletion(m) \in k.todo => remote[m].status = "gone"
    BY <2>2, DeletedAreGone
  <2>4. RowsGo /\ NoNewRows
    BY <1>8, RowsStayPut DEF ApplyHistory
  <2>5. QED
    BY <1>3, <2>1, <2>3, <2>4
<1>9. ASSUME NEW t, Done(w, t), job[w].step = "carry", RowsGo, NoNewRows PROVE AllKept
  <2>1. PICK k \in GoodJob(Len(log)) :
                /\ Become(w, k) /\ Goes(job[w], k) /\ k.step = job[w].step
                /\ k.row = job[w].row /\ k.todo = job[w].todo \ {t}
    BY <1>1, <1>9, JobDone
  <2>2. \A m \in Messages : Deletion(m) \in k.todo => remote[m].status = "gone"
    BY <1>9, <2>1 DEF MirrorInv, HeldInv, Held
  <2>3. QED
    BY <1>3, <1>9, <2>1, <2>2
<1>10. CASE DeleteRow(w)
  <2>1. PICK n \in Undeleted(w) :
          /\ rows' = [r \in RowIds |-> IF r \in RowsOf(n) THEN NoRow ELSE rows[r]]
          /\ Done(w, Deletion(n))
    BY <1>10 DEF DeleteRow
  <2>2. n \in Messages /\ Deletion(n) \in job[w].todo /\ job[w].step = "carry"
    BY <1>10, <2>1 DEF Undeleted, DeleteRow
  <2>3. remote[n].status = "gone"
    BY <2>2 DEF MirrorInv, HeldInv, Held
  <2>4. \A r \in RowIds :
          rows'[r] = IF rows[r] # NoRow /\ rows[r].msg = n THEN NoRow ELSE rows[r]
    BY <2>1 DEF RowsOf
  <2>5. RowsGo /\ NoNewRows
    BY <2>3, <2>4 DEF RowsGo, NoNewRows
  <2>6. QED
    BY <1>9, <2>1, <2>2, <2>5
<1>11. CASE SendTask(w)
  <2>1. PICK t \in job[w].todo : Done(w, t)
    BY <1>11 DEF SendTask
  <2>2. UNCHANGED rows
    BY <1>11 DEF SendTask, database
  <2>3. CASE job[w].step = "carry"
    BY <1>9, <2>1, <2>2, <2>3, RowsStayPut
  <2>4. CASE job[w].step = "send"
    <3>1. PICK k \in GoodJob(Len(log)) :
                /\ Become(w, k) /\ Goes(job[w], k) /\ k.step = job[w].step
                /\ k.row = job[w].row
      BY <1>1, <2>1, <2>4, JobDone
    <3>2. QED
      BY <1>2, <2>2, <2>4, <3>1 DEF SyncSteps
  <2>5. QED
    BY <1>11, <2>3, <2>4 DEF SendTask
<1>12. CASE EndIncremental(w) \/ EndFull(w)
  <2>1. Finish(w) /\ UNCHANGED rows
    BY <1>12 DEF EndIncremental, EndFull, database
  <2>2. QED
    BY <1>1, <2>1, QuietStepKeeps
<1>13. QED
  BY <1>4, <1>5, <1>6, <1>7, <1>8, <1>10, <1>11, <1>12 DEF SyncStep

LEMMA BeginKeeps ==
    ASSUME MirrorInv, TypeInv', NEW w \in Workers, NEW q, NEW s, NEW f,
           IsKind(q, s, f), BeginSync(w, q, s, f)
    PROVE  AllKept
<1>1. UNCHANGED gmail /\ UNCHANGED rows /\ UNCHANGED noEmail /\ TypeInv
  BY DEF BeginSync, database, MirrorInv
<1>6. PICK k : Begins(w, k, q, s, f)
  BY <1>1, JobBeginSync
<1>2. Become(w, k) /\ k.row = NoKey /\ k.step = s
  BY <1>6 DEF Begins
<1>3. s \notin MessageSteps /\ s # "carry"
  BY StepKinds DEF IsKind, SyncSteps
<1>4. Held(k)'
  BY <1>2, <1>3, StepKinds DEF Held, IsKind
<1>5. QED
  BY <1>1, <1>2, <1>4, QuietStepKeeps DEF KeyFits

LEMMA PatchKeeps ==
    ASSUME MirrorInv, TypeInv', NEW w \in Workers, NEW r \in RowIds,
           NEW c \in UserChanges \intersect ReadChanges, PatchRead(w, r, c)
    PROVE  AllKept
<1>1. UNCHANGED gmail /\ UNCHANGED rows /\ UNCHANGED noEmail /\ TypeInv
  BY DEF PatchRead, database, MirrorInv
<1>7. PICK k : Patches(w, k, r, c)
  BY <1>1, JobPatchRead
<1>2. /\ Become(w, k) /\ k.full = FALSE /\ k.step = "patch"
      /\ Exists(k.row) /\ k.msg = rows[k.row].msg
  BY <1>7 DEF Patches
<1>3. KeyFits(w, k)
  BY <1>2 DEF KeyFits, Exists
<1>4. RowsOf(k.msg) # {}
  BY <1>2 DEF RowsOf, Exists
<1>5. Held(k)'
  BY <1>1, <1>2, <1>4, BackedBy DEF Held
<1>6. QED
  BY <1>1, <1>2, <1>3, <1>5, QuietStepKeeps

LEMMA OthersKeep ==
    ASSUME MirrorInv, TypeInv',
           \/ UNCHANGED vars
           \/ \E m \in Messages :
                \/ \E ls \in SUBSET Labels : Arrive(m, ls) \/ Relabel(m, ls)
                \/ Vanish(m)
           \/ \E r \in RowIds :
                \/ \E c \in UserChanges \ ReadChanges : RequestChange(r, c)
                \/ RequestTrash(r)
           \/ \E w \in Workers : CallFails(w) \/ Crash(w)
    PROVE  AllKept
<1>1. UNCHANGED rows /\ UNCHANGED noEmail
  BY DEF vars, Arrive, Relabel, Vanish, RequestChange, RequestTrash, CallFails, Crash, database
<1>2. RowsGo /\ NoNewRows
  BY <1>1, RowsStayPut
<1>3. GmailGoes
  <2>1. ASSUME NEW m \in Messages, NEW ls \in SUBSET Labels, Arrive(m, ls) PROVE GmailGoes
    BY <2>1, ArriveGoes
  <2>2. ASSUME NEW m \in Messages, NEW ls \in SUBSET Labels, Relabel(m, ls) PROVE GmailGoes
    BY <2>2, LabelsGo DEF Relabel
  <2>3. ASSUME NEW m \in Messages, Vanish(m) PROVE GmailGoes
    BY <2>3, DeleteGoes DEF Vanish
  <2>4. CASE UNCHANGED gmail
    BY <2>4, GmailStays
  <2>5. QED
    BY <2>1, <2>2, <2>3, <2>4 DEF vars, RequestChange, RequestTrash, CallFails, Crash, gmail
<1>4. UNCHANGED job \/ \E w \in Workers : Finish(w)
  BY RetryEnds DEF vars, Arrive, Relabel, Vanish, RequestChange, RequestTrash, CallFails, Crash
<1>5. QED
  BY <1>1, <1>2, <1>3, <1>4, WorkStays, WorkEnds, SameNoEmail

LEMMA NextKeeps ==
    ASSUME MirrorInv, [Next]_vars PROVE AllKept
<1>1. TypeInv'
  BY NextTypes DEF MirrorInv
<1>2. ASSUME NEW w \in Workers,
             \/ \E t \in Task : Start(w, t)
             \/ \E r \in RowIds, c \in UserChanges \intersect ReadChanges :
                  PatchRead(w, r, c)
             \/ BeginSync(w, "incremental", "history", synced)
             \/ BeginSync(w, "full", "profile", 0)
             \/ MirrorStep(w) \/ UserStep(w) \/ SyncStep(w)
      PROVE  AllKept
  <2>1. CASE MirrorStep(w)
    BY <1>1, <2>1, FetchStepsKeep, BuildKeeps, InsertKeeps, WriteKeeps, SaveKeeps
       DEF MirrorStep
  <2>2. CASE UserStep(w)
    BY <1>1, <2>2, UserKeeps, SaveKeeps DEF UserStep
  <2>3. QED
    <3>1. IsKind("incremental", "history", synced) /\ IsKind("full", "profile", 0)
      BY DEF IsKind
    <3>2. QED
      BY <1>1, <1>2, <2>1, <2>2, <3>1, StartKeeps, PatchKeeps, SyncKeeps, BeginKeeps
<1>3. CASE \/ UNCHANGED vars
           \/ \E m \in Messages :
                \/ \E ls \in SUBSET Labels : Arrive(m, ls) \/ Relabel(m, ls)
                \/ Vanish(m)
           \/ \E r \in RowIds :
                \/ \E c \in UserChanges \ ReadChanges : RequestChange(r, c)
                \/ RequestTrash(r)
           \/ \E w \in Workers : CallFails(w) \/ Crash(w)
  BY <1>1, <1>3, OthersKeep
<1>4. QED
  BY <1>2, <1>3 DEF Next

LEMMA InitMirror == Init => MirrorInv
<1> SUFFICES ASSUME Init PROVE MirrorInv
  OBVIOUS
<1>1. TypeInv
  BY InitTypes
<1>2. GmailInv
  BY SMT DEF Init, GmailInv
<1>3. RowInv /\ OneRowInv
  <2>1. PICK key \in [Messages -> RowIds \union {NoKey}], ls \in [Messages -> SUBSET Labels] :
         LET stored == {m \in Messages : key[m] # NoKey} IN
         /\ \A m \in stored : sort[m] = "mail"
         /\ \A m, n \in stored : key[m] = key[n] => m = n
         /\ remote = [m \in Messages |->
                        IF m \in stored
                        THEN [status |-> "there", labels |-> ls[m]]
                        ELSE [status |-> "unborn", labels |-> {}]]
         /\ rows \in [RowIds -> {NoRow} \union {Mirror(m, ls[m]) : m \in stored}]
         /\ \A r \in RowIds, m \in stored :
                (rows[r] # NoRow /\ rows[r].msg = m) <=> key[m] = r
    BY DEF Init
  <2>2. \A r \in RowIds : rows[r] # NoRow => key[rows[r].msg] # NoKey /\ rows[r].msg \in Messages
    BY <2>1 DEF Mirror
  <2>3. RowInv
    BY <2>1, <2>2 DEF RowInv
  <2>4. \A r \in RowIds : rows[r] # NoRow => key[rows[r].msg] = r
    BY <2>1, <2>2
  <2>5. QED
    BY <2>3, <2>4 DEF OneRowInv
<1>4. KeyInv /\ HeldInv
  BY IdleIsGood, StepKinds DEF Init, KeyInv, HeldInv, Held
<1>5. SkipInv
  BY DEF Init, SkipInv
<1>6. QED
  BY <1>1, <1>2, <1>3, <1>4, <1>5 DEF MirrorInv

\* No mail is put on the list of what a full sync skips: the builder's verdict
\* falls on messages that are no mail, or on ones that are gone, for whoever
\* works at the same message has seen a row that only goes with the message.
THEOREM SkipsNoMail == Spec => []OnlyNonMailSkipped
<1>1. MirrorInv => OnlyNonMailSkipped
  BY DEF MirrorInv, SkipInv, Lost, OnlyNonMailSkipped, IsMail
<1>2. MirrorInv /\ [Next]_vars => MirrorInv'
  BY NextKeeps DEF AllKept
<1>3. QED
  BY <1>1, <1>2, InitMirror, PTL DEF Spec

-----------------------------------------------------------------------------
(* No mail of the synchronised history is forgotten.                       *)

\* Job j works on m, or still has to send a task that will.
On(j, m) ==
    \/ j.task \in {Download(m), Update(m)}
    \/ j.step = "carry" /\ {Download(m), Update(m)} \cap j.todo # {}

\* m has a row, or a task or a job that gives it one, or that was given up.
Sure(m) ==
    \/ RowsOf(m) # {}
    \/ tasks[Download(m)] > 0 \/ tasks[Update(m)] > 0
    \/ \E w \in Workers : On(job[w], m)
    \/ m \in dropped

\* A message is in the history once it has arrived, and never before.
HistoryInv ==
    /\ \A i \in 1 .. Len(log) : remote[log[i].msg].status # "unborn"
    /\ \A i, k \in 1 .. Len(log) : i < k => ~Arrives(log[k], log[i].msg)

\* m arrived before the n-th item; the items up to the n-th tell of it.
ArrivedBy(m, n) == \A i \in n + 1 .. Len(log) : ~Arrives(log[i], m)
KnownUpTo(m, n) ==
    \/ \E i \in 1 .. n : Tells(log[i], m)
    \/ \A i \in 1 .. Len(log) : ~Arrives(log[i], m)
KnownBy(n) == \A m \in Messages : IsMail(m) /\ KnownUpTo(m, n) => Sure(m)

\* What a sync knows: the past of its history, or all mail of its message list.
Aware(j) ==
    /\ j.step \in {"history", "apply"} => KnownBy(j.from)
    /\ j.step = "look" =>
         \A m \in Messages : IsMail(m) /\ ArrivedBy(m, j.upto) => m \in j.listed
    /\ j.step = "send" =>
         \A m \in Messages : IsMail(m) /\ ArrivedBy(m, j.upto) =>
            Sure(m) \/ {Download(m), Update(m)} \cap j.todo # {}
AwareSteps == {"history", "apply", "look", "send"}

SureInv == HistoryInv /\ KnownBy(synced) /\ \A w \in Workers : Aware(job[w])

\* No step takes what makes a mail sure.
SureGoes == \A m \in Messages : IsMail(m) /\ IsMail(m)' /\ Sure(m) => Sure(m)'

LEMMA HistoryStays ==
    ASSUME TypeInv, HistoryInv, GmailGoes PROVE HistoryInv'
<1>1. Len(log) \in Nat /\ Len(log') \in Nat /\ Len(log) <= Len(log') /\ Len(log') <= Len(log) + 1
  BY DEF GmailGoes, ItemsGo
<1>2. \A i \in 1 .. Len(log') : i \in 1 .. Len(log) \/ i \in Len(log) + 1 .. Len(log')
  BY <1>1, SMT
<1>3. \A i \in 1 .. Len(log) : log'[i] = log[i] /\ log[i].msg \in Messages
  BY Types DEF GmailGoes, HistoryItem
<1>4. \A i \in 1 .. Len(log) : remote'[log[i].msg].status # "unborn"
  BY <1>3 DEF GmailGoes, HistoryInv
<1>5. \A i \in 1 .. Len(log') : remote'[log'[i].msg].status # "unborn"
  BY <1>2, <1>3, <1>4 DEF GmailGoes, ItemsGo
<1>6. ASSUME NEW i \in 1 .. Len(log'), NEW k \in 1 .. Len(log'), i < k
      PROVE  ~Arrives(log'[k], log'[i].msg)
  <2>1. i \in 1 .. Len(log)
    BY <1>1, <1>6, SMT
  <2>2. CASE k \in 1 .. Len(log)
    BY <1>3, <1>6, <2>1, <2>2 DEF HistoryInv
  <2>3. CASE k \in Len(log) + 1 .. Len(log')
    <3>1. ASSUME Arrives(log'[k], log[i].msg) PROVE FALSE
      <4>1. log'[k].msg = log[i].msg
        BY <3>1, SMT DEF Arrives
      <4>2. remote[log'[k].msg].status = "unborn"
        BY <2>3, <3>1, <4>1 DEF GmailGoes, ItemsGo
      <4>3. QED
        BY <2>1, <4>1, <4>2 DEF HistoryInv
    <3>2. QED
      BY <1>3, <2>1, <3>1
  <2>4. QED
    BY <1>2, <2>2, <2>3
<1>7. QED
  BY <1>5, <1>6 DEF HistoryInv

LEMMA ArrivedEarlier ==
    ASSUME GmailGoes, NEW m \in Messages, NEW n \in Nat, n <= Len(log),
           IsMail(m)', ArrivedBy(m, n)'
    PROVE  IsMail(m) /\ ArrivedBy(m, n)
<1>1. Len(log) \in Nat /\ Len(log') \in Nat /\ Len(log) <= Len(log')
  BY DEF GmailGoes
<1>2. \A i \in n + 1 .. Len(log) : i \in 1 .. Len(log) /\ i \in n + 1 .. Len(log')
  BY <1>1, SMT
<1>3. \A i \in Len(log) + 1 .. Len(log') : i \in n + 1 .. Len(log')
  BY <1>1, SMT
<1>4. ArrivedBy(m, n)
  BY <1>2 DEF ArrivedBy, GmailGoes
<1>5. remote'[m].status = "there" /\ sort[m] = "mail"
  BY DEF IsMail, GmailGoes
<1>6. \A i \in Len(log) + 1 .. Len(log') : ~Arrives(log'[i], m)
  BY <1>3 DEF ArrivedBy
<1>7. remote[m].status = "there"
  BY <1>5, <1>6 DEF GmailGoes
<1>8. QED
  BY <1>4, <1>5, <1>7 DEF IsMail

LEMMA KnownEarlier ==
    ASSUME HistoryInv, GmailGoes, NEW m \in Messages, NEW n \in Nat, n <= Len(log),
           IsMail(m)', KnownUpTo(m, n)'
    PROVE  IsMail(m) /\ KnownUpTo(m, n)
<1>1. Len(log) \in Nat /\ Len(log') \in Nat /\ Len(log) <= Len(log')
  BY DEF GmailGoes
<1>2. remote'[m].status = "there" /\ sort[m] = "mail"
  BY DEF IsMail, GmailGoes
<1>3. CASE \A i \in 1 .. Len(log') : ~Arrives(log'[i], m)
  <2>1. \A i \in 1 .. Len(log) : i \in 1 .. Len(log')
    BY <1>1, SMT
  <2>2. \A i \in Len(log) + 1 .. Len(log') : i \in 1 .. Len(log')
    BY <1>1, SMT
  <2>3. \A i \in 1 .. Len(log) : ~Arrives(log[i], m)
    BY <1>3, <2>1 DEF GmailGoes
  <2>4. remote[m].status = "there"
    BY <1>2, <1>3, <2>2 DEF GmailGoes
  <2>5. QED
    BY <1>2, <2>3, <2>4 DEF IsMail, KnownUpTo
<1>4. ASSUME NEW i \in 1 .. n, Tells(log'[i], m) PROVE IsMail(m) /\ KnownUpTo(m, n)
  <2>1. i \in 1 .. Len(log)
    BY <1>1, <1>4, SMT
  <2>2. log'[i] = log[i]
    BY <2>1 DEF GmailGoes
  <2>3. log[i].msg = m
    BY <1>4, <2>2, SMT DEF Tells
  <2>4. remote[m].status # "unborn"
    BY <2>1, <2>3 DEF HistoryInv
  <2>5. \A k \in Len(log) + 1 .. Len(log') : Arrives(log'[k], m) => FALSE
    <3> SUFFICES ASSUME NEW k \in Len(log) + 1 .. Len(log'), Arrives(log'[k], m) PROVE FALSE
      OBVIOUS
    <3>1. log'[k].msg = m
      BY SMT DEF Arrives
    <3>2. QED
      BY <2>4, <3>1 DEF GmailGoes, ItemsGo
  <2>6. remote[m].status = "there"
    BY <1>2, <2>5 DEF GmailGoes
  <2>7. QED
    BY <1>2, <1>4, <2>2, <2>6 DEF IsMail, KnownUpTo
<1>5. QED
  BY <1>3, <1>4 DEF KnownUpTo

\* What is known up to an item arrived before it.
LEMMA KnownArrived ==
    ASSUME HistoryInv, NEW m \in Messages, NEW n \in Nat, n <= Len(log), Len(log) \in Nat,
           KnownUpTo(m, n)
    PROVE  ArrivedBy(m, n)
<1> SUFFICES ASSUME NEW k \in n + 1 .. Len(log), Arrives(log[k], m) PROVE FALSE
  BY DEF ArrivedBy
<1>1. k \in 1 .. Len(log) /\ \A i \in 1 .. n : i \in 1 .. Len(log) /\ i < k
  BY SMT
<1>2. PICK i \in 1 .. n : Tells(log[i], m)
  BY <1>1 DEF KnownUpTo
<1>3. log[i].msg = m
  BY <1>2, SMT DEF Tells
<1>4. QED
  BY <1>1, <1>3 DEF HistoryInv

LEMMA KnownStays ==
    ASSUME HistoryInv, GmailGoes, SureGoes, NEW n \in Nat, n <= Len(log), KnownBy(n)
    PROVE  KnownBy(n)'
<1> SUFFICES ASSUME NEW m \in Messages, IsMail(m)', KnownUpTo(m, n)' PROVE Sure(m)'
  BY DEF KnownBy
<1>1. IsMail(m) /\ KnownUpTo(m, n)
  BY KnownEarlier
<1>2. QED
  BY <1>1 DEF KnownBy, SureGoes

LEMMA AwareStays ==
    ASSUME HistoryInv, GmailGoes, SureGoes, NEW j, j.from \in Nat, j.upto \in Nat,
           j.from <= Len(log), j.upto <= Len(log), Aware(j)
    PROVE  Aware(j)'
<1>1. j.step \in {"history", "apply"} => KnownBy(j.from)'
  BY KnownStays DEF Aware
<1>2. j.step = "look" =>
         \A m \in Messages : IsMail(m)' /\ ArrivedBy(m, j.upto)' => m \in j.listed
  BY ArrivedEarlier DEF Aware
<1>3. j.step = "send" =>
         \A m \in Messages : IsMail(m)' /\ ArrivedBy(m, j.upto)' =>
            Sure(m)' \/ {Download(m), Update(m)} \cap j.todo # {}
  BY ArrivedEarlier DEF Aware, SureGoes
<1>4. QED
  BY <1>1, <1>2, <1>3 DEF Aware

\* What the other workers know stays known.
LEMMA OthersAware ==
    ASSUME MirrorInv, SureInv, GmailGoes, SureGoes, NEW v \in Workers, job'[v] = job[v]
    PROVE  Aware(job[v])'
<1>1. PICK j : j = job[v]
  OBVIOUS
<1>2. /\ j.from \in Nat /\ j.upto \in Nat /\ j.from <= Len(log) /\ j.upto <= Len(log)
  BY <1>1, JobOf DEF MirrorInv
<1>3. Aware(j)'
  BY <1>1, <1>2, AwareStays DEF SureInv
<1>4. job'[v] = j
  BY <1>1
<1>5. QED
  BY <1>3, <1>4 DEF Aware

LEMMA SyncedKnown ==
    ASSUME MirrorInv, SureInv, GmailGoes, SureGoes, UNCHANGED synced
    PROVE  KnownBy(synced)'
<1>1. PICK n : n = synced
  OBVIOUS
<1>2. KnownBy(n)'
  BY <1>1, KnownStays, Types DEF SureInv, MirrorInv
<1>3. QED
  BY <1>1, <1>2 DEF KnownBy, KnownUpTo

\* A step after which the stored history id is known.
LEMMA SureKnown ==
    ASSUME MirrorInv, SureInv, GmailGoes, SureGoes, KnownBy(synced)',
           NEW w \in Workers, NEW k, Become(w, k), Aware(k)'
    PROVE  SureInv'
<1>1. ASSUME NEW v \in Workers PROVE Aware(job[v])'
  <2>1. job'[w] = k /\ (v # w => job'[v] = job[v])
    BY Types DEF Become, MirrorInv
  <2>2. CASE v = w
    BY <2>1, <2>2 DEF Aware
  <2>3. QED
    BY <2>1, <2>2, OthersAware
<1>2. QED
  BY <1>1, HistoryStays DEF SureInv, MirrorInv

\* A step that leaves the stored history id alone.
LEMMA SureOn ==
    ASSUME MirrorInv, SureInv, GmailGoes, SureGoes, UNCHANGED synced,
           NEW w \in Workers, NEW k, Become(w, k), Aware(k)'
    PROVE  SureInv'
BY SyncedKnown, SureKnown

LEMMA SureStays ==
    ASSUME MirrorInv, SureInv, GmailGoes, SureGoes, UNCHANGED synced, UNCHANGED job
    PROVE  SureInv'
<1>1. KnownBy(synced)' /\ HistoryInv'
  BY SyncedKnown, HistoryStays DEF SureInv, MirrorInv
<1>2. \A v \in Workers : Aware(job[v])'
  BY OthersAware
<1>3. QED
  BY <1>1, <1>2 DEF SureInv

\* Tasks and refusals stay; a job that no longer has a mail in hand leaves it
\* sure in another way.
LEMMA SureByFrames ==
    ASSUME MirrorInv, RowsGo, GmailGoes, dropped \subseteq dropped',
           \A t \in Task : tasks[t] > 0 => tasks'[t] > 0,
           NEW w \in Workers,
           \A v \in Workers : v # w => job'[v] = job[v],
           \A m \in Messages : On(job[w], m) /\ IsMail(m)' => Sure(m)'
    PROVE  SureGoes
<1> SUFFICES ASSUME NEW m \in Messages, IsMail(m), IsMail(m)', Sure(m) PROVE Sure(m)'
  BY DEF SureGoes
<1>1. CASE RowsOf(m) # {}
  <2>1. PICK r \in RowIds : rows[r] # NoRow /\ rows[r].msg = m
    BY <1>1 DEF RowsOf
  <2>2. rows'[r] # NoRow /\ rows'[r].msg = m
    BY <2>1 DEF RowsGo, IsMail
  <2>3. r \in RowsOf(m)'
    BY <2>2 DEF RowsOf
  <2>4. QED
    BY <2>3 DEF Sure
<1>2. CASE tasks[Download(m)] > 0 \/ tasks[Update(m)] > 0
  BY <1>2, TaskTypes DEF Sure
<1>3. ASSUME NEW v \in Workers, On(job[v], m) PROVE Sure(m)'
  <2>1. CASE v = w
    BY <1>3, <2>1
  <2>2. CASE v # w
    <3>1. On(job[v], m)'
      BY <1>3, <2>2 DEF On
    <3>2. QED
      BY <3>1 DEF Sure
  <2>3. QED
    BY <2>1, <2>2
<1>4. CASE m \in dropped
  BY <1>4 DEF Sure
<1>5. QED
  BY <1>1, <1>2, <1>3, <1>4 DEF Sure

\* The mail a job has in hand is its own, unless it is a sync with tasks to send.
LEMMA TaskOf ==
    ASSUME TypeInv, NEW w \in Workers, NEW m \in Messages,
           job[w].task \in {Download(m), Update(m)}
    PROVE  m = job[w].msg /\ job[w].step \in MirrorSteps
<1>1. job[w].task.kind \in {"download", "update"} /\ job[w].task.msg = m
  BY TaskTypes
<1>2. job[w].step \in MirrorSteps /\ job[w].task \in {Download(job[w].msg), Update(job[w].msg)}
  BY <1>1, JobOf DEF Fits
<1>3. job[w].msg \in Messages
  BY <1>2, JobOf, StepKinds
<1>4. job[w].task.msg = job[w].msg
  BY <1>2, <1>3, TaskTypes
<1>5. QED
  BY <1>1, <1>2, <1>4

LEMMA OnOf ==
    ASSUME TypeInv, NEW w \in Workers, NEW m \in Messages, On(job[w], m),
           job[w].step # "carry"
    PROVE  /\ m = job[w].msg /\ job[w].step \in MirrorSteps
           /\ job[w].task \in {Download(m), Update(m)}
BY TaskOf DEF On

LEMMA BackedIsSure ==
    ASSUME NEW m, Backed(m)', IsMail(m)' PROVE Sure(m)'
BY DEF Backed, IsMail, Sure

LEMMA RowIsSure ==
    ASSUME MirrorInv, AllKept, NEW m \in Messages, RowsOf(m) # {}, IsMail(m)'
    PROVE  Sure(m)'
<1>1. Backed(m)
  BY DEF Backed
<1>2. Backed(m)'
  BY <1>1, BackedStays DEF MirrorInv, AllKept
<1>3. QED
  BY <1>2, BackedIsSure

LEMMA SameBroker ==
    UNCHANGED broker =>
        dropped \subseteq dropped' /\ \A t \in Task : tasks[t] > 0 => tasks'[t] > 0
BY DEF broker

LEMMA EnqueueKeeps ==
    ASSUME MirrorInv, NEW S, Enqueue(S)
    PROVE  /\ \A t \in Task : tasks[t] > 0 => tasks'[t] > 0
           /\ \A t \in Task : t \in S => tasks'[t] > 0
BY EnqueueTyped DEF MirrorInv

LEMMA SentIsSure ==
    ASSUME MirrorInv, NEW t, NEW S, t \in S, Enqueue(S), NEW m \in Messages,
           t \in {Download(m), Update(m)}
    PROVE  Sure(m)'
<1>1. t \in Task
  BY TaskTypes
<1>2. tasks'[t] > 0
  BY <1>1, EnqueueKeeps
<1>3. QED
  BY <1>2 DEF Sure

\* A message task that ends for good while its message has no row is given up.
LEMMA GivenUpIsSure ==
    ASSUME MirrorInv, AllKept, NEW t, NEW m \in Messages, t \in {Download(m), Update(m)},
           GivenUp(t) \subseteq dropped', IsMail(m)'
    PROVE  Sure(m)'
<1>1. t \in MirrorTask /\ t.msg = m
  BY TaskTypes DEF MirrorTask, Download, Update
<1>2. RowsOf(m) = {} => m \in GivenUp(t)
  BY <1>1 DEF GivenUp, WithoutRow
<1>3. CASE RowsOf(m) = {}
  BY <1>2, <1>3 DEF Sure
<1>4. CASE RowsOf(m) # {}
  BY <1>4, RowIsSure
<1>5. QED
  BY <1>3, <1>4

\* A task that is put back, or given up, leaves its mail sure.
LEMMA RetrySure ==
    ASSUME MirrorInv, AllKept, NEW w \in Workers, Retry(w), job[w].step # "carry"
    PROVE  /\ dropped \subseteq dropped'
           /\ \A t \in Task : tasks[t] > 0 => tasks'[t] > 0
           /\ \A m \in Messages : On(job[w], m) /\ IsMail(m)' => Sure(m)'
<1>1. CASE Enqueue({job[w].task}) /\ UNCHANGED dropped
  <2>1. \A m \in Messages : On(job[w], m) => Sure(m)'
    BY <1>1, OnOf, SentIsSure DEF MirrorInv
  <2>2. QED
    BY <1>1, <2>1, EnqueueKeeps
<1>2. CASE dropped' = dropped \union GivenUp(job[w].task) /\ UNCHANGED tasks
  <2>1. \A m \in Messages : On(job[w], m) /\ IsMail(m)' => Sure(m)'
    BY <1>2, OnOf, GivenUpIsSure DEF MirrorInv
  <2>2. QED
    BY <1>2, <2>1
<1>3. QED
  BY <1>1, <1>2 DEF Retry, GiveUp

\* The common shapes of a step of worker w.
LEMMA SureNext ==
    ASSUME MirrorInv, SureInv, AllKept, UNCHANGED synced, dropped \subseteq dropped',
           \A t \in Task : tasks[t] > 0 => tasks'[t] > 0,
           NEW w \in Workers, NEW k, Become(w, k), Aware(k)',
           \A m \in Messages : On(job[w], m) /\ IsMail(m)' => Sure(m)'
    PROVE  SureInv'
<1>1. \A v \in Workers : v # w => job'[v] = job[v]
  BY Types DEF Become, MirrorInv
<1>2. SureGoes
  BY <1>1, SureByFrames DEF AllKept
<1>3. QED
  BY <1>2, SureOn DEF AllKept

LEMMA SureGoesOn ==
    ASSUME MirrorInv, SureInv, AllKept, UNCHANGED synced, UNCHANGED broker,
           NEW w \in Workers, NEW k, Become(w, k), k.task = job[w].task,
           job[w].step # "carry", k.step \notin AwareSteps
    PROVE  SureInv'
<1>1. job'[w] = k
  BY Types DEF Become, MirrorInv
<1>2. \A m \in Messages : On(job[w], m) => Sure(m)'
  <2> SUFFICES ASSUME NEW m \in Messages, On(job[w], m) PROVE Sure(m)'
    OBVIOUS
  <2>1. On(job[w], m)'
    BY <1>1, OnOf DEF On, MirrorInv
  <2>2. QED
    BY <2>1 DEF Sure
<1>3. Aware(k)'
  BY DEF Aware, AwareSteps
<1>4. QED
  BY <1>2, <1>3, SameBroker, SureNext

LEMMA SureFinish ==
    ASSUME MirrorInv, SureInv, AllKept, UNCHANGED synced, dropped \subseteq dropped',
           \A t \in Task : tasks[t] > 0 => tasks'[t] > 0,
           NEW w \in Workers, Finish(w),
           \A m \in Messages : On(job[w], m) /\ IsMail(m)' => Sure(m)'
    PROVE  SureInv'
<1>1. Become(w, Idle)
  BY DEF Finish
<1>2. Aware(Idle)'
  BY IdleIsGood DEF Aware
<1>3. QED
  BY <1>1, <1>2, SureNext

LEMMA SureRetry ==
    ASSUME MirrorInv, SureInv, AllKept, UNCHANGED synced, NEW w \in Workers, Retry(w),
           job[w].step # "carry"
    PROVE  SureInv'
BY RetrySure, RetryEnds, SureFinish

\* A job that ends while its message is backed, or no mail.
LEMMA SureEnds ==
    ASSUME MirrorInv, SureInv, AllKept, UNCHANGED synced, UNCHANGED broker,
           NEW w \in Workers, Finish(w), NEW m, m = job[w].msg, job[w].step # "carry",
           job[w].step \in MirrorSteps => Backed(m) \/ ~IsMail(m)'
    PROVE  SureInv'
<1>1. ASSUME NEW n \in Messages, On(job[w], n), IsMail(n)'
      PROVE  Sure(n)'
  <2>1. n = m /\ Backed(n)
    BY <1>1, OnOf DEF MirrorInv
  <2>2. Backed(n)'
    BY <2>1, BackedStays DEF AllKept, MirrorInv
  <2>3. QED
    BY <1>1, <2>2, BackedIsSure
<1>2. QED
  BY <1>1, SameBroker, SureFinish

LEMMA SureFetchSteps ==
    ASSUME MirrorInv, SureInv, AllKept, NEW w \in Workers,
           \/ DownloadedAlready(w) \/ FetchMessage(w) \/ GetMessage(w)
           \/ FetchLabels(w) \/ CompareLabels(w) \/ Build(w)
    PROVE  SureInv'
<1>1. UNCHANGED synced /\ UNCHANGED gmail /\ UNCHANGED broker /\ TypeInv
      /\ job[w].step # "carry"
  BY DEF DownloadedAlready, FetchMessage, GetMessage, FetchLabels, CompareLabels, Build,
         database, MirrorInv
<1>2. PICK m : m = job[w].msg
  OBVIOUS
<1>3. ASSUME NEW k, Become(w, k), Goes(job[w], k), k.step \in MirrorSteps
      PROVE  SureInv'
  <2>1. k.step \notin AwareSteps
    BY <1>3 DEF MirrorSteps, AwareSteps
  <2>2. QED
    BY <1>1, <1>3, <2>1, SureGoesOn DEF Goes
<1>4. CASE DownloadedAlready(w)
  BY <1>1, <1>3, <1>4, JobDownloadedAlready DEF MirrorSteps
<1>5. ASSUME ~There(w), Finish(w) PROVE SureInv'
  <2>1. ~IsMail(m)'
    BY <1>1, <1>2, <1>5 DEF There, IsMail, gmail
  <2>2. QED
    BY <1>1, <1>2, <1>5, <2>1, SureEnds
<1>6. CASE FetchMessage(w)
  BY <1>1, <1>3, <1>5, <1>6, JobFetchMessage DEF MirrorSteps
<1>7. CASE GetMessage(w)
  BY <1>1, <1>3, <1>7, JobGetMessage DEF MirrorSteps
<1>8. CASE FetchLabels(w)
  BY <1>1, <1>3, <1>5, <1>8, JobFetchLabels DEF MirrorSteps
<1>9. CASE CompareLabels(w)
  <2>1. Backed(m)
    BY <1>2, <1>9 DEF CompareLabels, MirrorInv, HeldInv, Held
  <2>2. QED
    BY <1>1, <1>2, <1>3, <1>9, <2>1, JobCompareLabels, SureEnds DEF MirrorSteps
<1>10. CASE Build(w)
  <2>1. CASE ~HasDate(w, RowsOf(job[w].msg)) /\ Finish(w)
    <3>1. Lost(m)
      BY <1>2, <1>10, <2>1, NoDateIsLost DEF Build
    <3>2. ~IsMail(m)'
      BY <1>1, <3>1 DEF Lost, IsMail, gmail
    <3>3. QED
      BY <1>1, <1>2, <2>1, <3>2, SureEnds
  <2>2. QED
    BY <1>1, <1>3, <1>10, <2>1, JobBuild DEF MirrorSteps
<1>11. QED
  BY <1>4, <1>6, <1>7, <1>8, <1>9, <1>10

LEMMA SureRowSteps ==
    ASSUME MirrorInv, SureInv, AllKept, NEW w \in Workers,
           InsertRow(w) \/ WriteLabels(w) \/ SaveMessage(w)
    PROVE  SureInv'
<1>1. UNCHANGED synced /\ TypeInv /\ job[w].step # "carry"
  BY DEF InsertRow, WriteLabels, SaveMessage, MirrorInv
<1>2. PICK m : m = job[w].msg
  OBVIOUS
<1>3. ASSUME NEW k, Become(w, k), Goes(job[w], k), UNCHANGED broker,
             k.step \in {"labels", "save"}
      PROVE  SureInv'
  BY <1>1, <1>3, SureGoesOn DEF Goes, AwareSteps
<1>7. CASE Retry(w)
  BY <1>1, <1>7, SureRetry
<1>4. CASE InsertRow(w)
  <2>1. CASE RowsOf(job[w].msg) = {}
    BY <1>1, <1>3, <1>4, <2>1, JobInsertRow
  <2>2. CASE RowsOf(job[w].msg) # {}
    BY <1>4, <1>7, <2>2 DEF InsertRow
  <2>3. QED
    BY <2>1, <2>2
<1>5. CASE WriteLabels(w)
  <2>1. Backed(m)
    BY <1>2, <1>5 DEF WriteLabels, MirrorInv, HeldInv, Held
  <2>2. CASE Finish(w) /\ UNCHANGED broker
    BY <1>1, <1>2, <2>1, <2>2, SureEnds
  <2>3. QED
    BY <1>1, <1>3, <1>5, <1>7, <2>2, JobWriteLabels
<1>6. CASE SaveMessage(w)
  <2>1. Backed(m)
    BY <1>2, <1>6 DEF SaveMessage, MirrorInv, HeldInv, Held
  <2>2. CASE Finish(w) /\ UNCHANGED broker
    BY <1>1, <1>2, <2>1, <2>2, SureEnds
  <2>3. QED
    BY <1>6, <1>7, <2>2 DEF SaveMessage
<1>8. QED
  BY <1>4, <1>5, <1>6

LEMMA SureUserSteps ==
    ASSUME MirrorInv, SureInv, AllKept, NEW w \in Workers, UserStep(w) PROVE SureInv'
<1>1. /\ UNCHANGED synced /\ TypeInv /\ job[w].step \notin MirrorSteps
      /\ job[w].step # "carry"
  <2>1. UNCHANGED synced
    BY DEF UserStep, SavePatch, ReadInfo, ModifyRemote, RemoveLocally, AddLocally,
           TrashRemote, database
  <2>2. job[w].step \notin MirrorSteps /\ job[w].step # "carry"
    BY DEF UserStep, SavePatch, ReadInfo, ModifyRemote, RemoveLocally, AddLocally,
           TrashRemote, MirrorSteps
  <2>3. QED
    BY <2>1, <2>2 DEF MirrorInv
<1>2. ASSUME NEW k, Become(w, k), Goes(job[w], k), UNCHANGED broker,
             k.step \in {"modify", "unlabel", "relabel", "fetch"}
      PROVE  SureInv'
  BY <1>1, <1>2, SureGoesOn DEF Goes, AwareSteps
<1>3. ASSUME Finish(w), UNCHANGED broker PROVE SureInv'
  <2>1. PICK m : m = job[w].msg
    OBVIOUS
  <2>2. QED
    BY <1>1, <1>3, <2>1, SureEnds
<1>4. CASE Retry(w)
  BY <1>1, <1>4, SureRetry
<1>5. CASE SavePatch(w)
  <2>1. dropped \subseteq dropped' /\ \A t \in Task : tasks[t] > 0 => tasks'[t] > 0
    BY <1>5, EnqueueKeeps DEF SavePatch
  <2>2. \A m \in Messages : ~On(job[w], m)
    BY <1>1, OnOf
  <2>3. QED
    BY <1>1, <1>5, <2>1, <2>2, SureFinish DEF SavePatch
<1>6. CASE ReadInfo(w)
  BY <1>1, <1>2, <1>3, <1>4, <1>6, JobReadInfo DEF broker
<1>7. CASE ModifyRemote(w)
  BY <1>1, <1>2, <1>4, <1>7, JobModifyRemote
<1>8. CASE RemoveLocally(w)
  BY <1>1, <1>2, <1>8, JobRemoveLocally DEF RemoveLocally
<1>9. CASE AddLocally(w)
  BY <1>1, <1>3, <1>4, <1>9, JobAddLocally
<1>10. CASE TrashRemote(w)
  BY <1>1, <1>2, <1>3, <1>10, JobTrashRemote DEF TrashRemote
<1>11. QED
  BY <1>5, <1>6, <1>7, <1>8, <1>9, <1>10 DEF UserStep

LEMMA SureStart ==
    ASSUME MirrorInv, SureInv, AllKept, NEW w \in Workers, NEW t \in Task, Start(w, t)
    PROVE  SureInv'
<1>1. /\ UNCHANGED synced /\ TypeInv /\ job[w].step \notin MirrorSteps
      /\ job[w].step # "carry" /\ UNCHANGED rows
      /\ tasks' = [tasks EXCEPT ![t] = @ - 1] /\ tasks[t] > 0
  BY DEF Start, database, MirrorInv, IsIdle, MirrorSteps
<1>2. \A u \in Task : u # t => tasks'[u] = tasks[u]
  BY <1>1, TakeTyped
<1>3. \/ /\ UNCHANGED job
         /\ dropped' = dropped \/ dropped' = dropped \union GivenUp(t)
         /\ t \in MirrorTask => dropped' = dropped \union GivenUp(t)
      \/ \E k : Starts(w, t, k)
  BY <1>1, StartedJob
<1>4. ASSUME NEW k, Starts(w, t, k)
      PROVE  /\ job'[w].task = t /\ UNCHANGED dropped
             /\ \A v \in Workers : v # w => job'[v] = job[v]
  BY <1>1, <1>4, Types DEF Become, Starts
<1>5. ASSUME NEW k, Starts(w, t, k) PROVE Become(w, k) /\ Aware(k)'
  BY <1>5 DEF Aware, Starts
<1>6. dropped \subseteq dropped' /\ \A v \in Workers : v # w => job'[v] = job[v]
  BY <1>3, <1>4
<1>7. ASSUME NEW m \in Messages, t \in {Download(m), Update(m)}, IsMail(m)' PROVE Sure(m)'
  <2>1. t \in MirrorTask
    BY <1>7, TaskTypes DEF MirrorTask, Download, Update
  <2>2. CASE GivenUp(t) \subseteq dropped'
    BY <1>7, <2>2, GivenUpIsSure
  <2>3. CASE job'[w].task = t
    BY <1>7, <2>3 DEF Sure, On
  <2>4. QED
    BY <1>3, <1>4, <2>1, <2>2, <2>3
<1>8. SureGoes
  <2> SUFFICES ASSUME NEW m \in Messages, IsMail(m), IsMail(m)', Sure(m) PROVE Sure(m)'
    BY DEF SureGoes
  <2>1. CASE RowsOf(m) # {}
    BY <2>1, RowIsSure
  <2>2. ASSUME NEW u \in {Download(m), Update(m)}, tasks[u] > 0 PROVE Sure(m)'
    <3>1. CASE t = u
      BY <1>7, <2>2, <3>1
    <3>2. CASE t # u
      <4>1. tasks'[u] > 0
        BY <1>2, <2>2, <3>2, TaskTypes
      <4>2. QED
        BY <2>2, <4>1 DEF Sure
    <3>3. QED
      BY <3>1, <3>2
  <2>3. ASSUME NEW v \in Workers, On(job[v], m) PROVE Sure(m)'
    <3>1. v # w
      BY <1>1, <2>3, OnOf
    <3>2. On(job[v], m)'
      BY <1>6, <2>3, <3>1 DEF On
    <3>3. QED
      BY <3>2 DEF Sure
  <2>4. CASE m \in dropped
    BY <1>6, <2>4 DEF Sure
  <2>5. QED
    BY <2>1, <2>2, <2>3, <2>4 DEF Sure
<1>9. CASE UNCHANGED job
  BY <1>1, <1>8, <1>9, SureStays DEF AllKept
<1>10. ASSUME NEW k, Starts(w, t, k) PROVE SureInv'
  BY <1>1, <1>5, <1>8, <1>10, SureOn DEF AllKept
<1>11. QED
  BY <1>3, <1>9, <1>10

LEMMA SureCrash ==
    ASSUME MirrorInv, SureInv, AllKept, NEW w \in Workers, Crash(w) PROVE SureInv'
<1>1. /\ UNCHANGED synced /\ Finish(w) /\ TypeInv
      /\ Enqueue({t \in {job[w].task} : Redelivered(t)})
      /\ WithoutRow(Unsent(w)) \subseteq dropped' /\ dropped \subseteq dropped'
      /\ job[w].task.kind = "update" => GivenUp(job[w].task) \subseteq dropped'
  BY DEF Crash, database, MirrorInv
<1>2. ASSUME NEW m \in Messages, On(job[w], m), IsMail(m)' PROVE Sure(m)'
  <2>1. CASE job[w].task = Download(m)
    <3>1. Redelivered(job[w].task)
      BY <2>1, TaskTypes DEF Redelivered
    <3>2. QED
      BY <1>1, <2>1, <3>1, SentIsSure
  <2>2. CASE job[w].task = Update(m)
    BY <1>1, <1>2, <2>2, TaskTypes, GivenUpIsSure
  <2>3. CASE job[w].step = "carry" /\ {Download(m), Update(m)} \cap job[w].todo # {}
    <3>1. m \in Unsent(w)
      BY <2>3 DEF Unsent
    <3>2. CASE RowsOf(m) = {}
      BY <1>1, <3>1, <3>2 DEF WithoutRow, Sure
    <3>3. QED
      BY <1>2, <3>2, RowIsSure
  <2>4. QED
    BY <1>2, <2>1, <2>2, <2>3 DEF On
<1>3. \A t \in Task : tasks[t] > 0 => tasks'[t] > 0
  BY <1>1, EnqueueKeeps
<1>4. QED
  BY <1>1, <1>2, <1>3, SureFinish

LEMMA SureOthers ==
    ASSUME MirrorInv, SureInv, AllKept,
           \/ UNCHANGED vars
           \/ \E m \in Messages :
                \/ \E ls \in SUBSET Labels : Arrive(m, ls) \/ Relabel(m, ls)
                \/ Vanish(m)
           \/ \E r \in RowIds :
                \/ \E c \in UserChanges \ ReadChanges : RequestChange(r, c)
                \/ RequestTrash(r)
    PROVE  SureInv'
<1>1. UNCHANGED synced /\ UNCHANGED job /\ UNCHANGED rows /\ UNCHANGED dropped
  BY DEF vars, Arrive, Relabel, Vanish, RequestChange, RequestTrash, database, broker
<1>2. UNCHANGED tasks \/ \E S : Enqueue(S)
  BY DEF vars, Arrive, Relabel, Vanish, RequestChange, RequestTrash, broker
<1>3. \A t \in Task : tasks[t] > 0 => tasks'[t] > 0
  BY <1>2, EnqueueKeeps
<1>4. SureGoes
  <2> SUFFICES ASSUME NEW m \in Messages, Sure(m) PROVE Sure(m)'
    BY DEF SureGoes
  <2>1. QED
    BY <1>1, <1>3, TaskTypes DEF Sure, On, RowsOf
<1>5. QED
  BY <1>1, <1>4, SureStays DEF AllKept

\* What the sync still has to do makes the mail between two ids sure.
LEMMA SureApply ==
    ASSUME MirrorInv, SureInv, AllKept, NEW w \in Workers, ApplyHistory(w) PROVE SureInv'
<1>1. /\ TypeInv /\ job[w].step = "apply" /\ synced' = job[w].upto
      /\ UNCHANGED gmail /\ UNCHANGED broker
  BY DEF ApplyHistory, MirrorInv
<1>2. PICK k \in GoodJob(Len(log)) :
                /\ Become(w, k) /\ Goes(job[w], k) /\ k.step = "carry"
                /\ k.todo = {Deletion(m) : m \in Deleted(w)}
                               \union {Download(m) : m \in NewMessages(w)}
                               \union {Update(m) : m \in EditLabels(w)}
  BY <1>1, JobApplyHistory
<1>3. job'[w] = k /\ \A v \in Workers : v # w => job'[v] = job[v]
  BY <1>1, <1>2, Types DEF Become
<1>4. /\ job[w].from \in Nat /\ job[w].upto \in Nat /\ job[w].upto <= Len(log)
      /\ Len(log) \in Nat
  BY <1>1, JobOf, Types
<1>5. \A m \in Messages : ~On(job[w], m)
  BY <1>1, OnOf DEF MirrorSteps
<1>6. SureGoes
  BY <1>1, <1>3, <1>5, SameBroker, SureByFrames DEF AllKept
<1>7. ASSUME NEW m \in Messages, IsMail(m), KnownUpTo(m, job[w].upto)
      PROVE  Sure(m)'
  <2>1. CASE KnownUpTo(m, job[w].from)
    <3>1. Sure(m)
      BY <1>1, <1>7, <2>1 DEF SureInv, Aware, KnownBy
    <3>2. IsMail(m)'
      BY <1>1, <1>7 DEF gmail, IsMail
    <3>3. QED
      BY <1>6, <1>7, <3>1, <3>2 DEF SureGoes
  <2>2. CASE ~KnownUpTo(m, job[w].from)
    <3>1. PICK i \in 1 .. job[w].upto : Tells(log[i], m)
      BY <1>7, <2>2 DEF KnownUpTo
    <3>2. i \notin 1 .. job[w].from
      BY <2>2, <3>1 DEF KnownUpTo
    <3>3. i \in job[w].from + 1 .. job[w].upto
      BY <1>4, <3>2, SMT
    <3>4. log[i].what \in {"added", "labels"} /\ log[i].msg = m
      BY <3>1, SMT DEF Tells
    <3>5. m \in Mentioned(w, "added") \/ m \in Mentioned(w, "labels")
      BY <3>3, <3>4 DEF Mentioned
    <3>6. m \notin Deleted(w)
      BY <1>7, DeletedAreGone DEF IsMail
    <3>7. m \in NewMessages(w) \/ m \in EditLabels(w)
      BY <1>7, <3>5, <3>6 DEF NewMessages, EditLabels, NotChat, IsMail
    <3>8. {Download(m), Update(m)} \cap k.todo # {}
      BY <1>2, <3>7
    <3>9. QED
      BY <1>2, <1>3, <3>8 DEF Sure, On
  <2>3. QED
    BY <2>1, <2>2
<1>8. KnownBy(synced)'
  <2>1. Len(log') = Len(log) /\ \A m \in Messages : IsMail(m)' => IsMail(m)
    BY <1>1 DEF gmail, IsMail
  <2>2. \A m : KnownUpTo(m, synced)' => KnownUpTo(m, job[w].upto)
    BY <1>1 DEF KnownUpTo, gmail
  <2>3. QED
    BY <1>7, <2>1, <2>2 DEF KnownBy
<1>9. Aware(k)'
  BY <1>2 DEF Aware
<1>10. QED
  BY <1>2, <1>6, <1>8, <1>9, SureKnown DEF AllKept

\* A sync does one of the things it has to do.
LEMMA SureDone ==
    ASSUME MirrorInv, SureInv, AllKept, NEW w \in Workers, NEW t, Done(w, t),
           job[w].step \in {"carry", "send"}, UNCHANGED synced, UNCHANGED gmail,
           UNCHANGED dropped, \A u \in Task : tasks[u] > 0 => tasks'[u] > 0,
           \A m \in Messages : t \in {Download(m), Update(m)} => Sure(m)'
    PROVE  SureInv'
<1>1. TypeInv
  BY DEF MirrorInv
<1>2. PICK k \in GoodJob(Len(log)) :
                /\ Become(w, k) /\ Goes(job[w], k) /\ k.step = job[w].step
                /\ k.upto = job[w].upto /\ k.todo = job[w].todo \ {t}
  BY <1>1, JobDone
<1>3. job'[w] = k /\ \A v \in Workers : v # w => job'[v] = job[v]
  BY <1>1, <1>2, Types DEF Become
<1>4. \A m \in Messages : {Download(m), Update(m)} \cap job[w].todo # {} =>
         {Download(m), Update(m)} \cap k.todo # {} \/ Sure(m)'
  BY <1>2
<1>5. ASSUME NEW m \in Messages, On(job[w], m) PROVE Sure(m)'
  <2>1. job[w].step = "carry" /\ {Download(m), Update(m)} \cap job[w].todo # {}
    BY <1>1, <1>5, TaskOf DEF On, MirrorSteps
  <2>2. CASE {Download(m), Update(m)} \cap k.todo # {}
    BY <1>2, <1>3, <2>1, <2>2 DEF Sure, On
  <2>3. QED
    BY <1>4, <2>1, <2>2
<1>6. SureGoes
  BY <1>3, <1>5, SureByFrames DEF AllKept
<1>7. Aware(k)'
  <2>1. ASSUME k.step = "send", NEW m \in Messages, IsMail(m)', ArrivedBy(m, k.upto)'
        PROVE  Sure(m)' \/ {Download(m), Update(m)} \cap k.todo # {}
    <3>1. IsMail(m) /\ ArrivedBy(m, job[w].upto)
      BY <1>2, <2>1 DEF gmail, IsMail, ArrivedBy
    <3>2. Sure(m) \/ {Download(m), Update(m)} \cap job[w].todo # {}
      BY <1>2, <2>1, <3>1 DEF SureInv, Aware
    <3>3. QED
      BY <1>4, <1>6, <2>1, <3>1, <3>2 DEF SureGoes
  <2>2. QED
    BY <1>2, <2>1 DEF Aware
<1>8. QED
  BY <1>2, <1>6, <1>7, SureOn DEF AllKept

\* A full sync stores the id it began with when all its tasks are sent.
LEMMA SureEndFull ==
    ASSUME MirrorInv, SureInv, AllKept, NEW w \in Workers, EndFull(w) PROVE SureInv'
<1>1. /\ TypeInv /\ job[w].step = "send" /\ job[w].todo = {} /\ synced' = job[w].upto
      /\ UNCHANGED gmail /\ Finish(w) /\ UNCHANGED broker
  BY DEF EndFull, MirrorInv
<1>2. \A v \in Workers : v # w => job'[v] = job[v]
  BY <1>1, Types DEF Finish, Become
<1>3. \A m \in Messages : ~On(job[w], m)
  BY <1>1, OnOf DEF MirrorSteps
<1>4. SureGoes
  BY <1>1, <1>2, <1>3, SameBroker, SureByFrames DEF AllKept
<1>5. job[w].upto \in Nat /\ job[w].upto <= Len(log) /\ Len(log) \in Nat
  BY <1>1, JobOf, Types
<1>6. ASSUME NEW m \in Messages, IsMail(m)', KnownUpTo(m, synced)' PROVE Sure(m)'
  <2>1. IsMail(m)
    BY <1>1, <1>6 DEF gmail, IsMail
  <2>2. KnownUpTo(m, job[w].upto)
    BY <1>1, <1>6 DEF gmail, KnownUpTo
  <2>3. ArrivedBy(m, job[w].upto)
    BY <1>5, <2>2, KnownArrived DEF SureInv
  <2>4. Sure(m)
    BY <1>1, <2>1, <2>3 DEF SureInv, Aware
  <2>5. QED
    BY <1>4, <1>6, <2>1, <2>4 DEF SureGoes
<1>7. KnownBy(synced)'
  BY <1>6 DEF KnownBy
<1>8. Become(w, Idle) /\ Aware(Idle)'
  BY <1>1, IdleIsGood DEF Finish, Aware
<1>9. QED
  BY <1>4, <1>7, <1>8, SureKnown DEF AllKept

LEMMA SureSyncSteps ==
    ASSUME MirrorInv, SureInv, AllKept, NEW w \in Workers, SyncStep(w)
    PROVE  SureInv'
<1>1. CASE ApplyHistory(w)
  BY <1>1, SureApply
<1>2. CASE EndFull(w)
  BY <1>2, SureEndFull
<1>3. CASE DeleteRow(w)
  <2>1. PICK n : Done(w, Deletion(n))
    BY <1>3 DEF DeleteRow
  <2>2. \A m : Deletion(n) \notin {Download(m), Update(m)}
    BY ErrandTypes
  <2>3. /\ job[w].step = "carry" /\ UNCHANGED synced /\ UNCHANGED gmail
        /\ UNCHANGED dropped /\ UNCHANGED tasks
    BY <1>3 DEF DeleteRow
  <2>4. QED
    BY <2>1, <2>2, <2>3, SureDone
<1>4. CASE SendTask(w)
  <2>1. PICK t \in job[w].todo : Enqueue({t}) /\ Done(w, t)
    BY <1>4 DEF SendTask
  <2>2. /\ job[w].step \in {"carry", "send"} /\ UNCHANGED synced /\ UNCHANGED gmail
        /\ UNCHANGED dropped
    BY <1>4 DEF SendTask, database
  <2>3. \A m \in Messages : t \in {Download(m), Update(m)} => Sure(m)'
    BY <2>1, SentIsSure
  <2>4. QED
    BY <2>1, <2>2, <2>3, EnqueueKeeps, SureDone
<1>5. CASE EndIncremental(w)
  <2>1. /\ job[w].step = "carry" /\ job[w].todo = {} /\ UNCHANGED synced
        /\ UNCHANGED broker /\ Finish(w) /\ TypeInv
    BY <1>5 DEF EndIncremental, database, MirrorInv
  <2>2. \A m \in Messages : ~On(job[w], m)
    BY <2>1, TaskOf DEF On, MirrorSteps
  <2>3. QED
    BY <2>1, <2>2, SameBroker, SureFinish
<1>6. ASSUME UNCHANGED synced, UNCHANGED broker, job[w].step \in SyncSteps \ {"carry"},
             NEW k, Become(w, k), Aware(k)'
      PROVE  SureInv'
  <2>1. \A m \in Messages : ~On(job[w], m)
    BY <1>6, OnOf, StepKinds DEF MirrorInv
  <2>2. QED
    BY <1>6, <2>1, SameBroker, SureNext
<1>7. CASE GetHistory(w) \/ GetProfile(w) \/ ListMessages(w) \/ LookUp(w)
  <2>1. /\ UNCHANGED synced /\ UNCHANGED gmail /\ UNCHANGED broker /\ UNCHANGED rows
        /\ TypeInv /\ job[w].step \in SyncSteps \ {"carry"}
    BY <1>7 DEF GetHistory, GetProfile, ListMessages, LookUp, database, MirrorInv, SyncSteps
  <2>2. /\ \A m \in Messages : IsMail(m)' => IsMail(m)
        /\ \A m \in Messages : \A n : ArrivedBy(m, n)' => ArrivedBy(m, n)
    BY <2>1 DEF gmail, IsMail, ArrivedBy
  <2>3. CASE GetHistory(w)
    <3>1. PICK k : Become(w, k) /\ Goes(job[w], k) /\ k.step = "apply"
      BY <2>1, <2>3, JobGetHistory
    <3>2. KnownBy(job[w].from)
      BY <2>3 DEF SureInv, Aware, GetHistory
    <3>3. \A v \in Workers : v # w => job'[v] = job[v]
      BY <2>1, <3>1, Types DEF Become
    <3>4. \A m \in Messages : ~On(job[w], m)
      BY <2>1, OnOf, StepKinds
    <3>5. SureGoes
      BY <2>1, <3>3, <3>4, SameBroker, SureByFrames DEF AllKept
    <3>6. PICK n \in Nat : n = job[w].from /\ n <= Len(log)
      BY <2>1, JobOf
    <3>7. KnownBy(n)'
      BY <3>2, <3>5, <3>6, KnownStays DEF SureInv, AllKept
    <3>8. k.from = n
      BY <3>1, <3>6 DEF Goes
    <3>9. Aware(k)'
      BY <3>1, <3>7, <3>8 DEF Aware
    <3>10. QED
      BY <1>6, <2>1, <3>1, <3>9
  <2>4. CASE GetProfile(w)
    <3>1. PICK k : Become(w, k) /\ k.step = "list"
      BY <2>1, <2>4, JobGetProfile
    <3>2. Aware(k)'
      BY <3>1 DEF Aware
    <3>3. QED
      BY <1>6, <2>1, <3>1, <3>2
  <2>5. CASE ListMessages(w)
    <3>1. PICK k : /\ Become(w, k) /\ k.step = "look"
                   /\ \A m \in Messages : IsMail(m) => m \in k.listed
      BY <2>1, <2>5, JobListMessages
    <3>2. Aware(k)'
      BY <2>2, <3>1 DEF Aware
    <3>3. QED
      BY <1>6, <2>1, <3>1, <3>2
  <2>6. CASE LookUp(w)
    <3>1. PICK k : /\ Become(w, k) /\ k.step = "send" /\ k.upto = job[w].upto
                   /\ k.todo = {Download(m) : m \in WithoutRow(job[w].listed \ noEmail)}
                        \union {Update(m) : m \in (job[w].listed \ noEmail)
                                                 \ WithoutRow(job[w].listed \ noEmail)}
      BY <2>1, <2>6, JobLookUp
    <3>2. ASSUME NEW m \in Messages, IsMail(m)', ArrivedBy(m, k.upto)'
          PROVE  {Download(m), Update(m)} \cap k.todo # {}
      <4>1. IsMail(m) /\ ArrivedBy(m, job[w].upto)
        BY <2>2, <3>1, <3>2
      <4>2. m \in job[w].listed
        BY <2>6, <4>1 DEF LookUp, SureInv, Aware
      <4>3. m \notin noEmail
        BY <4>1 DEF MirrorInv, SkipInv, Lost, IsMail
      <4>4. QED
        BY <3>1, <4>2, <4>3
    <3>3. Aware(k)'
      BY <3>1, <3>2 DEF Aware
    <3>4. QED
      BY <1>6, <2>1, <3>1, <3>3
  <2>7. QED
    BY <1>7, <2>3, <2>4, <2>5, <2>6
<1>8. QED
  BY <1>1, <1>2, <1>3, <1>4, <1>5, <1>7 DEF SyncStep

LEMMA SureBegin ==
    ASSUME MirrorInv, SureInv, AllKept, NEW w \in Workers, NEW q, NEW s, NEW f,
           IsKind(q, s, f), BeginSync(w, q, s, f)
    PROVE  SureInv'
<1>1. /\ UNCHANGED synced /\ UNCHANGED broker /\ UNCHANGED gmail /\ TypeInv
      /\ job[w].step = "idle"
  BY DEF BeginSync, database, MirrorInv, IsIdle
<1>2. PICK k : Begins(w, k, q, s, f)
  BY <1>1, JobBeginSync
<1>3. Become(w, k) /\ k.step = s /\ k.from = f
  BY <1>2 DEF Begins
<1>4. \A m \in Messages : ~On(job[w], m)
  BY <1>1, OnOf DEF MirrorSteps
<1>5. \A v \in Workers : v # w => job'[v] = job[v]
  BY <1>1, <1>3, Types DEF Become
<1>6. SureGoes
  BY <1>1, <1>4, <1>5, SameBroker, SureByFrames DEF AllKept
<1>7. Aware(k)'
  <2>1. CASE s = "history" /\ f = synced
    <3>1. PICK n : n = synced
      OBVIOUS
    <3>2. KnownBy(n)'
      BY <1>1, <1>6, <3>1, KnownStays, Types DEF SureInv, AllKept
    <3>3. k.from = n
      BY <1>3, <2>1, <3>1
    <3>4. QED
      BY <1>3, <2>1, <3>2, <3>3 DEF Aware
  <2>2. CASE s = "profile"
    BY <1>3, <2>2 DEF Aware
  <2>3. QED
    BY <2>1, <2>2 DEF IsKind
<1>8. QED
  BY <1>1, <1>3, <1>6, <1>7, SureOn DEF AllKept

LEMMA SurePatch ==
    ASSUME MirrorInv, SureInv, AllKept, NEW w \in Workers, NEW r \in RowIds,
           NEW c \in UserChanges \intersect ReadChanges, PatchRead(w, r, c)
    PROVE  SureInv'
<1>1. /\ UNCHANGED synced /\ UNCHANGED tasks /\ UNCHANGED dropped /\ TypeInv
      /\ job[w].step = "idle"
  BY DEF PatchRead, database, MirrorInv, IsIdle
<1>2. PICK k : Patches(w, k, r, c)
  BY <1>1, JobPatchRead
<1>3. Become(w, k) /\ Aware(k)'
  BY <1>2 DEF Patches, Aware
<1>4. \A m \in Messages : ~On(job[w], m)
  BY <1>1, OnOf DEF MirrorSteps
<1>5. QED
  BY <1>1, <1>3, <1>4, SureNext

LEMMA NextSure ==
    ASSUME MirrorInv, SureInv, [Next]_vars PROVE SureInv'
<1>1. AllKept
  BY NextKeeps
<1>2. ASSUME NEW w \in Workers,
             \/ \E t \in Task : Start(w, t)
             \/ \E r \in RowIds, c \in UserChanges \intersect ReadChanges :
                  PatchRead(w, r, c)
             \/ BeginSync(w, "incremental", "history", synced)
             \/ BeginSync(w, "full", "profile", 0)
             \/ MirrorStep(w) \/ UserStep(w) \/ SyncStep(w)
             \/ CallFails(w) \/ Crash(w)
      PROVE  SureInv'
  <2>1. CASE MirrorStep(w)
    BY <1>1, <2>1, SureFetchSteps, SureRowSteps DEF MirrorStep
  <2>2. CASE UserStep(w)
    BY <1>1, <2>2, SureUserSteps
  <2>3. CASE CallFails(w)
    <3>1. Retry(w) /\ UNCHANGED synced /\ job[w].step # "carry"
      BY <2>3 DEF CallFails, Retry, database
    <3>2. QED
      BY <1>1, <3>1, SureRetry
  <2>4. CASE Crash(w)
    BY <1>1, <2>4, SureCrash
  <2>5. CASE SyncStep(w)
    BY <1>1, <2>5, SureSyncSteps
  <2>6. CASE \/ BeginSync(w, "incremental", "history", synced)
             \/ BeginSync(w, "full", "profile", 0)
    <3>1. IsKind("incremental", "history", synced) /\ IsKind("full", "profile", 0)
      BY DEF IsKind
    <3>2. QED
      BY <1>1, <2>6, <3>1, SureBegin
  <2>7. ASSUME NEW t \in Task, Start(w, t) PROVE SureInv'
    BY <1>1, <2>7, SureStart
  <2>8. ASSUME NEW r \in RowIds, NEW c \in UserChanges \intersect ReadChanges,
               PatchRead(w, r, c)
        PROVE  SureInv'
    BY <1>1, <2>8, SurePatch
  <2>9. QED
    BY <1>2, <2>1, <2>2, <2>3, <2>4, <2>5, <2>6, <2>7, <2>8
<1>3. CASE \/ UNCHANGED vars
           \/ \E m \in Messages :
                \/ \E ls \in SUBSET Labels : Arrive(m, ls) \/ Relabel(m, ls)
                \/ Vanish(m)
           \/ \E r \in RowIds :
                \/ \E c \in UserChanges \ ReadChanges : RequestChange(r, c)
                \/ RequestTrash(r)
  BY <1>1, <1>3, SureOthers
<1>4. QED
  BY <1>2, <1>3 DEF Next

LEMMA InitSure == Init => SureInv
<1> SUFFICES ASSUME Init PROVE SureInv
  OBVIOUS
<1>1. KnownBy(synced)
  <2>1. PICK key \in [Messages -> RowIds \union {NoKey}], ls \in [Messages -> SUBSET Labels] :
         LET stored == {m \in Messages : key[m] # NoKey} IN
         /\ \A m \in stored : sort[m] = "mail"
         /\ \A m, n \in stored : key[m] = key[n] => m = n
         /\ remote = [m \in Messages |->
                        IF m \in stored
                        THEN [status |-> "there", labels |-> ls[m]]
                        ELSE [status |-> "unborn", labels |-> {}]]
         /\ rows \in [RowIds -> {NoRow} \union {Mirror(m, ls[m]) : m \in stored}]
         /\ \A r \in RowIds, m \in stored :
                (rows[r] # NoRow /\ rows[r].msg = m) <=> key[m] = r
    BY DEF Init
  <2>2. ASSUME NEW m \in Messages, IsMail(m) PROVE Sure(m)
    <3>1. key[m] # NoKey
      BY <2>1, <2>2 DEF IsMail
    <3>2. key[m] \in RowIds
      BY <3>1
    <3>3. key[m] \in RowsOf(m)
      BY <2>1, <3>1, <3>2 DEF RowsOf
    <3>4. QED
      BY <3>3 DEF Sure
  <2>3. QED
    BY <2>2 DEF KnownBy
<1>2. \A w \in Workers : Aware(job[w])
  BY IdleIsGood DEF Init, Aware
<1>3. HistoryInv
  BY SMT DEF Init, HistoryInv
<1>4. QED
  BY <1>1, <1>2, <1>3 DEF SureInv

LEMMA SureIsKept ==
    ASSUME TypeInv, NEW m \in Messages, Sure(m) PROVE Kept(m)
<1>1. ASSUME NEW w \in Workers, job[w].task \in {Download(m), Update(m)} PROVE Kept(m)
  <2>1. IsMirrorJob(w) /\ job[w].msg = m
    BY <1>1, TaskOf, TaskTypes DEF IsMirrorJob
  <2>2. QED
    BY <2>1 DEF Kept, WorkedOn
<1>2. ASSUME NEW w \in Workers, job[w].step = "carry",
             {Download(m), Update(m)} \cap job[w].todo # {}
      PROVE  Kept(m)
  <2>1. m \in Unsent(w)
    BY <1>2 DEF Unsent
  <2>2. QED
    BY <2>1 DEF Kept, WorkedOn
<1>3. QED
  BY <1>1, <1>2 DEF Sure, On, Kept, WorkedOn

\* Every mail of which the synchronised history tells has a row, or a task that is
\* waiting, at work or about to be sent, whatever else runs, fails or dies in
\* between; or its last task was given up, or died with the sync that was to send
\* it.
THEOREM MailIsRemembered == Spec => []NoMailForgotten
<1>1. MirrorInv /\ SureInv => NoMailForgotten
  BY SureIsKept DEF MirrorInv, SureInv, KnownBy, NoMailForgotten, KnownUpTo, KnownToSync
<1>2. MirrorInv /\ SureInv /\ [Next]_vars => MirrorInv' /\ SureInv'
  BY NextKeeps, NextSure DEF AllKept
<1>3. QED
  BY <1>1, <1>2, InitMirror, InitSure, PTL DEF Spec

=============================================================================
