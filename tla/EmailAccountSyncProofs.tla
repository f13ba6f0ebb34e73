----------------------- MODULE EmailAccountSyncProofs -----------------------
(***************************************************************************)
(* For every set of workers and every bound: EmailAccountSync is type      *)
(* correct, the history id stored in the account never points past a       *)
(* change nobody took charge of, and a deleted account stays alone.  With  *)
(* one worker, an account that is syncing is being synchronised.           *)
(***************************************************************************)
EXTENDS EmailAccountSync, TLAPS

\* History ids: what a job reads from Gmail stays among them.
LEMMA Ranges ==
    /\ NoHistory \in HistoryIds
    /\ 0 \in 0 .. MaxSyncFailures + 1
    /\ \A n \in Changes : n \in HistoryIds /\ 1 .. n \in SUBSET Changes
    /\ \A n \in Changes, h \in HistoryIds : h + 1 .. n \in SUBSET Changes
  BY SyncAssumption DEF HistoryIds, NoHistory, Changes

LEMMA AccountTypes ==
    /\ NewAccount \in Account
    /\ [NewAccount EXCEPT !.is_authorized = TRUE] \in Account
    /\ NoRow \in Account
    /\ Idle \in Job
  <1>1. NewAccount \in Account
    BY Ranges DEF NewAccount, Account
  <1>2. /\ [NewAccount EXCEPT !.is_authorized = TRUE] \in Account
        /\ NoRow \in Account
    BY <1>1 DEF NoRow, Account
  <1>3. Idle \in Job
    <2>1. "idle" \in Steps
      BY DEF Steps
    <2> QED
      BY <1>2, <2>1, Ranges DEF Idle, Job
  <1> QED
    BY <1>1, <1>2, <1>3

LEMMA JobTypes ==
    ASSUME NEW j \in Job, NEW step \in Steps, NEW snap \in Account,
           NEW next \in HistoryIds, NEW covers \in SUBSET Changes
    PROVE  /\ [j EXCEPT !.step = step, !.snap = snap] \in Job
           /\ [j EXCEPT !.step = step, !.next = next] \in Job
           /\ [j EXCEPT !.step = step, !.covers = covers] \in Job
           /\ [j EXCEPT !.step = step, !.next = next, !.covers = covers] \in Job
  BY DEF Job

\* A worker's new job keeps the function of jobs well typed.
LEMMA BecomeType ==
    ASSUME TypeOK, NEW w \in Workers, NEW j \in Job, Become(w, j)
    PROVE  /\ job' \in [Workers -> Job]
           /\ job'[w] = j
           /\ \A v \in Workers \ {w} : job'[v] = job[v]
  BY DEF TypeOK, Become

LEMMA GotoType ==
    ASSUME TypeOK, NEW w \in Workers, NEW step \in Steps, NEW snap \in Account,
           Goto(w, step, snap)
    PROVE  job' \in [Workers -> Job]
  <1>1. [job[w] EXCEPT !.step = step, !.snap = snap] \in Job
    BY DEF TypeOK, Job
  <1> QED
    BY <1>1, BecomeType DEF Goto

LEMMA FinishType ==
    ASSUME TypeOK, NEW w \in Workers, Finish(w)
    PROVE  job' \in [Workers -> Job]
  BY AccountTypes, BecomeType DEF Finish

LEMMA RetryType ==
    ASSUME TypeOK, NEW w \in Workers, RetryOrGiveUp(w)
    PROVE  /\ job' \in [Workers -> Job]
           /\ queue' \in [TaskKinds -> Nat]
  <1>1. job' \in [Workers -> Job]
    BY FinishType DEF RetryOrGiveUp
  <1>2. queue' \in [TaskKinds -> Nat]
    BY DEF RetryOrGiveUp, Enqueue, TypeOK
  <1> QED
    BY <1>1, <1>2

\* The columns a write may change stay in their ranges.
LEMMA ColumnTypes ==
    ASSUME NEW a \in Account
    PROVE  /\ \A b \in BOOLEAN : [a EXCEPT !.is_authorized = b] \in Account
           /\ \A b \in BOOLEAN : [a EXCEPT !.is_deleted = b] \in Account
           /\ \A b, c \in BOOLEAN :
                [a EXCEPT !.is_authorized = b, !.is_syncing = c] \in Account
           /\ \A b \in BOOLEAN :
                [a EXCEPT !.is_syncing = b, !.sync_failure_count = 0] \in Account
           /\ \A h \in HistoryIds : [a EXCEPT !.history_id = h] \in Account
           /\ [a EXCEPT !.sync_failure_count = Increment(@)] \in Account
  <1>1. Increment(a.sync_failure_count) \in 0 .. MaxSyncFailures + 1
    BY SyncAssumption DEF Account, Increment
  <1>2. [a EXCEPT !.sync_failure_count = Increment(@)] \in Account
    BY <1>1 DEF Account
  <1>3. \A b \in BOOLEAN :
          [a EXCEPT !.is_syncing = b, !.sync_failure_count = 0] \in Account
    BY Ranges DEF Account
  <1> QED
    BY <1>2, <1>3 DEF Account

THEOREM TypeCorrect == Spec => []TypeOK
  <1>1. Init => TypeOK
    <2> SUFFICES ASSUME Init PROVE TypeOK
      OBVIOUS
    <2>1. row \in Account
      BY AccountTypes DEF Init
    <2>2. now \in Changes /\ oldest \in Changes
      BY SyncAssumption DEF Init, Changes
    <2>3. job \in [Workers -> Job] /\ queue \in [TaskKinds -> Nat]
      BY AccountTypes DEF Init
    <2> QED
      BY <2>1, <2>2, <2>3 DEF Init, TypeOK
  <1>2. TypeOK /\ [Next]_vars => TypeOK'
    <2> SUFFICES ASSUME TypeOK, [Next]_vars PROVE TypeOK'
      OBVIOUS
    <2>1. CASE UNCHANGED vars
      BY <2>1 DEF vars, TypeOK
    <2>2. CASE MailboxChanges \/ HistoryExpires \/ AccessRevoked
      <3>1. CASE MailboxChanges
        <4>1. now' \in Changes
          <5>1. scenario.changes \in Changes
            BY SyncAssumption DEF TypeOK, Changes
          <5> QED
            BY <3>1, <5>1, SyncAssumption DEF MailboxChanges, TypeOK, Changes
        <4> QED
          BY <3>1, <4>1 DEF MailboxChanges, TypeOK
      <3>2. CASE HistoryExpires
        BY <3>2 DEF HistoryExpires, TypeOK
      <3>3. CASE AccessRevoked
        BY <3>3 DEF AccessRevoked, TypeOK, gmail
      <3> QED
        BY <2>2, <3>1, <3>2, <3>3
    <2>3. CASE ScheduleSync \/ ScheduleLabels \/ ScheduleCleanup
      BY <2>3 DEF TypeOK, ScheduleSync, ScheduleLabels, ScheduleCleanup,
         Schedule, Enqueue, gmail
    <2>4. CASE PurgeAccount
      <3>1. queue' \in [TaskKinds -> Nat]
        BY <2>4 DEF TypeOK, PurgeAccount, TaskKinds
      <3> QED
        BY <2>4, <3>1, AccountTypes DEF TypeOK, PurgeAccount, gmail
    <2>5. ASSUME NEW w \in Workers, NEW k \in SyncTasks, Start(w, k)
          PROVE  TypeOK'
      <3>1. queue' \in [TaskKinds -> Nat]
        BY <2>5 DEF Start, TypeOK, TaskKinds
      <3>2. job' \in [Workers -> Job]
        <4>1. \A s \in Steps : [Idle EXCEPT !.kind = k, !.snap = row, !.step = s] \in Job
          BY AccountTypes DEF Job, JobKinds, TypeOK
        <4>2. FirstStep(k) \in Steps
          BY DEF FirstStep, Steps
        <4>3. CASE Active(row)
          <5>1. "invalid" \in Steps
            BY DEF Steps
          <5> QED
            BY <2>5, <4>1, <4>2, <4>3, <5>1, BecomeType DEF Start
        <4>4. CASE ~Active(row)
          BY <2>5, <4>4 DEF Start, TypeOK
        <4> QED
          BY <4>3, <4>4
      <3> QED
        BY <2>5, <3>1, <3>2 DEF Start, TypeOK, gmail
    <2>6. ASSUME NEW w \in Workers, Step(w)
          PROVE  TypeOK'
      <3>0. /\ job[w] \in Job /\ job[w].snap \in Account
            /\ job[w].next \in HistoryIds /\ job[w].covers \subseteq Changes
        BY DEF TypeOK, Job
      <3>1. CASE InvalidCredentials(w)
        BY <3>0, <3>1, RetryType, ColumnTypes
        DEF InvalidCredentials, SaveAll, TypeOK, gmail
      <3>2. CASE TokenRefused(w)
        <4>1. job' \in [Workers -> Job]
          BY <3>0, <3>2, GotoType DEF TokenRefused, Steps
        <4> QED
          BY <3>2, <4>1 DEF TokenRefused, TypeOK, gmail
      <3>3. CASE SaveRefused(w)
        BY <3>0, <3>3, FinishType, ColumnTypes
        DEF SaveRefused, SaveAll, TypeOK, gmail
      <3>4. CASE CallFails(w)
        BY <3>4, RetryType DEF CallFails, TypeOK, gmail
      <3>5. CASE CallDone(w)
        BY <3>5, FinishType DEF CallDone, TypeOK, gmail
      <3>6. CASE HistoryListed(w)
        <4>1. [job[w] EXCEPT !.step = "store", !.next = now,
                 !.covers = ListedSince(job[w].snap.history_id)] \in Job
          <5>1. "store" \in Steps /\ job[w].snap.history_id \in HistoryIds
            BY <3>0 DEF Steps, Account
          <5> QED
            BY <3>0, <5>1, Ranges, JobTypes DEF TypeOK, ListedSince
        <4>2. job' \in [Workers -> Job]
          <5>1. CASE HistoryGone(job[w].snap)
            BY <3>0, <3>6, <5>1, GotoType DEF HistoryListed, Steps
          <5>2. CASE ~HistoryGone(job[w].snap)
            BY <3>6, <4>1, <5>2, BecomeType DEF HistoryListed
          <5> QED
            BY <5>1, <5>2
        <4> QED
          BY <3>6, <4>2 DEF HistoryListed, TypeOK, gmail
      <3>7. CASE CountFailure(w)
        <4> DEFINE counted == [job[w].snap EXCEPT !.sync_failure_count = Increment(@)]
        <4>1. counted \in Account
          BY <3>0, ColumnTypes
        <4>2. row' = counted /\ (Goto(w, "terminate", counted) \/ Finish(w))
          BY <3>7 DEF CountFailure, SaveAll
        <4>3. job' \in [Workers -> Job]
          <5>1. "terminate" \in Steps
            BY DEF Steps
          <5> HIDE DEF counted
          <5> QED
            BY <4>1, <4>2, <5>1, GotoType, FinishType
        <4> QED
          BY <3>7, <4>1, <4>2, <4>3 DEF CountFailure, TypeOK, gmail
      <3>8. CASE TerminateSync(w)
        BY <3>0, <3>8, FinishType, ColumnTypes
        DEF TerminateSync, SaveAll, TypeOK, gmail
      <3>9. CASE StoreHistoryId(w)
        <4>1. row' \in Account
          BY <3>0, <3>9, ColumnTypes DEF StoreHistoryId, TypeOK
        <4>2. job' \in [Workers -> Job]
          <5>1. [job[w].snap EXCEPT !.history_id = job[w].next] \in Account
            BY <3>0, ColumnTypes
          <5>2. "dispatch" \in Steps
            BY DEF Steps
          <5> QED
            BY <3>9, <5>1, <5>2, GotoType, FinishType DEF StoreHistoryId
        <4> QED
          BY <3>9, <4>1, <4>2 DEF StoreHistoryId, TypeOK, gmail
      <3>10. CASE DispatchIncremental(w)
        <4>1. queue' \in [TaskKinds -> Nat]
          BY <3>10, SyncAssumption DEF DispatchIncremental, EnqueueSome, TypeOK,
             TaskKinds, SyncTasks, MessageTasks
        <4> QED
          BY <3>0, <3>10, <4>1, FinishType DEF DispatchIncremental, TypeOK, gmail
      <3>11. CASE MarkSyncing(w)
        <4>1. row' \in Account
          BY <3>11, ColumnTypes DEF MarkSyncing, AdministerSyncStatus, TypeOK
        <4>2. job' \in [Workers -> Job]
          <5>1. [job[w].snap EXCEPT !.is_syncing = TRUE,
                                    !.sync_failure_count = 0] \in Account
            BY <3>0, ColumnTypes
          <5>2. "profile" \in Steps
            BY DEF Steps
          <5> QED
            BY <3>11, <5>1, <5>2, GotoType, FinishType DEF MarkSyncing
        <4> QED
          BY <3>11, <4>1, <4>2 DEF MarkSyncing, TypeOK, gmail
      <3>12. CASE ReadProfile(w)
        <4>1. [job[w] EXCEPT !.step = "list", !.next = now] \in Job
          <5>1. "list" \in Steps
            BY DEF Steps
          <5> QED
            BY <3>0, <5>1, Ranges, JobTypes DEF TypeOK
        <4> QED
          BY <3>12, <4>1, BecomeType DEF ReadProfile, TypeOK, gmail
      <3>13. CASE ListMessages(w)
        <4>1. [job[w] EXCEPT !.step = "dispatch", !.covers = 1 .. now] \in Job
          <5>1. "dispatch" \in Steps
            BY DEF Steps
          <5> QED
            BY <3>0, <5>1, Ranges, JobTypes DEF TypeOK
        <4> QED
          BY <3>13, <4>1, BecomeType DEF ListMessages, TypeOK, gmail
      <3>14. CASE DispatchFull(w)
        <4>1. queue' \in [TaskKinds -> Nat]
          BY <3>14, SyncAssumption DEF DispatchFull, EnqueueSome, TypeOK,
             TaskKinds, SyncTasks, MessageTasks
        <4>2. job' \in [Workers -> Job]
          BY <3>0, <3>14, GotoType DEF DispatchFull, Steps
        <4> QED
          BY <3>0, <3>14, <4>1, <4>2 DEF DispatchFull, TypeOK, gmail
      <3>15. CASE EnqueueFinished(w)
        <4>1. job' \in [Workers -> Job]
          BY <3>0, <3>15, GotoType DEF EnqueueFinished, Steps
        <4>2. queue' \in [TaskKinds -> Nat]
          BY <3>15 DEF EnqueueFinished, Enqueue, TypeOK, TaskKinds, SyncTasks
        <4> QED
          BY <3>15, <4>1, <4>2 DEF EnqueueFinished, TypeOK, gmail
      <3>16. CASE UnmarkSyncing(w)
        BY <3>16, FinishType, ColumnTypes
        DEF UnmarkSyncing, AdministerSyncStatus, TypeOK, gmail
      <3>17. CASE SkipToPresent(w)
        <4>1. [job[w] EXCEPT !.step = "authorize", !.covers = 1 .. now,
                 !.snap = [@ EXCEPT !.history_id = now,
                                    !.is_syncing = FALSE]] \in Job
          <5>1. now \in HistoryIds /\ 1 .. now \in SUBSET Changes
            BY Ranges DEF TypeOK
          <5>2. [job[w].snap EXCEPT !.history_id = now, !.is_syncing = FALSE]
                  \in Account
            BY <3>0, <5>1 DEF Account
          <5>3. "authorize" \in Steps
            BY DEF Steps
          <5> QED
            BY <3>0, <5>1, <5>2, <5>3 DEF Job
        <4>2. job' \in [Workers -> Job]
          BY <3>17, <4>1, BecomeType, FinishType DEF SkipToPresent
        <4> QED
          BY <3>17, <4>2 DEF SkipToPresent, TypeOK, gmail
      <3>18. CASE SaveRequest(w)
        <4>1. job' \in [Workers -> Job]
          BY <3>0, <3>18, GotoType, FinishType DEF SaveRequest, Steps
        <4> QED
          BY <3>0, <3>18, <4>1 DEF SaveRequest, SaveAll, TypeOK, gmail
      <3>19. CASE PutCredentials(w)
        <4>1. job' \in [Workers -> Job]
          BY <3>0, <3>19, GotoType, FinishType DEF PutCredentials, Steps
        <4> QED
          BY <3>19, <4>1 DEF PutCredentials, TypeOK, gmail
      <3> QED
        BY <2>6, <3>1, <3>2, <3>3, <3>4, <3>5, <3>6, <3>7, <3>8, <3>9, <3>10,
           <3>11, <3>12, <3>13, <3>14, <3>15, <3>16, <3>17, <3>18, <3>19
        DEF Step
    <2>7. ASSUME NEW w \in Workers, Patch(w) \/ Destroy(w) \/ Reconnect(w)
          PROVE  TypeOK'
      <3>1. \E k \in JobKinds, s \in Steps, a \in Account : BeginRequest(w, k, s, a)
        <4>1. /\ row \in Account
              /\ [row EXCEPT !.is_authorized = TRUE] \in Account
              /\ \A b \in BOOLEAN : [row EXCEPT !.is_deleted = b] \in Account
          BY ColumnTypes DEF TypeOK
        <4>2. /\ {"patch", "destroy", "reconnect"} \subseteq JobKinds
              /\ {"save", "invalid", "only_new", "authorize", "connect"}
                   \subseteq Steps
          BY DEF JobKinds, RequestKinds, Steps
        <4> QED
          BY <2>7, <4>1, <4>2 DEF Patch, Destroy, Reconnect
      <3>2. PICK k \in JobKinds, s \in Steps, a \in Account : BeginRequest(w, k, s, a)
        BY <3>1
      <3>3. [Idle EXCEPT !.kind = k, !.step = s, !.snap = a] \in Job
        BY AccountTypes DEF Job
      <3> QED
        BY <3>2, <3>3, BecomeType DEF BeginRequest, TypeOK, gmail
    <2>8. ASSUME NEW w \in Workers, Crash(w)
          PROVE  TypeOK'
      <3>1. job[w].covers \subseteq Changes
        BY DEF TypeOK, Job
      <3> QED
        BY <2>8, <3>1, RetryType DEF Crash, TypeOK, gmail
    <2> QED
      BY <2>1, <2>2, <2>3, <2>4, <2>5, <2>6, <2>7, <2>8 DEF Next
  <1> QED
    BY <1>1, <1>2, PTL DEF Spec

-----------------------------------------------------------------------------
(* No change is skipped.  Everything a worker may write into history_id is *)
(* accounted for at every step of its job (Backed), so every write keeps   *)
(* the row accounted for, whoever wrote in between.                        *)

\* Steps of worker w that do not start where it is handing changes over.
Quiet(w) ==
    /\ ~(job[w].kind = "incremental" /\ job[w].step = "dispatch")
    /\ now' = now /\ handed \subseteq handed' /\ lost \subseteq lost'
    /\ \A v \in Workers \ {w} : job'[v] = job[v]

LEMMA BecomeOthers ==
    ASSUME TypeOK, NEW w \in Workers, NEW j, Become(w, j)
    PROVE  job'[w] = j /\ \A v \in Workers \ {w} : job'[v] = job[v]
  BY DEF TypeOK, Become

LEMMA GotoOthers ==
    ASSUME TypeOK, NEW w \in Workers, NEW step, NEW snap, Goto(w, step, snap)
    PROVE  /\ job'[w].step = step /\ job'[w].snap = snap
           /\ job'[w].kind = job[w].kind /\ job'[w].next = job[w].next
           /\ job'[w].covers = job[w].covers
           /\ \A v \in Workers \ {w} : job'[v] = job[v]
  <1>1. job[w] \in Job
    BY DEF TypeOK
  <1>2. job'[w] = [job[w] EXCEPT !.step = step, !.snap = snap]
    BY BecomeOthers DEF Goto
  <1>3. \A v \in Workers \ {w} : job'[v] = job[v]
    BY BecomeOthers DEF Goto
  <1> QED
    BY <1>1, <1>2, <1>3 DEF Job

LEMMA FinishOthers ==
    ASSUME TypeOK, NEW w \in Workers, Finish(w)
    PROVE  /\ job'[w] = Idle
           /\ \A v \in Workers \ {w} : job'[v] = job[v]
  BY BecomeOthers DEF Finish

\* Whatever is in charge of a change stays so while worker w is quiet.
LEMMA QuietKeepsCharge ==
    ASSUME NEW w \in Workers, Quiet(w), NEW c, InCharge(c)
    PROVE  InCharge(c)'
  <1>1. CASE c \in handed \/ c \in lost
    BY <1>1 DEF Quiet, InCharge
  <1>2. ASSUME NEW v \in Workers, HandingOver(v, c)
        PROVE  InCharge(c)'
    <2>1. v # w
      BY <1>2 DEF HandingOver, Quiet
    <2>2. HandingOver(v, c)'
      BY <1>2, <2>1 DEF HandingOver, Quiet
    <2> QED
      BY <2>2 DEF InCharge
  <1> QED
    BY <1>1, <1>2 DEF InCharge

\* Another worker's promise survives a step that leaves its job alone.
LEMMA BackedKept ==
    ASSUME TypeOK, NEW v \in Workers, Backed(v), job'[v] = job[v],
           \A c \in Changes : InCharge(c) => InCharge(c)',
           handed \subseteq handed', now' \in Changes, now <= now'
    PROVE  Backed(v)'
  <1>1. job[v] \in Job /\ job[v].snap \in Account
    BY DEF TypeOK, Job
  <1>2. 1 .. job[v].snap.history_id \subseteq Changes
    BY <1>1, SyncAssumption DEF Account, HistoryIds, NoHistory, Changes
  <1>3. job[v].next \in Nat /\ now \in Nat /\ now' \in Nat
    BY <1>1, SyncAssumption DEF Job, HistoryIds, NoHistory, TypeOK, Changes
  <1>4. \A c \in 1 .. job'[v].snap.history_id :
          InCharge(c)' \/ ( /\ job'[v].step \in {"authorize", "save"}
                           /\ c \in job'[v].covers)
    BY <1>2 DEF Backed
  <1> QED
    BY <1>3, <1>4 DEF Backed

LEMMA IdleIsBacked ==
    ASSUME NEW w \in Workers, job'[w] = Idle
    PROVE  Backed(w)'
  <1>1. \A c \in 1 .. job'[w].snap.history_id : FALSE
    BY SMT DEF Idle, NoRow, NewAccount, NoHistory
  <1>2. job'[w].step = "idle"
    BY DEF Idle
  <1> QED
    BY <1>1, <1>2 DEF Backed

\* What a quiet step leaves to show: the new job and the new history id.
LEMMA QuietPreserves ==
    ASSUME TypeOK, TypeOK', HistoryInv, NEW w \in Workers, Quiet(w),
           Backed(w)', \A c \in 1 .. row'.history_id : InCharge(c)'
    PROVE  HistoryInv'
  <1>1. \A c \in Changes : InCharge(c) => InCharge(c)'
    BY QuietKeepsCharge
  <1>2. now' \in Changes /\ now <= now'
    BY SyncAssumption DEF Quiet, TypeOK, Changes
  <1>3. \A v \in Workers \ {w} : Backed(v)'
    BY <1>1, <1>2, BackedKept DEF Quiet, HistoryInv
  <1>4. NoChangeSkipped'
    BY DEF NoChangeSkipped
  <1> QED
    BY <1>3, <1>4 DEF HistoryInv

\* The ids a quiet step can write without a reason of its own.
LEMMA OldIds ==
    ASSUME HistoryInv, NEW w \in Workers, Quiet(w)
    PROVE  /\ \A c \in 1 .. row.history_id : InCharge(c)'
           /\ \A c \in 1 .. job[w].snap.history_id :
                InCharge(c)' \/ ( /\ job[w].step \in {"authorize", "save"}
                                 /\ c \in job[w].covers)
  BY QuietKeepsCharge DEF HistoryInv, NoChangeSkipped, Backed

\* The end of a job: it leaves the id alone or writes the one it had loaded.
LEMMA FinishPreserves ==
    ASSUME TypeOK, TypeOK', HistoryInv, NEW w \in Workers,
           job[w].step \notin {"dispatch", "authorize", "save"}, Finish(w),
           UNCHANGED <<now, handed, lost>>,
           row'.history_id \in {row.history_id, job[w].snap.history_id}
    PROVE  HistoryInv'
  <1>1. Quiet(w)
    BY FinishOthers DEF Quiet
  <1>2. Backed(w)'
    BY FinishOthers, IdleIsBacked
  <1>3. \A c \in 1 .. row'.history_id : InCharge(c)'
    BY <1>1, OldIds
  <1> QED
    BY <1>1, <1>2, <1>3, QuietPreserves

\* Going on with the same snapshot to a step that promises nothing more.
LEMMA GotoPreserves ==
    ASSUME TypeOK, TypeOK', HistoryInv, NEW w \in Workers,
           job[w].step \notin {"dispatch", "authorize", "save"},
           NEW step \in {"refused", "count", "terminate", "profile", "save"},
           NEW snap, Goto(w, step, snap),
           snap.history_id = job[w].snap.history_id,
           step = "profile" => job[w].kind = "full",
           UNCHANGED <<now, handed, lost>>,
           row'.history_id \in {row.history_id, job[w].snap.history_id}
    PROVE  HistoryInv'
  <1>1. Quiet(w)
    BY GotoOthers DEF Quiet
  <1>2. \A c \in 1 .. row'.history_id : InCharge(c)'
    BY <1>1, OldIds
  <1>3. Backed(w)'
    <2>1. \A c \in 1 .. job'[w].snap.history_id : InCharge(c)'
      BY <1>1, OldIds, GotoOthers
    <2>2. /\ job'[w].step = step
          /\ job'[w].kind = job[w].kind
      BY GotoOthers
    <2> QED
      BY <2>1, <2>2 DEF Backed
  <1> QED
    BY <1>1, <1>2, <1>3, QuietPreserves

\* The steps of a synchronisation that keep or complete its promise.
LEMMA SyncPreserves ==
    ASSUME TypeOK, TypeOK', HistoryInv, NEW w \in Workers,
           \/ HistoryListed(w) \/ CountFailure(w) \/ TerminateSync(w)
           \/ MarkSyncing(w) \/ ReadProfile(w) \/ ListMessages(w)
           \/ DispatchFull(w) \/ EnqueueFinished(w) \/ UnmarkSyncing(w)
    PROVE  HistoryInv'
  <1>0. /\ job[w] \in Job /\ job[w].snap \in Account
        /\ Backed(w) /\ row \in Account /\ now \in Nat
        /\ job[w].snap.history_id \in Nat /\ job[w].next \in Nat
    BY SyncAssumption DEF TypeOK, Job, HistoryInv, Account, HistoryIds,
       NoHistory, Changes
  <1>1. CASE HistoryListed(w)
    <2>1. CASE HistoryGone(job[w].snap)
      BY <1>1, <2>1, GotoPreserves DEF HistoryListed, gmail
    <2>2. CASE ~HistoryGone(job[w].snap)
      <3>1. Become(w, [job[w] EXCEPT !.step = "store", !.next = now,
                         !.covers = job[w].snap.history_id + 1 .. now])
        BY <1>1, <2>2 DEF HistoryListed, ListedSince
      <3>2. /\ job'[w].kind = "incremental" /\ job'[w].step = "store"
            /\ job'[w].snap = job[w].snap /\ job'[w].next = now
            /\ job'[w].covers = job[w].snap.history_id + 1 .. now
        <4>1. job'[w] = [job[w] EXCEPT !.step = "store", !.next = now,
                           !.covers = job[w].snap.history_id + 1 .. now]
          BY <3>1, BecomeOthers
        <4>2. job[w].kind = "incremental"
          BY <1>1 DEF HistoryListed
        <4> QED
          BY <1>0, <4>1, <4>2 DEF Job
      <3>3. Quiet(w) /\ row' = row /\ job[w].step = "call"
        BY <1>1, <3>1, BecomeOthers DEF HistoryListed, Quiet, gmail
      <3>4. Backed(w)'
        <4>1. \A c \in 1 .. job'[w].snap.history_id : InCharge(c)'
          BY <3>2, <3>3, OldIds
        <4> QED
          BY <1>0, <3>2, <3>3, <4>1 DEF Backed
      <3> QED
        BY <3>3, <3>4, OldIds, QuietPreserves
    <2> QED
      BY <2>1, <2>2
  <1>2. CASE CountFailure(w)
    <2> DEFINE counted == [job[w].snap EXCEPT !.sync_failure_count = Increment(@)]
    <2>1. counted.history_id = job[w].snap.history_id
      BY <1>0 DEF Account
    <2>2. row' = counted /\ (Goto(w, "terminate", counted) \/ Finish(w))
      BY <1>2 DEF CountFailure, SaveAll
    <2>3. UNCHANGED <<now, handed, lost>> /\ job[w].step = "count"
      BY <1>2 DEF CountFailure, gmail
    <2> HIDE DEF counted
    <2> QED
      BY <2>1, <2>2, <2>3, GotoPreserves, FinishPreserves
  <1>3. CASE TerminateSync(w)
    <2>1. row'.history_id = job[w].snap.history_id
      BY <1>0, <1>3 DEF TerminateSync, SaveAll, Account
    <2> QED
      BY <1>3, <2>1, FinishPreserves DEF TerminateSync, gmail
  <1>4. CASE MarkSyncing(w)
    <2>1. CASE row.exists
      <3> DEFINE snap == [job[w].snap EXCEPT !.is_syncing = TRUE,
                                             !.sync_failure_count = 0]
      <3>1. snap.history_id = job[w].snap.history_id
        BY <1>0 DEF Account
      <3>2. row'.history_id = row.history_id
        BY <1>0, <1>4, <2>1 DEF MarkSyncing, AdministerSyncStatus, Account
      <3>3. Goto(w, "profile", snap) /\ job[w].step = "mark"
            /\ UNCHANGED <<now, handed, lost>>
        BY <1>4, <2>1 DEF MarkSyncing, gmail
      <3>4. job[w].kind = "full"
        BY <1>0, <3>3 DEF Backed
      <3> HIDE DEF snap
      <3> QED
        BY <3>1, <3>2, <3>3, <3>4, GotoPreserves
    <2>2. CASE ~row.exists
      BY <1>4, <2>2, FinishPreserves DEF MarkSyncing, gmail
    <2> QED
      BY <2>1, <2>2
  <1>5. CASE ReadProfile(w)
    <2>1. /\ job'[w].kind = job[w].kind /\ job'[w].step = "list"
          /\ job'[w].snap = job[w].snap /\ job'[w].next = now
      <3>1. job'[w] = [job[w] EXCEPT !.step = "list", !.next = now]
        BY <1>5, BecomeOthers DEF ReadProfile
      <3> QED
        BY <1>0, <3>1 DEF Job
    <2>2. Quiet(w) /\ row' = row /\ job[w].step = "profile"
      BY <1>5, BecomeOthers DEF ReadProfile, Quiet, gmail
    <2>3. Backed(w)'
      <3>1. \A c \in 1 .. job'[w].snap.history_id : InCharge(c)'
        BY <2>1, <2>2, OldIds
      <3> QED
        BY <1>0, <2>1, <2>2, <3>1 DEF Backed, Quiet
    <2> QED
      BY <2>2, <2>3, OldIds, QuietPreserves
  <1>6. CASE ListMessages(w)
    <2>1. /\ job'[w].kind = job[w].kind /\ job'[w].step = "dispatch"
          /\ job'[w].snap = job[w].snap /\ job'[w].next = job[w].next
          /\ job'[w].covers = 1 .. now
      <3>1. job'[w] = [job[w] EXCEPT !.step = "dispatch",
                                     !.covers = 1 .. now]
        BY <1>6, BecomeOthers DEF ListMessages
      <3> QED
        BY <1>0, <3>1 DEF Job
    <2>2. Quiet(w) /\ row' = row /\ job[w].step = "list"
      BY <1>6, BecomeOthers DEF ListMessages, Quiet, gmail
    <2>3. Backed(w)'
      <3>1. \A c \in 1 .. job'[w].snap.history_id : InCharge(c)'
        BY <2>1, <2>2, OldIds
      <3>2. 1 .. job[w].next \subseteq 1 .. now /\ job[w].kind = "full"
        BY <1>0, <2>2 DEF Backed
      <3> QED
        BY <2>1, <3>1, <3>2 DEF Backed
    <2> QED
      BY <2>2, <2>3, OldIds, QuietPreserves
  <1>7. CASE DispatchFull(w)
    <2>1. /\ job'[w].kind = "full" /\ job'[w].step = "close"
          /\ job'[w].snap = job[w].snap /\ job'[w].next = job[w].next
      BY <1>7, GotoOthers DEF DispatchFull
    <2>2. /\ Quiet(w) /\ row' = row /\ job[w].step = "dispatch"
          /\ handed' = handed \union job[w].covers
      BY <1>7, GotoOthers DEF DispatchFull, Quiet, gmail
    <2>3. Backed(w)'
      <3>1. \A c \in 1 .. job'[w].snap.history_id : InCharge(c)'
        BY <2>1, <2>2, OldIds
      <3>2. 1 .. job[w].next \subseteq handed'
        BY <1>0, <1>7, <2>2 DEF Backed, DispatchFull
      <3> QED
        BY <2>1, <3>1, <3>2 DEF Backed
    <2> QED
      BY <2>2, <2>3, OldIds, QuietPreserves
  <1>8. CASE EnqueueFinished(w)
    <2>1. /\ job'[w].kind = job[w].kind /\ job'[w].step = "store"
          /\ job'[w].snap = job[w].snap /\ job'[w].next = job[w].next
      BY <1>8, GotoOthers DEF EnqueueFinished
    <2>2. Quiet(w) /\ row' = row /\ job[w].step = "close" /\ handed' = handed
      BY <1>8, GotoOthers DEF EnqueueFinished, Quiet, gmail
    <2>3. Backed(w)'
      <3>1. \A c \in 1 .. job'[w].snap.history_id : InCharge(c)'
        BY <2>1, <2>2, OldIds
      <3>2. 1 .. job[w].next \subseteq handed /\ job[w].kind = "full"
        BY <1>0, <2>2 DEF Backed
      <3> QED
        BY <2>1, <2>2, <3>1, <3>2 DEF Backed
    <2> QED
      BY <2>2, <2>3, OldIds, QuietPreserves
  <1>9. CASE UnmarkSyncing(w)
    <2>1. row'.history_id = row.history_id
      BY <1>0, <1>9 DEF UnmarkSyncing, AdministerSyncStatus, Account
    <2> QED
      BY <1>9, <2>1, FinishPreserves DEF UnmarkSyncing, gmail
  <1> QED
    BY <1>1, <1>2, <1>3, <1>4, <1>5, <1>6, <1>7, <1>8, <1>9

\* save_history_id, and the hand-over that may follow it.
LEMMA StorePreserves ==
    ASSUME TypeOK, TypeOK', HistoryInv, NEW w \in Workers, StoreHistoryId(w)
    PROVE  HistoryInv'
  <1>0. /\ job[w] \in Job /\ job[w].snap \in Account
        /\ Backed(w) /\ row \in Account
        /\ job[w].snap.history_id \in Nat /\ job[w].next \in Nat
    BY SyncAssumption DEF TypeOK, Job, HistoryInv, Account, HistoryIds, NoHistory
  <1>1. /\ job[w].step = "store" /\ UNCHANGED <<now, handed, lost>>
        /\ job[w].kind \in {"full", "incremental"}
    BY <1>0 DEF StoreHistoryId, gmail, Backed
  <1>2. CASE ~row.exists
    BY <1>1, <1>2, FinishPreserves DEF StoreHistoryId
  <1>3. CASE row.exists /\ job[w].kind = "full"
    <2>1. row'.history_id = job[w].next
      BY <1>0, <1>3 DEF StoreHistoryId, Account
    <2>2. Finish(w)
      BY <1>3 DEF StoreHistoryId
    <2>3. Quiet(w) /\ Backed(w)'
      BY <1>1, <2>2, FinishOthers, IdleIsBacked DEF Quiet
    <2>4. \A c \in 1 .. row'.history_id : InCharge(c)'
      BY <1>0, <1>1, <1>3, <2>1 DEF Backed, InCharge
    <2> QED
      BY <2>3, <2>4, QuietPreserves
  <1>4. CASE row.exists /\ job[w].kind = "incremental"
    <2> DEFINE snap == [job[w].snap EXCEPT !.history_id = job[w].next]
    <2>1. row'.history_id = job[w].next /\ snap.history_id = job[w].next
      BY <1>0, <1>4 DEF StoreHistoryId, Account
    <2>2. Goto(w, "dispatch", snap)
      BY <1>4 DEF StoreHistoryId
    <2> HIDE DEF snap
    <2>3. /\ job'[w].kind = "incremental" /\ job'[w].step = "dispatch"
          /\ job'[w].snap = snap /\ job'[w].covers = job[w].covers
      BY <1>4, <2>2, GotoOthers
    <2>4. Quiet(w)
      BY <1>1, <2>2, GotoOthers DEF Quiet
    <2>5. \A c \in 1 .. job[w].next : InCharge(c)'
      <3>1. \A c \in 1 .. job[w].snap.history_id : InCharge(c)'
        BY <1>1, <2>4, OldIds
      <3>2. \A c \in job[w].covers : InCharge(c)'
        BY <2>3 DEF InCharge, HandingOver
      <3>3. job[w].covers = job[w].snap.history_id + 1 .. job[w].next
        BY <1>0, <1>1, <1>4 DEF Backed
      <3>4. \A c \in 1 .. job[w].next :
              c \in 1 .. job[w].snap.history_id \/ c \in job[w].covers
        BY <1>0, <3>3
      <3> QED
        BY <3>1, <3>2, <3>4
    <2>6. Backed(w)'
      <3>1. \A c \in 1 .. job'[w].snap.history_id : InCharge(c)'
        BY <2>1, <2>3, <2>5
      <3> QED
        BY <2>3, <3>1 DEF Backed
    <2> QED
      BY <2>1, <2>4, <2>5, <2>6, QuietPreserves
  <1> QED
    BY <1>1, <1>2, <1>3, <1>4

\* Handing over, or dying in the middle of it: the changes move to `handed'
\* or `lost', so they stay accounted for although nobody holds them now.
LEMMA HandOverPreserves ==
    ASSUME TypeOK, TypeOK', HistoryInv, NEW w \in Workers,
           Finish(w), UNCHANGED <<row, now>>,
           handed \subseteq handed', lost \subseteq lost',
           job[w].kind = "incremental" /\ job[w].step = "dispatch" =>
             job[w].covers \subseteq handed' \union lost'
    PROVE  HistoryInv'
  <1>1. ASSUME NEW c \in Changes, InCharge(c)
        PROVE  InCharge(c)'
    <2>1. CASE c \in handed \/ c \in lost
      BY <2>1 DEF InCharge
    <2>2. ASSUME NEW v \in Workers, HandingOver(v, c)
          PROVE  InCharge(c)'
      <3>1. CASE v = w
        BY <2>2, <3>1 DEF HandingOver, InCharge
      <3>2. CASE v # w
        <4>1. HandingOver(v, c)'
          BY <2>2, <3>2, FinishOthers DEF HandingOver
        <4> QED
          BY <4>1 DEF InCharge
      <3> QED
        BY <3>1, <3>2
    <2> QED
      BY <1>1, <2>1, <2>2 DEF InCharge
  <1>2. now' \in Changes /\ now <= now'
    BY SyncAssumption DEF TypeOK, Changes
  <1>3. \A v \in Workers \ {w} : Backed(v)'
    BY <1>1, <1>2, BackedKept, FinishOthers DEF HistoryInv
  <1>4. Backed(w)'
    BY FinishOthers, IdleIsBacked
  <1>5. NoChangeSkipped'
    <2>1. 1 .. row.history_id \subseteq Changes
      BY SyncAssumption DEF TypeOK, Account, HistoryIds, NoHistory, Changes
    <2> QED
      BY <1>1, <2>1 DEF HistoryInv, NoChangeSkipped
  <1> QED
    BY <1>3, <1>4, <1>5 DEF HistoryInv

\* The web requests: what they load, and the row they write at the end.
LEMMA BeginPreserves ==
    ASSUME TypeOK, TypeOK', HistoryInv, NEW w \in Workers, NEW k, NEW step, NEW snap,
           BeginRequest(w, k, step, snap), snap.history_id = row.history_id,
           step \in {"invalid", "save", "authorize", "only_new", "connect"}
    PROVE  HistoryInv'
  <1>1. Become(w, [Idle EXCEPT !.kind = k, !.step = step, !.snap = snap])
        /\ row' = row /\ UNCHANGED <<now, handed, lost>> /\ job[w].kind = "none"
    BY DEF BeginRequest, gmail
  <1>2. job'[w].step = step /\ job'[w].snap = snap /\ job'[w].kind = k
    <2>1. job'[w] = [Idle EXCEPT !.kind = k, !.step = step, !.snap = snap]
      BY <1>1, BecomeOthers
    <2> QED
      BY <2>1 DEF Idle
  <1>3. Quiet(w)
    BY <1>1, BecomeOthers DEF Quiet
  <1>4. Backed(w)'
    <2>1. \A c \in 1 .. job'[w].snap.history_id : InCharge(c)'
      BY <1>2, <1>3, OldIds
    <2> QED
      BY <1>2, <2>1 DEF Backed
  <1> QED
    BY <1>1, <1>3, <1>4, OldIds, QuietPreserves

\* Nobody works, only beat, the broker, Gmail or the purge moves.
LEMMA OutsidePreserves ==
    ASSUME TypeOK, TypeOK', HistoryInv, UNCHANGED <<job, handed, lost>>,
           now <= now', row' = row \/ row' = NoRow
    PROVE  HistoryInv'
  <1>1. \A c : InCharge(c) => InCharge(c)'
    BY DEF InCharge, HandingOver
  <1>2. \A v \in Workers : Backed(v)'
    BY <1>1, BackedKept DEF HistoryInv, TypeOK
  <1>3. NoChangeSkipped'
    <2>1. CASE row' = row
      BY <1>1, <2>1 DEF HistoryInv, NoChangeSkipped
    <2>2. CASE row' = NoRow
      <3>1. row'.history_id = 0
        BY <2>2 DEF NoRow, NewAccount, NoHistory
      <3> QED
        BY <3>1, SMT DEF NoChangeSkipped
    <2> QED
      BY <2>1, <2>2
  <1> QED
    BY <1>2, <1>3 DEF HistoryInv

\* NoChangeSkipped holds in every reachable state, for any number of workers,
\* of changes and of failures: no interleaving of tasks, requests, stale saves
\* and crashes stores a history id past a change nobody was in charge of
\* (manager.py:80-87 and 139-196).
THEOREM HistoryNeverSkips == Spec => []NoChangeSkipped
  <1>1. Init => HistoryInv
    <2> SUFFICES ASSUME Init PROVE HistoryInv
      OBVIOUS
    <2>1. row.history_id = 0 /\ \A w \in Workers : job[w] = Idle
      BY DEF Init, NewAccount, NoHistory
    <2>2. NoChangeSkipped
      BY <2>1, SMT DEF NoChangeSkipped
    <2>3. \A w \in Workers : Backed(w)
      <3>1. \A w \in Workers :
              /\ job[w].step = "idle"
              /\ \A c \in 1 .. job[w].snap.history_id : FALSE
        <4>1. /\ Idle.step = "idle"
              /\ \A c \in 1 .. Idle.snap.history_id : FALSE
          BY SMT DEF Idle, NoRow, NewAccount, NoHistory
        <4> QED
          BY <2>1, <4>1
      <3> QED
        BY <3>1 DEF Backed
    <2> QED
      BY <2>2, <2>3 DEF HistoryInv
  <1>2. TypeOK /\ TypeOK' /\ HistoryInv /\ [Next]_vars => HistoryInv'
    <2> SUFFICES ASSUME TypeOK, TypeOK', HistoryInv, [Next]_vars
                 PROVE  HistoryInv'
      OBVIOUS
    <2>0. now \in Nat /\ now' \in Nat /\ row \in Account
      BY SyncAssumption DEF TypeOK, Changes
    <2>1. CASE UNCHANGED vars
      BY <2>0, <2>1, OutsidePreserves DEF vars
    <2>2. CASE \/ MailboxChanges \/ HistoryExpires \/ AccessRevoked
               \/ ScheduleSync \/ ScheduleLabels \/ ScheduleCleanup
               \/ PurgeAccount
      BY <2>0, <2>2, OutsidePreserves
      DEF MailboxChanges, HistoryExpires, AccessRevoked, ScheduleSync,
          ScheduleLabels, ScheduleCleanup, PurgeAccount, gmail
    <2>3. ASSUME NEW w \in Workers, NEW k \in SyncTasks, Start(w, k)
          PROVE  HistoryInv'
      <3>1. row' = row /\ UNCHANGED <<now, handed, lost>>
        BY <2>3 DEF Start, gmail
      <3>2. CASE Active(row)
        <4> DEFINE s == IF NoCredentials THEN "invalid" ELSE FirstStep(k)
        <4>1. Become(w, [Idle EXCEPT !.kind = k, !.snap = row, !.step = s])
          BY <2>3, <3>2 DEF Start
        <4>2. /\ s \in {"invalid", "mark", "unmark", "call"}
              /\ s = "mark" => k = "full"
          BY DEF FirstStep
        <4> HIDE DEF s
        <4>3. job'[w].kind = k /\ job'[w].snap = row /\ job'[w].step = s
          <5>1. job'[w] = [Idle EXCEPT !.kind = k, !.snap = row, !.step = s]
            BY <4>1, BecomeOthers
          <5> QED
            BY <5>1 DEF Idle
        <4>4. Quiet(w)
          BY <2>3, <3>1, <4>1, BecomeOthers DEF Quiet, Start
        <4>5. Backed(w)'
          <5>1. \A c \in 1 .. job'[w].snap.history_id : InCharge(c)'
            BY <4>3, <4>4, OldIds
          <5> QED
            BY <4>2, <4>3, <5>1 DEF Backed
        <4> QED
          BY <3>1, <4>4, <4>5, OldIds, QuietPreserves
      <3>3. CASE ~Active(row)
        BY <2>0, <2>3, <3>1, <3>3, OutsidePreserves DEF Start
      <3> QED
        BY <3>2, <3>3
    <2>4. ASSUME NEW w \in Workers, Step(w)
          PROVE  HistoryInv'
      <3>0. /\ job[w] \in Job /\ job[w].snap \in Account /\ Backed(w)
            /\ job[w].snap.history_id \in Nat
        BY SyncAssumption DEF TypeOK, Job, HistoryInv, Account, HistoryIds,
           NoHistory
      <3>1. CASE InvalidCredentials(w) \/ SaveRefused(w)
        <4>1. row'.history_id = job[w].snap.history_id
          BY <3>0, <3>1 DEF InvalidCredentials, SaveRefused, SaveAll, Account
        <4>2. /\ Finish(w) /\ UNCHANGED <<now, handed, lost>>
              /\ job[w].step \notin {"dispatch", "authorize", "save"}
          BY <3>1 DEF InvalidCredentials, SaveRefused, RetryOrGiveUp, gmail
        <4> QED
          BY <4>1, <4>2, FinishPreserves
      <3>2. CASE TokenRefused(w)
        BY <3>2, GotoPreserves DEF TokenRefused, gmail
      <3>3. CASE CallFails(w) \/ CallDone(w)
        <4>1. /\ Finish(w) /\ UNCHANGED <<row, now, handed, lost>>
              /\ job[w].step \notin {"dispatch", "authorize", "save"}
          BY <3>3 DEF CallFails, CallDone, RetryOrGiveUp, gmail
        <4> QED
          BY <4>1, FinishPreserves
      <3>4. CASE \/ HistoryListed(w) \/ CountFailure(w) \/ TerminateSync(w)
                 \/ MarkSyncing(w) \/ ReadProfile(w) \/ ListMessages(w)
                 \/ DispatchFull(w) \/ EnqueueFinished(w) \/ UnmarkSyncing(w)
        BY <3>4, SyncPreserves
      <3>5. CASE StoreHistoryId(w)
        BY <3>5, StorePreserves
      <3>6. CASE DispatchIncremental(w)
        BY <3>6, HandOverPreserves DEF DispatchIncremental, gmail
      <3>7. CASE SkipToPresent(w)
        <4> DEFINE new == [job[w] EXCEPT !.step = "authorize", !.covers = 1 .. now,
                             !.snap = [@ EXCEPT !.history_id = now,
                                                !.is_syncing = FALSE]]
        <4>1. CASE Finish(w)
          BY <3>7, <4>1, FinishPreserves DEF SkipToPresent, gmail
        <4>2. CASE Become(w, new)
          <5>2. /\ new.step = "authorize" /\ new.covers = 1 .. now
                /\ new.snap.history_id = now
            BY <3>0 DEF Job, Account
          <5> HIDE DEF new
          <5>3. job'[w] = new
            BY <4>2, BecomeOthers
          <5>4. Quiet(w) /\ row' = row
            BY <3>7, <4>2, BecomeOthers DEF SkipToPresent, Quiet, gmail
          <5>5. Backed(w)'
            BY <5>2, <5>3 DEF Backed
          <5> QED
            BY <5>4, <5>5, OldIds, QuietPreserves
        <4> QED
          BY <3>7, <4>1, <4>2 DEF SkipToPresent
      <3>8. CASE SaveRequest(w)
        <4>1. /\ row' = job[w].snap /\ handed' = handed \union job[w].covers
              /\ UNCHANGED <<now, lost>> /\ job[w].step \in {"authorize", "save"}
          BY <3>8 DEF SaveRequest, SaveAll, gmail
        <4>2. Finish(w) \/ Goto(w, "save", job[w].snap)
          BY <3>8 DEF SaveRequest
        <4>3. Quiet(w)
          BY <4>1, <4>2, FinishOthers, GotoOthers DEF Quiet
        <4>4. \A c \in 1 .. row'.history_id : InCharge(c)'
          BY <4>1, <4>3, OldIds DEF InCharge
        <4>5. Backed(w)'
          <5>1. CASE Finish(w)
            BY <5>1, FinishOthers, IdleIsBacked
          <5>2. CASE Goto(w, "save", job[w].snap)
            <6>1. job'[w].step = "save" /\ job'[w].snap = row'
              BY <4>1, <5>2, GotoOthers
            <6> QED
              BY <4>4, <6>1 DEF Backed
          <5> QED
            BY <4>2, <5>1, <5>2
        <4> QED
          BY <4>3, <4>4, <4>5, QuietPreserves
      <3>9. CASE PutCredentials(w)
        <4>1. /\ job[w].step = "connect" /\ row' = row
              /\ UNCHANGED <<now, handed, lost>>
              /\ Finish(w) \/ Goto(w, "save", job[w].snap)
          BY <3>9 DEF PutCredentials, gmail
        <4> QED
          BY <4>1, FinishPreserves, GotoPreserves
      <3> QED
        BY <2>4, <3>1, <3>2, <3>3, <3>4, <3>5, <3>6, <3>7, <3>8, <3>9 DEF Step
    <2>5. ASSUME NEW w \in Workers, Patch(w) \/ Destroy(w) \/ Reconnect(w)
          PROVE  HistoryInv'
      <3>1. /\ \A b : [row EXCEPT !.is_deleted = b].history_id = row.history_id
            /\ [row EXCEPT !.is_authorized = TRUE].history_id = row.history_id
        BY <2>0 DEF Account
      <3>2. CASE Patch(w)
        BY <3>1, <3>2, BeginPreserves DEF Patch
      <3>3. CASE Destroy(w)
        BY <3>1, <3>3, BeginPreserves DEF Destroy
      <3>4. CASE Reconnect(w)
        BY <3>1, <3>4, BeginPreserves DEF Reconnect
      <3> QED
        BY <2>5, <3>2, <3>3, <3>4
    <2>6. ASSUME NEW w \in Workers, Crash(w)
          PROVE  HistoryInv'
      BY <2>6, HandOverPreserves DEF Crash, RetryOrGiveUp, gmail
    <2> QED
      BY <2>1, <2>2, <2>3, <2>4, <2>5, <2>6 DEF Next
  <1>3. HistoryInv => NoChangeSkipped
    BY DEF HistoryInv
  <1> QED
    BY <1>1, <1>2, <1>3, TypeCorrect, PTL DEF Spec

-----------------------------------------------------------------------------
(* What every step of a worker has in common.                              *)

\* A job that goes on is the same job: only its step and what it knows change.
LEMMA SameJob ==
    ASSUME TypeOK, NEW w \in Workers, NEW step, NEW next, NEW covers,
           \/ Become(w, [job[w] EXCEPT !.step = step, !.next = next])
           \/ Become(w, [job[w] EXCEPT !.step = step, !.covers = covers])
           \/ Become(w, [job[w] EXCEPT !.step = step, !.next = next,
                                      !.covers = covers])
    PROVE  /\ job'[w].kind = job[w].kind
           /\ job'[w].step = step
           /\ job'[w].snap = job[w].snap
           /\ \A v \in Workers \ {w} : job'[v] = job[v]
  <1> DEFINE Same(j) == j.kind = job[w].kind /\ j.step = step /\ j.snap = job[w].snap
  <1>1. job[w] \in Job
    BY DEF TypeOK
  <1>2. /\ Same([job[w] EXCEPT !.step = step, !.next = next])
        /\ Same([job[w] EXCEPT !.step = step, !.covers = covers])
        /\ Same([job[w] EXCEPT !.step = step, !.next = next, !.covers = covers])
    BY <1>1 DEF Job
  <1>3. \E j : Become(w, j) /\ Same(j)
    BY <1>2
  <1>4. PICK j : Become(w, j) /\ Same(j)
    BY <1>3
  <1>5. job'[w] = j /\ \A v \in Workers \ {w} : job'[v] = job[v]
    BY <1>4, BecomeOthers
  <1> QED
    BY <1>4, <1>5

LEMMA StepEndsOrGoesOn ==
    ASSUME TypeOK, NEW w \in Workers, Step(w)
    PROVE  /\ job[w].step # "idle"
           /\ job'[w] = Idle \/ job'[w].kind = job[w].kind
           /\ \A v \in Workers \ {w} : job'[v] = job[v]
           /\ scenario' = scenario
  <1>0. job[w] \in Job
    BY DEF TypeOK
  <1>1. \A j : Become(w, j) => /\ job'[w] = j
                               /\ \A v \in Workers \ {w} : job'[v] = job[v]
    BY BecomeOthers
  <1>2. ASSUME Finish(w)
        PROVE  /\ job'[w] = Idle
               /\ \A v \in Workers \ {w} : job'[v] = job[v]
    BY <1>2, FinishOthers
  <1>3. ASSUME NEW step, NEW snap, Goto(w, step, snap)
        PROVE  /\ job'[w].kind = job[w].kind
               /\ \A v \in Workers \ {w} : job'[v] = job[v]
    BY <1>3, GotoOthers
  <1>4. CASE \/ InvalidCredentials(w) \/ TokenRefused(w) \/ SaveRefused(w)
             \/ CallFails(w) \/ CallDone(w) \/ TerminateSync(w)
             \/ StoreHistoryId(w) \/ DispatchIncremental(w)
             \/ MarkSyncing(w) \/ DispatchFull(w) \/ EnqueueFinished(w)
             \/ UnmarkSyncing(w) \/ PutCredentials(w) \/ SaveRequest(w)
    BY <1>2, <1>3, <1>4
    DEF InvalidCredentials, TokenRefused, SaveRefused, CallFails, CallDone,
        TerminateSync, StoreHistoryId, DispatchIncremental, MarkSyncing,
        DispatchFull, EnqueueFinished, UnmarkSyncing, PutCredentials,
        SaveRequest, RetryOrGiveUp, gmail
  <1>5. CASE CountFailure(w)
    BY <1>2, <1>3, <1>5 DEF CountFailure, gmail
  <1>6. CASE HistoryListed(w) \/ ReadProfile(w) \/ ListMessages(w)
    <2>1. \/ \E snap : Goto(w, "count", snap)
          \/ \E step, next, covers :
               Become(w, [job[w] EXCEPT !.step = step, !.next = next,
                                        !.covers = covers])
          \/ \E step, next : Become(w, [job[w] EXCEPT !.step = step, !.next = next])
          \/ \E step, covers :
               Become(w, [job[w] EXCEPT !.step = step, !.covers = covers])
      BY <1>6 DEF HistoryListed, ReadProfile, ListMessages
    <2>2. job[w].step # "idle" /\ scenario' = scenario
      BY <1>6 DEF HistoryListed, ReadProfile, ListMessages, gmail
    <2> QED
      BY <1>3, <2>1, <2>2, SameJob
  <1>7. CASE SkipToPresent(w)
    <2> DEFINE new == [job[w] EXCEPT !.step = "authorize", !.covers = 1 .. now,
                         !.snap = [@ EXCEPT !.history_id = now,
                                            !.is_syncing = FALSE]]
    <2>1. Finish(w) \/ Become(w, new)
      BY <1>7 DEF SkipToPresent
    <2>2. job[w].step # "idle" /\ scenario' = scenario
      BY <1>7 DEF SkipToPresent, gmail
    <2>3. new.kind = job[w].kind
      BY <1>0 DEF Job
    <2> HIDE DEF new
    <2> QED
      BY <1>1, <1>2, <2>1, <2>2, <2>3
  <1> QED
    BY <1>4, <1>5, <1>6, <1>7 DEF Step

\* The scenario of a behaviour is its first one.
LEMMA SameScenario ==
    ASSUME TypeOK, [Next]_vars
    PROVE  scenario' = scenario
  BY StepEndsOrGoesOn
  DEF Next, vars, gmail, MailboxChanges, HistoryExpires, AccessRevoked,
      ScheduleSync, ScheduleLabels, ScheduleCleanup, PurgeAccount, Start, Patch,
      Destroy, Reconnect, BeginRequest, Crash

\* A worker without a job has nothing in hand.
AtRest == \A w \in Workers : job[w].kind = "none" => job[w] = Idle

LEMMA RestsWhenIdle == Spec => []AtRest
  <1>1. Init => AtRest
    BY DEF Init, AtRest
  <1>2. TypeOK /\ AtRest /\ [Next]_vars => AtRest'
    <2> SUFFICES ASSUME TypeOK, AtRest, [Next]_vars PROVE AtRest'
      OBVIOUS
    <2>1. CASE UNCHANGED job
      BY <2>1 DEF AtRest
    <2>2. ASSUME NEW w \in Workers, NEW k \in SyncTasks, Start(w, k)
          PROVE  AtRest'
      <3>1. k # "none"
        BY DEF SyncTasks, MessageTasks
      <3>2. \A s : [Idle EXCEPT !.kind = k, !.snap = row, !.step = s].kind = k
        BY DEF Idle
      <3>3. CASE Active(row)
        <4>1. job'[w].kind = k /\ \A v \in Workers \ {w} : job'[v] = job[v]
          BY <2>2, <3>2, <3>3, BecomeOthers DEF Start
        <4> QED
          BY <3>1, <4>1 DEF AtRest
      <3> QED
        BY <2>1, <2>2, <3>3 DEF Start
    <2>3. ASSUME NEW w \in Workers, Step(w)
          PROVE  AtRest'
      <3>1. job[w].kind # "none"
        BY <2>3, StepEndsOrGoesOn DEF AtRest, Idle
      <3> QED
        BY <2>3, <3>1, StepEndsOrGoesOn DEF AtRest
    <2>4. ASSUME NEW w \in Workers, Patch(w) \/ Destroy(w) \/ Reconnect(w)
          PROVE  AtRest'
      <3> PICK k \in {"patch", "destroy", "reconnect"} : \E s, a : BeginRequest(w, k, s, a)
        BY <2>4 DEF Patch, Destroy, Reconnect
      <3>1. PICK s, a : BeginRequest(w, k, s, a)
        OBVIOUS
      <3>2. job'[w].kind = k /\ \A v \in Workers \ {w} : job'[v] = job[v]
        <4>1. [Idle EXCEPT !.kind = k, !.step = s, !.snap = a].kind = k
          BY DEF Idle
        <4> QED
          BY <3>1, <4>1, BecomeOthers DEF BeginRequest
      <3> QED
        BY <3>2 DEF AtRest
    <2>5. ASSUME NEW w \in Workers, Crash(w)
          PROVE  AtRest'
      BY <2>5, FinishOthers DEF Crash, RetryOrGiveUp, AtRest
    <2> QED
      BY <2>1, <2>2, <2>3, <2>4, <2>5
      DEF Next, vars, MailboxChanges, HistoryExpires, AccessRevoked,
          ScheduleSync, ScheduleLabels, ScheduleCleanup, PurgeAccount
  <1> QED
    BY <1>1, <1>2, TypeCorrect, PTL DEF Spec

-----------------------------------------------------------------------------
(* A deleted account is left alone.                                        *)

NoReconnect == "reconnect" \notin scenario.requests
DeletedAtRest == row.is_deleted /\ \A w \in Workers : job[w].kind = "none"
NotSynchronised == \A w \in Workers : job[w].kind \notin SyncTasks

\* What stays once a deleted account has no work: the row is deleted or gone, and
\* the one kind of request that still finds it deletes it again.
LeftAlone ==
    /\ row.is_deleted \/ ~row.exists
    /\ \A w \in Workers :
         \/ job[w].kind = "none"
         \/ /\ job[w].kind = "destroy" /\ job[w].step = "save"
            /\ job[w].snap.is_deleted

LEMMA LeftAloneStays ==
    ASSUME TypeOK, AtRest, NoReconnect, LeftAlone, [Next]_vars
    PROVE  LeftAlone'
  <1>0. ~Active(row) /\ Idle.kind = "none" /\ Idle.step = "idle"
    BY DEF LeftAlone, Active, Idle
  <1>1. CASE UNCHANGED <<row, job>>
    BY <1>1 DEF LeftAlone
  <1>2. CASE PurgeAccount
    BY <1>2 DEF PurgeAccount, LeftAlone, NoRow, NewAccount
  <1>3. ASSUME NEW w \in Workers, NEW k \in SyncTasks, Start(w, k)
        PROVE  LeftAlone'
    BY <1>0, <1>1, <1>3 DEF Start
  <1>4. ASSUME NEW w \in Workers, Step(w)
        PROVE  LeftAlone'
    <2>1. job[w].kind = "destroy" /\ job[w].step = "save" /\ job[w].snap.is_deleted
      BY <1>0, <1>4, StepEndsOrGoesOn DEF LeftAlone, AtRest
    <2>2. SaveRequest(w)
      BY <1>4, <2>1
      DEF Step, InvalidCredentials, TokenRefused, SaveRefused, CallFails,
          CallDone, HistoryListed, CountFailure, TerminateSync, StoreHistoryId,
          DispatchIncremental, MarkSyncing, ReadProfile, ListMessages,
          DispatchFull, EnqueueFinished, UnmarkSyncing, SkipToPresent,
          PutCredentials
    <2>3. row' = job[w].snap /\ Finish(w)
      BY <2>1, <2>2 DEF SaveRequest, SaveAll
    <2> QED
      BY <1>0, <2>1, <2>3, FinishOthers DEF LeftAlone
  <1>5. ASSUME NEW w \in Workers, Patch(w) \/ Destroy(w) \/ Reconnect(w)
        PROVE  LeftAlone'
    <2> DEFINE new == [Idle EXCEPT !.kind = "destroy", !.step = "save",
                                   !.snap = [row EXCEPT !.is_deleted = TRUE]]
    <2>1. Destroy(w)
      BY <1>5 DEF NoReconnect, LeftAlone, Patch, Reconnect, BeginRequest
    <2>2. Become(w, new) /\ row' = row
      BY <2>1 DEF Destroy, BeginRequest
    <2>3. new.kind = "destroy" /\ new.step = "save" /\ new.snap.is_deleted
      BY DEF Idle, TypeOK, Account
    <2> HIDE DEF new
    <2> QED
      BY <2>2, <2>3, BecomeOthers DEF LeftAlone
  <1>6. ASSUME NEW w \in Workers, Crash(w)
        PROVE  LeftAlone'
    BY <1>0, <1>6, FinishOthers DEF Crash, RetryOrGiveUp, LeftAlone
  <1> QED
    BY <1>1, <1>2, <1>3, <1>4, <1>5, <1>6
    DEF Next, vars, MailboxChanges, HistoryExpires, AccessRevoked,
        ScheduleSync, ScheduleLabels, ScheduleCleanup

\* DeletedIsLeftAlone holds in every behaviour, for any number of workers and
\* whatever fails: neither the scheduler, nor a task or request that is started
\* later, nor a late save takes a deleted account up again (tasks.py:22-229,
\* api/views.py:92-97).
THEOREM DeletedStaysAlone == Spec => DeletedIsLeftAlone
  <1>1. DeletedAtRest => LeftAlone
    BY DEF DeletedAtRest, LeftAlone
  <1>2. TypeOK /\ AtRest /\ NoReconnect /\ LeftAlone /\ [Next]_vars => LeftAlone'
    BY LeftAloneStays
  <1>3. TypeOK /\ NoReconnect /\ [Next]_vars => NoReconnect'
    BY SameScenario DEF NoReconnect
  <1>4. LeftAlone => NotSynchronised
    BY DEF LeftAlone, NotSynchronised, SyncTasks, MessageTasks
  <1>5. Spec => (NoReconnect => [](DeletedAtRest => []NotSynchronised))
    BY <1>1, <1>2, <1>3, <1>4, TypeCorrect, RestsWhenIdle, PTL DEF Spec
  <1> QED
    BY <1>5 DEF DeletedIsLeftAlone, NoReconnect, DeletedAtRest, NotSynchronised

=============================================================================
